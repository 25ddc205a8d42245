--------------------------- MODULE FlagScan_proofs ---------------------------
(***************************************************************************)
(* The scan of M68K_GetSRMask drops a flag only where nothing can look at  *)
(* it: for every program, every depth of the scan and every choice of      *)
(* instructions from the opcode tables.  A flag is dead at an address if   *)
(* every way on from there overwrites it before anything looks at it; what *)
(* is invariant is that stale flags are dead.                              *)
(***************************************************************************)
EXTENDS FlagScan, Integers, FiniteSetTheorems, NaturalsInduction,
        WellFoundedInduction, TLAPS

-----------------------------------------------------------------------------
(***************************************************************************)
(* What the opcode tables and the emitters agree on, instruction by        *)
(* instruction.                                                            *)
(***************************************************************************)
Pieces == {"move", "ext.w", "ext.l"}

(* Whoever cares for V cares for N.                                        *)
Paired(s) == "V" \in s => "N" \in s

Regular(i) ==
    /\ i.needs \subseteq CCR /\ i.sets \subseteq CCR /\ i.reads \subseteq CCR
    /\ i.writes \subseteq i.sets /\ i.maybe \subseteq i.writes
    /\ i.sets \ i.needs \subseteq (i.writes \ i.maybe) \ i.reads
    /\ i.flow \in {"next", "follow", "split", "break"}
    /\ i.flow # "break" => i.reads \subseteq i.needs
    /\ "N" \in i.sets <=> "V" \in i.sets
    /\ Paired(i.needs) \/ i.reads = {"V"}
    /\ Paired(i.writes)
    /\ i.flow = "next" /\ i.needs = CCR => i.by = "all" \/ i.writes = {}
    /\ i.by \in {"all", "mask", "NZ00", "NZxx", "add", "sub", "cmp", "ROXL"}
    /\ i.by = "NZ00" => "X" \notin i.writes
    /\ i.fuse \in Pieces =>
          /\ i.flow = "next" /\ i.needs = {} /\ i.reads = {} /\ i.maybe = {}
          /\ i.writes = NZVC

(* Conditions: none needs all flags, and none but VC and VS looks at V     *)
(* without N.                                                              *)
LEMMA Conditions ==
  ASSUME NEW c \in DOMAIN CC
  PROVE  /\ CC[c] \subseteq CCR \ {"X"} /\ CC[c] # CCR
         /\ Paired(CC[c]) \/ CC[c] = {"V"}
  BY DEF CC, CCR, NZVC, Paired

(* The entry of an instruction is a record of eight fields.                *)
IsInsn(i) ==
    i = [needs |-> i.needs, sets |-> i.sets, reads |-> i.reads, writes |-> i.writes,
         by |-> i.by, maybe |-> i.maybe, flow |-> i.flow, fuse |-> i.fuse]

(* Its parts, for an entry as most are.                                    *)
LEMMA InsnIsInsn ==
  ASSUME NEW needs, NEW sets, NEW by
  PROVE  LET i == Insn(needs, sets, by)
         IN  /\ IsInsn(i)
             /\ i.needs = needs /\ i.sets = sets /\ i.reads = needs /\ i.writes = sets
             /\ i.by = by /\ i.maybe = {} /\ i.flow = "next" /\ i.fuse = "none"
  BY DEF Insn, IsInsn

(* An instruction as most are, followed by the next.                       *)
LEMMA PlainRegular ==
  ASSUME NEW needs \in SUBSET CCR, NEW sets \in SUBSET CCR, NEW by,
         by \in {"all", "mask", "NZ00", "NZxx", "add", "sub", "cmp", "ROXL"},
         "N" \in sets <=> "V" \in sets,
         Paired(needs) \/ needs = {"V"},
         needs = CCR => by = "all" \/ sets = {},
         by = "NZ00" => "X" \notin sets
  PROVE  Regular(Insn(needs, sets, by))
<1>1. PICK i : i = Insn(needs, sets, by)
  OBVIOUS
<1>2. /\ i.needs = needs /\ i.sets = sets /\ i.reads = needs /\ i.writes = sets
      /\ i.by = by /\ i.maybe = {} /\ i.flow = "next" /\ i.fuse = "none"
  BY <1>1, InsnIsInsn
<1> QED
  BY <1>1, <1>2 DEF Regular, Pieces, Paired

(* A branch: its flags are no different.                                   *)
LEMMA BranchIsInsn ==
  ASSUME NEW needs, NEW sets, NEW flow
  PROVE  LET i == Branch(needs, sets, flow)
         IN  /\ IsInsn(i)
             /\ i.needs = needs /\ i.sets = sets /\ i.reads = needs /\ i.writes = sets
             /\ i.by = "all" /\ i.maybe = {} /\ i.flow = flow /\ i.fuse = "none"
<1>1. PICK i : i = Insn(needs, sets, "all")
  OBVIOUS
<1>2. PICK j : j = [i EXCEPT !.flow = flow]
  OBVIOUS
<1>3. /\ IsInsn(i) /\ i.needs = needs /\ i.sets = sets /\ i.reads = needs /\ i.writes = sets
      /\ i.by = "all" /\ i.maybe = {} /\ i.fuse = "none"
  BY <1>1, InsnIsInsn
<1>4. /\ IsInsn(j) /\ j.needs = needs /\ j.sets = sets /\ j.reads = needs /\ j.writes = sets
      /\ j.by = "all" /\ j.maybe = {} /\ j.flow = flow /\ j.fuse = "none"
  BY <1>2, <1>3 DEF IsInsn
<1>5. j = Branch(needs, sets, flow)
  BY <1>1, <1>2 DEF Branch
<1> QED
  BY <1>4, <1>5

(* Branches are regular.                                                   *)
LEMMA BranchRegular ==
  ASSUME NEW needs \in SUBSET CCR, NEW sets \in SUBSET CCR, NEW flow,
         flow \in {"follow", "split", "break"},
         "N" \in sets <=> "V" \in sets,
         Paired(needs) \/ needs = {"V"}
  PROVE  Regular(Branch(needs, sets, flow))
<1>1. PICK i : i = Branch(needs, sets, flow)
  OBVIOUS
<1>2. /\ i.needs = needs /\ i.sets = sets /\ i.reads = needs /\ i.writes = sets
      /\ i.by = "all" /\ i.maybe = {} /\ i.flow = flow /\ i.fuse = "none"
  BY <1>1, BranchIsInsn
<1> QED
  BY <1>1, <1>2 DEF Regular, Pieces, Paired

(* One that computes fewer flags than its entry says, but needs them all.  *)
LEMMA NarrowRegular ==
  ASSUME NEW i, IsInsn(i), Regular(i), NEW w \in SUBSET i.writes,
         i.sets \subseteq i.needs, i.maybe = {}, i.by = "all" \/ w = {}, i.fuse = "none",
         "V" \notin w
  PROVE  Regular([i EXCEPT !.writes = w])
<1>1. PICK j : j = [i EXCEPT !.writes = w]
  OBVIOUS
<1>2. /\ j.needs = i.needs /\ j.sets = i.sets /\ j.reads = i.reads /\ j.by = i.by
      /\ j.maybe = i.maybe /\ j.flow = i.flow /\ j.fuse = i.fuse /\ j.writes = w
  BY <1>1 DEF IsInsn
<1> QED
  BY <1>1, <1>2 DEF Regular, Pieces, Paired

(* One that looks at other flags than its entry says.                      *)
LEMMA ReaderRegular ==
  ASSUME NEW i, IsInsn(i), Regular(i), NEW r \in SUBSET CCR,
         r \cap i.sets = {}, i.flow = "break" \/ r = i.needs,
         Paired(i.needs) \/ r = i.reads,
         i.fuse = "none"
  PROVE  Regular([i EXCEPT !.reads = r])
<1>1. PICK j : j = [i EXCEPT !.reads = r]
  OBVIOUS
<1>2. /\ j.needs = i.needs /\ j.sets = i.sets /\ j.writes = i.writes /\ j.by = i.by
      /\ j.maybe = i.maybe /\ j.flow = i.flow /\ j.fuse = i.fuse /\ j.reads = r
  BY <1>1 DEF IsInsn
<1> QED
  BY <1>1, <1>2 DEF Regular, Pieces, Paired

(* One that may be translated with its neighbours.                         *)
LEMMA FusedRegular ==
  ASSUME NEW i, IsInsn(i), Regular(i), NEW f,
         i.flow = "next", i.needs = {}, i.reads = {}, i.maybe = {}, i.writes = NZVC
  PROVE  Regular([i EXCEPT !.fuse = f])
<1>1. PICK j : j = [i EXCEPT !.fuse = f]
  OBVIOUS
<1>2. /\ j.needs = i.needs /\ j.sets = i.sets /\ j.reads = i.reads /\ j.writes = i.writes
      /\ j.by = i.by /\ j.maybe = i.maybe /\ j.flow = i.flow /\ j.fuse = f
  BY <1>1 DEF IsInsn
<1> QED
  BY <1>1, <1>2 DEF Regular, Pieces, Paired

(* A shift by a register, which may leave flags it needs alone.            *)
LEMMA ShiftRegular ==
  ASSUME NEW i, IsInsn(i), Regular(i), NEW m \in SUBSET i.writes,
         m \subseteq i.needs, i.fuse = "none", Paired(i.needs)
  PROVE  Regular([i EXCEPT !.reads = {}, !.maybe = m])
<1>1. PICK j : j = [i EXCEPT !.reads = {}, !.maybe = m]
  OBVIOUS
<1>2. /\ j.needs = i.needs /\ j.sets = i.sets /\ j.writes = i.writes /\ j.by = i.by
      /\ j.flow = i.flow /\ j.fuse = i.fuse /\ j.reads = {} /\ j.maybe = m
  BY <1>1 DEF IsInsn
<1> QED
  BY <1>1, <1>2 DEF Regular, Pieces, Paired

(* The opcode tables: what an entry says the instruction overwrites, the   *)
(* code emitted overwrites, unless it needs it; what the code looks at the *)
(* entry says it needs, or else the scan ends there.                       *)
LEMMA TableRegular == \A i \in InsnTable : Regular(i)
<1>1. /\ {"X", "Z"} \in SUBSET CCR /\ {"X", "Z", "C"} \in SUBSET CCR /\ {"Z"} \in SUBSET CCR
      /\ {"X"} \in SUBSET CCR /\ {} \in SUBSET CCR /\ CCR \in SUBSET CCR
      /\ NZVC \in SUBSET CCR /\ {"N", "V"} \subseteq NZVC /\ "X" \notin NZVC
      /\ NZVC # CCR /\ {"X", "Z"} # CCR /\ {"X"} # CCR /\ {} # CCR
  BY DEF CCR, NZVC
<1>2. Regular(Insn({}, {}, "mask"))
  BY <1>1, PlainRegular DEF Paired
<1>3. Regular(Insn(CCR, {}, "mask"))
  BY <1>1, PlainRegular DEF Paired
<1>4. Regular(Insn({}, CCR, "add"))
  BY <1>1, PlainRegular DEF Paired
<1>5. Regular(Insn({}, CCR, "sub"))
  BY <1>1, PlainRegular DEF Paired
<1>6. Regular(Insn({}, NZVC, "cmp"))
  BY <1>1, PlainRegular DEF Paired
<1>7. Regular(Insn({"X", "Z"}, CCR, "mask"))
  BY <1>1, PlainRegular DEF Paired
<1>8. Regular(Insn({"X", "Z"}, {"X", "Z", "C"}, "mask"))
  BY <1>1, PlainRegular DEF Paired
<1>9. Regular(Insn({}, NZVC, "NZ00"))
  BY <1>1, PlainRegular DEF Paired
<1>10. Regular(Insn({}, NZVC, "mask"))
  BY <1>1, PlainRegular DEF Paired
<1>11. Regular(Insn({}, NZVC, "NZxx"))
  BY <1>1, PlainRegular DEF Paired
<1>12. Regular(Insn({}, {"Z"}, "mask"))
  BY <1>1, PlainRegular DEF Paired
<1>13. Regular(Insn({}, CCR, "mask"))
  BY <1>1, PlainRegular DEF Paired
<1>14. Regular(Insn({"X"}, CCR, "mask"))
  BY <1>1, PlainRegular DEF Paired
<1>15. Regular(Insn({"X"}, CCR, "ROXL"))
  BY <1>1, PlainRegular DEF Paired
<1>16. Regular(Insn({}, CCR, "all"))
  BY <1>1, PlainRegular DEF Paired
<1>17. Regular(Insn(CCR, CCR, "all"))
  BY <1>1, PlainRegular DEF Paired
<1>18. Regular(Branch(CCR, {}, "break"))
  BY <1>1, BranchRegular DEF Paired
<1>19. Regular(Branch({}, CCR, "break"))
  BY <1>1, BranchRegular DEF Paired
<1>20. Regular(Branch(CCR, CCR, "break"))
  BY <1>1, BranchRegular DEF Paired
<1>21. Regular(Branch({}, {}, "follow"))
  BY <1>1, BranchRegular DEF Paired
<1>22. Regular(Branch({}, {}, "break"))
  BY <1>1, BranchRegular DEF Paired
<1>23. Regular(Privileged)
  BY <1>1, <1>22, BranchIsInsn, ReaderRegular DEF Privileged, Paired
<1>24. Regular([Insn(CCR, CCR, "mask") EXCEPT !.writes = {}])
  <2>1. PICK i : i = Insn(CCR, CCR, "mask")
    OBVIOUS
  <2>2. PICK j : j = [i EXCEPT !.writes = {}]
    OBVIOUS
  <2>3. /\ IsInsn(i) /\ i.needs = CCR /\ i.sets = CCR /\ i.reads = CCR /\ i.by = "mask"
        /\ i.maybe = {} /\ i.flow = "next" /\ i.fuse = "none"
    BY <2>1, InsnIsInsn
  <2>4. /\ j.needs = CCR /\ j.sets = CCR /\ j.reads = CCR /\ j.by = "mask"
        /\ j.maybe = {} /\ j.flow = "next" /\ j.fuse = "none" /\ j.writes = {}
    BY <2>2, <2>3 DEF IsInsn
  <2>5. Regular(j)
    BY <1>1, <2>4 DEF Regular, Pieces, Paired
  <2> QED
    BY <2>1, <2>2, <2>5
<1>25. \A size \in {"swap", "move", "ext.w", "ext.l", "rol8"} :
          Regular([Insn({}, NZVC, "NZ00") EXCEPT !.fuse = size])
  BY <1>1, <1>9, InsnIsInsn, FusedRegular
<1>26. Regular([Insn({"X"}, CCR, "mask") EXCEPT !.reads = {}, !.maybe = {"X"}])
  <2>1. PICK i : i = Insn({"X"}, CCR, "mask")
    OBVIOUS
  <2>2. IsInsn(i) /\ {"X"} \in SUBSET i.writes /\ {"X"} \subseteq i.needs /\ i.fuse = "none"
        /\ Paired(i.needs)
    BY <1>1, <2>1, InsnIsInsn DEF Paired
  <2> QED
    BY <1>14, <2>1, <2>2, ShiftRegular
<1>27. Regular([Insn(CCR, NZVC, "all") EXCEPT !.writes = {"N", "C"}])
  <2>1. PICK i : i = Insn(CCR, NZVC, "all")
    OBVIOUS
  <2>2. Regular(i)
    BY <1>1, <2>1, PlainRegular DEF Paired
  <2>3. IsInsn(i) /\ i.sets \subseteq i.needs /\ i.maybe = {} /\ i.fuse = "none"
        /\ "V" \notin {"N", "C"} /\ (i.by = "all" \/ {"N", "C"} = {}) /\ {"N", "C"} \in SUBSET i.writes
    BY <1>1, <2>1, InsnIsInsn DEF CCR, NZVC
  <2> QED
    BY <2>1, <2>2, <2>3, NarrowRegular
<1>28. Regular([Insn(CCR, NZVC, "all") EXCEPT !.writes = {"Z", "C"}])
  <2>1. PICK i : i = Insn(CCR, NZVC, "all")
    OBVIOUS
  <2>2. Regular(i)
    BY <1>1, <2>1, PlainRegular DEF Paired
  <2>3. IsInsn(i) /\ i.sets \subseteq i.needs /\ i.maybe = {} /\ i.fuse = "none"
        /\ "V" \notin {"Z", "C"} /\ (i.by = "all" \/ {"Z", "C"} = {}) /\ {"Z", "C"} \in SUBSET i.writes
    BY <1>1, <2>1, InsnIsInsn DEF CCR, NZVC
  <2> QED
    BY <2>1, <2>2, <2>3, NarrowRegular
<1>29. \A c \in DOMAIN CC : Regular(EMIT_Scc(c))
  <2>1. TAKE c \in DOMAIN CC
  <2>2. PICK i : i = Insn(CC[c], {}, "mask")
    OBVIOUS
  <2>3. CC[c] \in SUBSET CCR /\ Regular(i)
    BY <1>1, <2>2, Conditions, PlainRegular DEF Paired
  <2>4. IsInsn(i) /\ i.sets = {} /\ i.needs = CC[c] /\ i.reads = CC[c] /\ i.fuse = "none"
    BY <2>2, InsnIsInsn
  <2>5. Regular([i EXCEPT !.reads = CC[c]])
    BY <2>3, <2>4, ReaderRegular
  <2> QED
    BY <2>2, <2>5 DEF EMIT_Scc, EMIT_TestCondition
<1>30. \A c \in DOMAIN CC : Regular(EMIT_DBcc(c)) /\ Regular(EMIT_Bcc(c))
  <2>1. TAKE c \in DOMAIN CC
  <2>2. PICK i : i = Branch(CC[c], {}, "split")
    OBVIOUS
  <2>3. CC[c] \in SUBSET CCR /\ Regular(i)
    BY <1>1, <2>2, Conditions, BranchRegular
  <2>4. IsInsn(i) /\ i.sets = {} /\ i.needs = CC[c] /\ i.reads = CC[c] /\ i.fuse = "none"
    BY <2>2, BranchIsInsn
  <2>5. Regular([i EXCEPT !.reads = CC[c]])
    BY <2>3, <2>4, ReaderRegular
  <2> QED
    BY <2>2, <2>5 DEF EMIT_DBcc, EMIT_Bcc, EMIT_JumpOnCondition
<1>31. \A i \in {EMIT_MOVEP, EMIT_MOVES, EMIT_LINK32, EMIT_LINK16, EMIT_UNLK,
                EMIT_NOP, EMIT_PEA, EMIT_LEA, EMIT_MOVEM, EMIT_PACK_reg,
                EMIT_UNPK_reg, EMIT_SUBA_reg, EMIT_ADDA_ext, EMIT_EXG,
                Undefined, GetSR_def, EMIT_TRAP, EMIT_BKPT, EMIT_ILLEGAL,
                EMIT_RESET, EMIT_MOVEC, EMIT_MOVEUSP} :
          Regular(i)
  BY <1>2, <1>3, <1>18, <1>23, <1>24 DEF FlagFree, EMIT_MOVEP, EMIT_MOVES,
     EMIT_LINK32, EMIT_LINK16, EMIT_UNLK, EMIT_NOP, EMIT_PEA, EMIT_LEA,
     EMIT_MOVEM, EMIT_PACK_reg, EMIT_UNPK_reg, EMIT_SUBA_reg, EMIT_ADDA_ext,
     EMIT_EXG, Undefined, GetSR_def, EMIT_TRAP, EMIT_BKPT, EMIT_ILLEGAL,
     EMIT_RESET, EMIT_MOVEC, EMIT_MOVEUSP
<1>32. \A i \in {EMIT_ADDI, EMIT_SUBI, EMIT_CMPI, EMIT_CAS, EMIT_NEG,
                EMIT_ADDQ, EMIT_SUBQ, EMIT_SUB_reg, EMIT_CMPA_ext, EMIT_CMPM,
                EMIT_CMP_ext, EMIT_ADD_ext, EMIT_NEGX, EMIT_SUBX_reg,
                EMIT_ADDX_mem, EMIT_NBCD, EMIT_SBCD_reg, EMIT_SBCD_mem,
                EMIT_ABCD_reg, EMIT_ABCD_mem} :
          Regular(i)
  BY <1>4, <1>5, <1>6, <1>7, <1>8 DEF EMIT_ADDI, EMIT_SUBI, EMIT_CMPI,
     EMIT_CAS, EMIT_NEG, EMIT_ADDQ, EMIT_SUBQ, EMIT_SUB_reg, EMIT_CMPA_ext,
     EMIT_CMPM, EMIT_CMP_ext, EMIT_ADD_ext, EMIT_NEGX, EMIT_SUBX_reg,
     EMIT_ADDX_mem, EMIT_NBCD, EMIT_SBCD_reg, EMIT_SBCD_mem, EMIT_ABCD_reg,
     EMIT_ABCD_mem
<1>33. \A i \in {EMIT_ORI, EMIT_ANDI, EMIT_EORI, EMIT_NOT, EMIT_TST, EMIT_TAS,
                EMIT_SWAP, EMIT_EXT("ext.w"), EMIT_EXT("ext.l"), EMIT_OR_reg,
                EMIT_EOR_ext, EMIT_AND_ext, EMIT_move, EMIT_moveq, EMIT_CLR,
                EMIT_MULS_W, EMIT_MULU_W, EMIT_MULS_L} :
          Regular(i)
  BY <1>9, <1>10, <1>25 DEF EMIT_ORI, EMIT_ANDI, EMIT_EORI, EMIT_NOT,
     EMIT_TST, EMIT_TAS, EMIT_SWAP, EMIT_EXT, EMIT_OR_reg, EMIT_EOR_ext,
     EMIT_AND_ext, EMIT_move, EMIT_moveq, EMIT_CLR, EMIT_MULS_W, EMIT_MULU_W,
     EMIT_MULS_L
<1>34. \A i \in {EMIT_DIVS_W, EMIT_DIVU_W, EMIT_DIVUS_L, EMIT_BTST, EMIT_BCHG,
                EMIT_BCLR, EMIT_BSET, EMIT_BFxxx_II, EMIT_BFxxx_IR,
                EMIT_BFxxx_RI, EMIT_BFxxx_RR, EMIT_BFTST_reg, EMIT_BFEXTU_reg,
                EMIT_BFEXTS_reg, EMIT_BFFFO_reg, EMIT_BFCHG_reg,
                EMIT_BFSET_reg, EMIT_BFCLR_reg, EMIT_BFINS_reg} :
          Regular(i)
  BY <1>9, <1>11, <1>12 DEF EMIT_DIVS_W, EMIT_DIVU_W, EMIT_DIVUS_L, EMIT_BTST,
     EMIT_BCHG, EMIT_BCLR, EMIT_BSET, EMIT_BFxxx_II, EMIT_BFxxx_IR,
     EMIT_BFxxx_RI, EMIT_BFxxx_RR, EMIT_BFTST_reg, EMIT_BFEXTU_reg,
     EMIT_BFEXTS_reg, EMIT_BFFFO_reg, EMIT_BFCHG_reg, EMIT_BFSET_reg,
     EMIT_BFCLR_reg, EMIT_BFINS_reg
<1>35. \A i \in {EMIT_ASL_mem, EMIT_LSL_mem, EMIT_ASL, EMIT_LSL, EMIT_ASL_reg,
                EMIT_LSL_reg, EMIT_ROL_mem, EMIT_ROL, EMIT_ROL8,
                EMIT_ROXL_mem, EMIT_ROXL} :
          Regular(i)
  BY <1>9, <1>10, <1>13, <1>14, <1>15, <1>25, <1>26 DEF EMIT_ASL_mem,
     EMIT_LSL_mem, EMIT_ASL, EMIT_LSL, EMIT_ASL_reg, EMIT_LSL_reg,
     EMIT_ROL_mem, EMIT_ROL, EMIT_ROL8, EMIT_ROXL_mem, EMIT_ROXL
<1>36. \A i \in {EMIT_MOVEfromSR, EMIT_MOVEfromCCR, EMIT_MOVEtoCCR,
                EMIT_MOVEtoSR, EMIT_STOP, EMIT_RTE, EMIT_RTR, EMIT_ORI_TO_CCR,
                EMIT_ANDI_TO_CCR, EMIT_EORI_TO_CCR, EMIT_ORI_TO_SR,
                EMIT_ANDI_TO_SR, EMIT_EORI_TO_SR, EMIT_CHK, EMIT_CMP2,
                EMIT_TRAPcc, EMIT_TRAPV, EMIT_BRA, EMIT_BSR, EMIT_JMP,
                EMIT_JSR, EMIT_RTS, EMIT_RTD} :
          Regular(i)
  BY <1>3, <1>16, <1>17, <1>18, <1>19, <1>20, <1>21, <1>22, <1>27, <1>28 DEF
     EMIT_MOVEfromSR, EMIT_MOVEfromCCR, EMIT_MOVEtoCCR, EMIT_MOVEtoSR,
     EMIT_STOP, EMIT_RTE, EMIT_RTR, EMIT_ORI_TO_CCR, EMIT_ANDI_TO_CCR,
     EMIT_EORI_TO_CCR, EMIT_ORI_TO_SR, EMIT_ANDI_TO_SR, EMIT_EORI_TO_SR,
     EMIT_CHK, EMIT_CMP2, EMIT_TRAPcc, EMIT_TRAPV, EMIT_BRA, EMIT_BSR,
     EMIT_JMP, EMIT_JSR, EMIT_RTS, EMIT_RTD
<1> QED
  BY <1>29, <1>30, <1>31, <1>32, <1>33, <1>34, <1>35, <1>36 DEF InsnTable

-----------------------------------------------------------------------------
(***************************************************************************)
(* The scan is a recursion over the depth that is left.  There is no       *)
(* induction to cite here: what stands for it is the least counterexample. *)
(***************************************************************************)
LEMMA HasSmallest ==
  ASSUME NEW S \in SUBSET Nat, S # {}
  PROVE  \E m \in S : \A k \in S : m <= k
<1> DEFINE R == OpToRel(<, Nat)
<1>1. IsWellFoundedOn(R, Nat)
  BY NatLessThanWellFounded
<1>2. PICK m \in S : \A y \in S : ~(<<y, m>> \in R)
  BY <1>1, WFMin
<1>3. \A k \in S : ~(k < m)
  BY <1>2 DEF OpToRel
<1> QED
  BY <1>3

(* f is the recursion with start v and steps F as far as n.                *)
Unfolds(X, v, F, n, f) ==
    /\ f \in [0 .. n -> X] /\ f[0] = v
    /\ \A k \in 0 .. n - 1 : f[k + 1] = F[k][f[k]]

(* Two beginnings of a recursion agree where both are.                     *)
LEMMA UnfoldsAgree ==
  ASSUME NEW X, NEW v, NEW F, NEW m \in Nat, NEW n \in Nat, NEW f, NEW g,
         Unfolds(X, v, F, m, f), Unfolds(X, v, F, n, g), NEW j \in 0 .. m, j <= n
  PROVE  f[j] = g[j]
<1> DEFINE Differ == {k \in Nat : k <= m /\ k <= n /\ f[k] # g[k]}
<1> SUFFICES ASSUME Differ # {} PROVE FALSE
  OBVIOUS
<1>1. PICK k \in Differ : \A i \in Differ : k <= i
  BY HasSmallest
<1>2. k \in Nat /\ k <= m /\ k <= n /\ f[k] # g[k] /\ k # 0
  BY <1>1 DEF Unfolds
<1>3. PICK i : i = k - 1
  OBVIOUS
<1>4. i \in Nat /\ k = i + 1 /\ i \in 0 .. m - 1 /\ i \in 0 .. n - 1 /\ i < k
  BY <1>2, <1>3
<1>5. f[i] = g[i]
  BY <1>1, <1>2, <1>4
<1> QED
  BY <1>2, <1>4, <1>5 DEF Unfolds

(* A recursion can be begun as far as one likes.                           *)
LEMMA UnfoldsAll ==
  ASSUME NEW X, NEW v \in X, NEW F \in [Nat -> [X -> X]], NEW n \in Nat
  PROVE  \E f : Unfolds(X, v, F, n, f)
<1> DEFINE None == {k \in Nat : \A f : ~Unfolds(X, v, F, k, f)}
<1> SUFFICES ASSUME None # {} PROVE FALSE
  OBVIOUS
<1>1. PICK k \in None : \A i \in None : k <= i
  BY HasSmallest
<1>2. k # 0
  <2>1. Unfolds(X, v, F, 0, [i \in 0 .. 0 |-> v])
    BY DEF Unfolds
  <2> QED
    BY <1>1, <2>1
<1>3. PICK i \in Nat : k = i + 1
  <2>1. k - 1 \in Nat /\ k = (k - 1) + 1
    BY <1>2
  <2> QED
    BY <2>1
<1>4. PICK g : Unfolds(X, v, F, i, g)
  <2>1. i \notin None
    BY <1>1, <1>3
  <2> QED
    BY <2>1
<1>5. PICK h : h = [j \in 0 .. k |-> IF j = k THEN F[i][g[i]] ELSE g[j]]
  OBVIOUS
<1>6. g[i] \in X /\ F[i] \in [X -> X] /\ F[i][g[i]] \in X
  BY <1>4 DEF Unfolds
<1>7. \A j \in 0 .. i : h[j] = g[j] /\ g[j] \in X
  BY <1>3, <1>4, <1>5 DEF Unfolds
<1>8. h[k] = F[i][g[i]]
  BY <1>3, <1>5
<1>9. h \in [0 .. k -> X]
  <2>1. \A j \in 0 .. k : j = k \/ j \in 0 .. i
    BY <1>3
  <2>2. \A j \in 0 .. k : h[j] \in X
    BY <1>6, <1>7, <1>8, <2>1
  <2> QED
    BY <1>5, <2>2
<1>10. h[0] = v
  BY <1>4, <1>7 DEF Unfolds
<1>11. ASSUME NEW j \in 0 .. k - 1 PROVE h[j + 1] = F[j][h[j]]
  <2>1. CASE j = i
    BY <1>3, <1>7, <1>8, <2>1
  <2>2. CASE j # i
    <3>1. j \in 0 .. i - 1 /\ j \in 0 .. i /\ j + 1 \in 0 .. i
      BY <1>3, <2>2
    <3> QED
      BY <1>4, <1>7, <3>1 DEF Unfolds
  <2> QED BY <2>1, <2>2
<1>12. Unfolds(X, v, F, k, h)
  BY <1>9, <1>10, <1>11 DEF Unfolds
<1> QED
  BY <1>1, <1>12

(* A function starts at v and takes the steps F.                           *)
Recursive(X, v, F) ==
    \E f \in [Nat -> X] : f[0] = v /\ \A n \in Nat : f[n + 1] = F[n][f[n]]

(* A recursion over Nat has a solution.                                    *)
LEMMA Recursion ==
  ASSUME NEW X, NEW v \in X, NEW F \in [Nat -> [X -> X]]
  PROVE  Recursive(X, v, F)
<1> DEFINE Upto(n) == CHOOSE f : Unfolds(X, v, F, n, f)
<1>1. \A n \in Nat : Unfolds(X, v, F, n, Upto(n))
  BY UnfoldsAll
<1> HIDE DEF Upto
<1>2. PICK h : h = [n \in Nat |-> Upto(n)[n]]
  OBVIOUS
<1>3. h \in [Nat -> X]
  <2>1. \A n \in Nat : Upto(n)[n] \in X
    BY <1>1 DEF Unfolds
  <2> QED
    BY <1>2, <2>1
<1>4. h[0] = v
  BY <1>1, <1>2 DEF Unfolds
<1>5. ASSUME NEW n \in Nat PROVE h[n + 1] = F[n][h[n]]
  <2>1. n + 1 \in Nat /\ n \in 0 .. n /\ n <= n + 1 /\ n \in 0 .. (n + 1) - 1
    OBVIOUS
  <2>2. Upto(n)[n] = Upto(n + 1)[n]
    BY <1>1, <2>1, UnfoldsAgree
  <2>3. Upto(n + 1)[n + 1] = F[n][Upto(n + 1)[n]]
    BY <1>1, <2>1 DEF Unfolds
  <2> QED
    BY <1>2, <2>1, <2>2, <2>3
<1> QED
  BY <1>3, <1>4, <1>5 DEF Recursive

-----------------------------------------------------------------------------
(***************************************************************************)
(* Dead flags.  A flag is idle in a set of addresses if nothing there      *)
(* looks at it and every way on overwrites it or stays in the set; it is   *)
(* dead wherever it is idle in some set.                                   *)
(***************************************************************************)
Idle(f, S) ==
    \A b \in S :
        /\ f \notin prog[b].insn.reads
        /\ \/ f \in prog[b].insn.writes \ prog[b].insn.maybe
           \/ Successors(b) \subseteq S

Dead(f) == UNION {S \in SUBSET Addresses : Idle(f, S)}

(* The program is as Init chose it.                                        *)
Program == prog \in [Addresses -> [insn : Insns, target : Addresses]]

(* The constants.                                                          *)
LEMMA Modulus == Length \in Nat \ {0} /\ Depths \subseteq Nat /\ Insns \subseteq InsnTable
  BY FlagScanAssumption DEF FlagScanAssumption

(* The program is a ring.                                                  *)
LEMMA AfterIn == ASSUME NEW a \in Addresses PROVE After(a) \in Addresses
<1>1. a \in Nat /\ a % Length \in 0 .. Length - 1
  BY Modulus, SMT DEF Addresses
<1> QED
  BY <1>1, Modulus, SMT DEF Addresses, After

(* An instruction of the program.                                          *)
LEMMA InsnAt ==
  ASSUME Program, NEW a \in Addresses
  PROVE  /\ prog[a].insn \in Insns /\ Regular(prog[a].insn) /\ prog[a].target \in Addresses
         /\ After(a) \in Addresses /\ Successors(a) \subseteq Addresses
<1>1. prog[a].insn \in Insns /\ prog[a].target \in Addresses
  BY DEF Program
<1>2. Regular(prog[a].insn)
  BY <1>1, Modulus, TableRegular
<1>3. prog[a].insn.flow \in {"next", "follow", "split", "break"}
  BY <1>2 DEF Regular
<1> QED
  BY <1>1, <1>2, <1>3, AfterIn DEF Successors

(* Flags are dead where they are idle, and there is no more to being dead. *)
LEMMA DeadMeans ==
  ASSUME NEW f, NEW b \in Dead(f)
  PROVE  /\ b \in Addresses /\ f \notin prog[b].insn.reads
         /\ \/ f \in prog[b].insn.writes \ prog[b].insn.maybe
            \/ Successors(b) \subseteq Dead(f)
  BY DEF Dead, Idle

(* A flag is dead here that is overwritten here or dead further on.        *)
LEMMA DeadGrows ==
  ASSUME Program, NEW f, NEW b \in Addresses, f \notin prog[b].insn.reads,
         f \in prog[b].insn.writes \ prog[b].insn.maybe \/ Successors(b) \subseteq Dead(f)
  PROVE  b \in Dead(f)
<1>1. PICK S : S = Dead(f) \cup {b}
  OBVIOUS
<1>2. S \subseteq Addresses
  BY <1>1, DeadMeans
<1>3. Idle(f, S)
  BY <1>1, DeadMeans DEF Idle
<1>4. S \in {R \in SUBSET Addresses : Idle(f, R)}
  BY <1>2, <1>3
<1> QED
  BY <1>1, <1>4 DEF Dead

(* What is dead depends on the program only.                               *)
LEMMA DeadSame ==
  ASSUME prog' = prog
  PROVE  \A f : Dead(f)' = Dead(f)
<1>1. \A b : Successors(b)' = Successors(b)
  BY DEF Successors, After
<1>2. \A f, S : Idle(f, S)' <=> Idle(f, S)
  BY <1>1 DEF Idle
<1> QED
  BY <1>2 DEF Dead

-----------------------------------------------------------------------------
(***************************************************************************)
(* The scan.                                                               *)
(***************************************************************************)
LEMMA ScanParts ==
  ASSUME NEW q \in Scanning
  PROVE  q.at \in Addresses /\ q.mask \subseteq CCR /\ q.needed \subseteq CCR
  BY DEF Scanning

(* A look at an instruction.                                               *)
LEMMA LookParts ==
  ASSUME Program, NEW q \in Scanning, NEW b \in Addresses, NEW r, r = Look(q, b)
  PROVE  /\ r \in Scanning /\ r.at = b /\ r.mask = q.mask \ prog[b].insn.sets
         /\ r.needed = q.needed \cup (q.mask \cap prog[b].insn.needs)
<1>1. prog[b].insn.needs \subseteq CCR
  BY InsnAt DEF Regular
<1> QED
  BY <1>1 DEF Look, Scanning

(* One path of two.                                                        *)
LEMMA ForkParts ==
  ASSUME Program, NEW q \in Scanning, NEW b \in Addresses, NEW r, r = Fork(q, b)
  PROVE  /\ r \in Scanning /\ r.at = b /\ r.mask = q.mask
         /\ r.needed = q.needed \cup (q.mask \cap prog[q.at].insn.needs)
<1>1. prog[q.at].insn.needs \subseteq CCR
  BY InsnAt, ScanParts DEF Regular
<1> QED
  BY <1>1 DEF Fork, Scanning

(* On to the next instruction.                                             *)
LEMMA MoveParts ==
  ASSUME NEW q \in Scanning, NEW b \in Addresses, NEW r, r = MoveTo(q, b)
  PROVE  r \in Scanning /\ r.at = b /\ r.mask = q.mask /\ r.needed = q.needed
  BY DEF MoveTo, Scanning

Results == [Scanning -> SUBSET CCR]

(* A result is a set of flags.                                             *)
LEMMA ResultIn == ASSUME NEW q \in Scanning PROVE Result(q) \in SUBSET CCR
  BY ScanParts DEF Result

(* A recursion of scans has a solution.                                    *)
LEMMA ScansUnfold ==
  ASSUME NEW F \in [Nat -> [Results -> Results]]
  PROVE  \E f \in [Nat -> Results] :
             /\ f[0] = [q \in Scanning |-> Result(q)]
             /\ \A n \in Nat : f[n + 1] = F[n][f[n]]
<1> DEFINE v == [q \in Scanning |-> Result(q)]
<1>1. v \in Results
  BY ResultIn DEF Results
<1> HIDE DEF v
<1>2. Recursive(Results, v, F)
  BY <1>1, Recursion
<1> QED
  BY <1>2 DEF Recursive, v

(* The solution is of one kind from its start on.                          *)
LEMMA ScansStay ==
  ASSUME NEW f, f[0] \in Results, \A n \in Nat : f[n] \in Results => f[n + 1] \in Results
  PROVE  \A n \in Nat : f[n] \in Results
<1> DEFINE Out == {n \in Nat : f[n] \notin Results}
<1> SUFFICES ASSUME Out # {} PROVE FALSE
  OBVIOUS
<1>1. PICK k \in Out : \A i \in Out : k <= i
  BY HasSmallest
<1>2. k - 1 \in Nat /\ k = (k - 1) + 1 /\ k - 1 < k
  BY <1>1
<1>3. f[k - 1] \in Results
  BY <1>1, <1>2
<1> QED
  BY <1>1, <1>2, <1>3

(* A step on a path, with g as the rest of the scan.                       *)
OnPath(g, q) ==
    LET r == Look(q, q.at)
    IN  IF q.mask = {} \/ IsBranch(q.at) THEN Result(q)
        ELSE IF Settled(r) THEN Result(r) ELSE g[MoveTo(r, After(q.at))]

(* A step on a path yields flags.                                          *)
LEMMA OnPathIn ==
  ASSUME Program, NEW g \in Results, NEW q \in Scanning
  PROVE  OnPath(g, q) \in SUBSET CCR
<1>1. PICK r : r = Look(q, q.at)
  OBVIOUS
<1>2. PICK s : s = MoveTo(r, After(q.at))
  OBVIOUS
<1>3. r \in Scanning
  BY <1>1, ScanParts, LookParts
<1>4. s \in Scanning
  BY <1>2, <1>3, ScanParts, AfterIn, MoveParts
<1>5. g[s] \in SUBSET CCR
  BY <1>4 DEF Results
<1> QED
  BY <1>1, <1>2, <1>3, <1>5, ResultIn DEF OnPath

(* What the definition of Path says of a depth and the next.               *)
LEMMA PathUnfolds ==
  ASSUME Program
  PROVE  /\ \A n \in Nat : Path[n] \in Results
         /\ Path[0] = [q \in Scanning |-> Result(q)]
         /\ \A n \in Nat : Path[n + 1] = [q \in Scanning |-> OnPath(Path[n], q)]
<1> DEFINE Body(f) ==
        [left \in Nat |->
            [q \in Scanning |->
                IF q.mask = {} \/ left = 0 \/ IsBranch(q.at) THEN Result(q)
                ELSE LET r == Look(q, q.at)
                     IN  IF Settled(r) THEN Result(r)
                         ELSE f[left - 1][MoveTo(r, After(q.at))]]]
      F == [n \in Nat |-> [g \in Results |-> [q \in Scanning |-> OnPath(g, q)]]]
<1>1. \A g \in Results : [q \in Scanning |-> OnPath(g, q)] \in Results
  BY OnPathIn DEF Results
<1>2. F \in [Nat -> [Results -> Results]]
  BY <1>1
<1>3. PICK f \in [Nat -> Results] :
          /\ f[0] = [q \in Scanning |-> Result(q)]
          /\ \A n \in Nat : f[n + 1] = F[n][f[n]]
  BY <1>2, ScansUnfold
<1>4. \A g : Body(g)[0] = [q \in Scanning |-> Result(q)]
  OBVIOUS
<1>5. ASSUME NEW g, NEW n \in Nat
      PROVE  Body(g)[n + 1] = [q \in Scanning |-> OnPath(g[n], q)]
  <2>1. n + 1 \in Nat /\ n + 1 # 0 /\ (n + 1) - 1 = n
    OBVIOUS
  <2> QED
    BY <2>1 DEF OnPath
<1>6. f = Body(f)
  <2>1. \A n \in Nat : f[n + 1] = [q \in Scanning |-> OnPath(f[n], q)]
    BY <1>3
  <2>2. ASSUME NEW m \in Nat PROVE f[m] = Body(f)[m]
    <3>1. CASE m = 0
      BY <1>3, <1>4, <3>1
    <3>2. CASE m # 0
      <4>1. PICK n \in Nat : m = n + 1
        BY <3>2, m - 1 \in Nat, m = (m - 1) + 1
      <4> HIDE DEF Body
      <4> QED
        BY <1>5, <2>1, <4>1
    <3> QED BY <3>1, <3>2
  <2> QED
    BY <1>3, <2>2
<1>7. Path = Body(Path)
  BY <1>6 DEF Path
<1> HIDE DEF Body
<1>8. Path[0] = [q \in Scanning |-> Result(q)]
  BY <1>4, <1>7
<1>9. \A n \in Nat : Path[n + 1] = [q \in Scanning |-> OnPath(Path[n], q)]
  BY <1>5, <1>7
<1>10. Path[0] \in Results
  BY <1>8, ResultIn DEF Results
<1>11. \A n \in Nat : Path[n] \in Results => Path[n + 1] \in Results
  BY <1>1, <1>9
<1> QED
  BY <1>8, <1>9, <1>10, <1>11, ScansStay

(* A step of the scan itself, with p and g as the rest of it.              *)
Went(g, q, b) ==
    LET r == Look(q, b) IN IF Settled(r) THEN Result(r) ELSE g[r]

OnScan(p, g, q) ==
    IF q.mask = {} THEN Result(q)
    ELSE CASE prog[q.at].insn.flow = "break"  -> Result(q)
           [] prog[q.at].insn.flow = "next"   -> Went(g, q, After(q.at))
           [] prog[q.at].insn.flow = "follow" -> Went(g, q, prog[q.at].target)
           [] prog[q.at].insn.flow = "split"  ->
                  p[Fork(q, prog[q.at].target)] \cup p[Fork(q, After(q.at))]

(* A step of the scan yields flags.                                        *)
LEMMA OnScanIn ==
  ASSUME Program, NEW p \in Results, NEW g \in Results, NEW q \in Scanning
  PROVE  OnScan(p, g, q) \in SUBSET CCR
<1>1. /\ q.at \in Addresses /\ After(q.at) \in Addresses
      /\ prog[q.at].insn.flow \in {"next", "follow", "split", "break"}
      /\ prog[q.at].target \in Addresses
  BY ScanParts, InsnAt DEF Regular
<1>2. ASSUME NEW b \in Addresses PROVE Went(g, q, b) \in SUBSET CCR
  <2>1. PICK r : r = Look(q, b)
    OBVIOUS
  <2>2. r \in Scanning /\ g[r] \in SUBSET CCR
    BY <2>1, LookParts DEF Results
  <2> QED
    BY <2>1, <2>2, ResultIn DEF Went
<1>3. ASSUME NEW b \in Addresses PROVE p[Fork(q, b)] \in SUBSET CCR
  <2>1. Fork(q, b) \in Scanning
    BY ForkParts
  <2> QED
    BY <2>1 DEF Results
<1> QED
  BY <1>1, <1>2, <1>3, ResultIn DEF OnScan

(* What the definition of Scan says of a depth and the next.               *)
LEMMA ScanUnfolds ==
  ASSUME Program
  PROVE  /\ \A n \in Nat : Scan[n] \in Results
         /\ Scan[0] = [q \in Scanning |-> Result(q)]
         /\ \A n \in Nat : Scan[n + 1] = [q \in Scanning |-> OnScan(Path[n], Scan[n], q)]
<1> DEFINE Step(f, left, q) ==
        LET flow    == prog[q.at].insn.flow
            Goto(b) == LET r == Look(q, b)
                       IN  IF Settled(r) THEN Result(r) ELSE f[left - 1][r]
            Go(b)   == Path[left - 1][Fork(q, b)]
        IN  IF q.mask = {} \/ left = 0 THEN Result(q)
            ELSE CASE flow = "break"  -> Result(q)
                   [] flow = "next"   -> Goto(After(q.at))
                   [] flow = "follow" -> Goto(prog[q.at].target)
                   [] flow = "split"  -> Go(prog[q.at].target) \cup Go(After(q.at))
      Body(f) == [left \in Nat |-> [q \in Scanning |-> Step(f, left, q)]]
      F == [n \in Nat |-> [g \in Results |-> [q \in Scanning |-> OnScan(Path[n], g, q)]]]
<1>1. \A n \in Nat : \A g \in Results :
          [q \in Scanning |-> OnScan(Path[n], g, q)] \in Results
  <2>1. ASSUME NEW n \in Nat, NEW g \in Results, NEW q \in Scanning
        PROVE  OnScan(Path[n], g, q) \in SUBSET CCR
    BY PathUnfolds, OnScanIn
  <2> QED
    BY <2>1 DEF Results
<1>2. F \in [Nat -> [Results -> Results]]
  BY <1>1
<1>3. PICK f \in [Nat -> Results] :
          /\ f[0] = [q \in Scanning |-> Result(q)]
          /\ \A n \in Nat : f[n + 1] = F[n][f[n]]
  BY <1>2, ScansUnfold
<1>4. \A g : Body(g)[0] = [q \in Scanning |-> Result(q)]
  OBVIOUS
<1>5. ASSUME NEW g, NEW n \in Nat
      PROVE  Body(g)[n + 1] = [q \in Scanning |-> OnScan(Path[n], g[n], q)]
  <2>1. n + 1 \in Nat /\ n + 1 # 0 /\ (n + 1) - 1 = n
    OBVIOUS
  <2>2. ASSUME NEW q \in Scanning
        PROVE  Step(g, n + 1, q) = OnScan(Path[n], g[n], q)
    <3>1. prog[q.at].insn.flow \in {"next", "follow", "split", "break"}
      BY ScanParts, InsnAt DEF Regular
    <3> QED
      BY <2>1, <3>1 DEF OnScan, Went
  <2> HIDE DEF Step
  <2> QED
    BY <2>1, <2>2
<1>6. f = Body(f)
  <2>1. \A n \in Nat : f[n + 1] = [q \in Scanning |-> OnScan(Path[n], f[n], q)]
    BY <1>3
  <2>2. ASSUME NEW m \in Nat PROVE f[m] = Body(f)[m]
    <3>1. CASE m = 0
      BY <1>3, <1>4, <3>1
    <3>2. CASE m # 0
      <4>1. PICK n \in Nat : m = n + 1
        BY <3>2, m - 1 \in Nat, m = (m - 1) + 1
      <4> HIDE DEF Step, Body
      <4> QED
        BY <1>5, <2>1, <4>1
    <3> QED BY <3>1, <3>2
  <2> QED
    BY <1>3, <2>2
<1>7. Scan = Body(Scan)
  BY <1>6 DEF Scan
<1> HIDE DEF Step, Body
<1>8. Scan[0] = [q \in Scanning |-> Result(q)]
  BY <1>4, <1>7
<1>9. \A n \in Nat : Scan[n + 1] = [q \in Scanning |-> OnScan(Path[n], Scan[n], q)]
  BY <1>5, <1>7
<1>10. Scan[0] \in Results
  BY <1>8, ResultIn DEF Results
<1>11. \A n \in Nat : Scan[n] \in Results => Scan[n + 1] \in Results
  BY <1>1, <1>9
<1> QED
  BY <1>8, <1>9, <1>10, <1>11, ScansStay

-----------------------------------------------------------------------------
(***************************************************************************)
(* What a scan finds.  Its result holds what was needed before; it holds N *)
(* if it holds V; and a flag it has dropped is dead where the scan went    *)
(* on.                                                                     *)
(***************************************************************************)

(* No condition looks at V alone: EMIT_GetNZ00 computes nothing for V and  *)
(* C without N and Z.                                                      *)
NoConditionOnV == \A i \in Insns : i.reads # {"V"}

Keeps(q, s) ==
    /\ q.needed \subseteq s
    /\ NoConditionOnV /\ Paired(q.mask) /\ Paired(q.needed) => Paired(s)

(* A flag is dead wherever the scan may go on from a.                      *)
Onward(a, f) ==
    \/ prog[a].insn.flow = "next" /\ After(a) \in Dead(f)
    \/ prog[a].insn.flow \in {"follow", "split"} /\ Successors(a) \subseteq Dead(f)

(* A scan that ends keeps all it has.                                      *)
LEMMA ResultKeeps ==
  ASSUME NEW q, NEW s, s = Result(q)
  PROVE  Keeps(q, s) /\ q.mask \subseteq s
  BY DEF Result, Keeps, Paired

(* To look at an instruction parts V from N nowhere.                       *)
LEMMA LookKeeps ==
  ASSUME Program, NEW q \in Scanning, NEW b \in Addresses, NEW r, r = Look(q, b),
         NEW s, Keeps(r, s)
  PROVE  Keeps(q, s)
<1>1. /\ r.mask = q.mask \ prog[b].insn.sets
      /\ r.needed = q.needed \cup (q.mask \cap prog[b].insn.needs)
  BY LookParts
<1>2. /\ "N" \in prog[b].insn.sets <=> "V" \in prog[b].insn.sets
      /\ Paired(prog[b].insn.needs) \/ prog[b].insn.reads = {"V"}
      /\ prog[b].insn \in Insns
  BY InsnAt DEF Regular
<1> QED
  BY <1>1, <1>2 DEF Keeps, Paired, NoConditionOnV

(* Nor does a fork.                                                        *)
LEMMA ForkKeeps ==
  ASSUME Program, NEW q \in Scanning, NEW b \in Addresses, NEW r, r = Fork(q, b),
         NEW s, Keeps(r, s)
  PROVE  Keeps(q, s)
<1>1. r.mask = q.mask /\ r.needed = q.needed \cup (q.mask \cap prog[q.at].insn.needs)
  BY ForkParts
<1>2. /\ Paired(prog[q.at].insn.needs) \/ prog[q.at].insn.reads = {"V"}
      /\ prog[q.at].insn \in Insns
  BY ScanParts, InsnAt DEF Regular
<1> QED
  BY <1>1, <1>2 DEF Keeps, Paired, NoConditionOnV

(* A flag that the instruction looked at does not need is dead there if    *)
(* the instruction overwrites it or if it is dead further on.              *)
LEMMA LookedDead ==
  ASSUME Program, NEW b \in Addresses, NEW f \in CCR, f \notin prog[b].insn.needs,
         f \in prog[b].insn.sets \/ Onward(b, f)
  PROVE  b \in Dead(f)
<1>1. Regular(prog[b].insn)
  BY InsnAt
<1>2. CASE f \in prog[b].insn.sets
  <2>1. f \in (prog[b].insn.writes \ prog[b].insn.maybe) \ prog[b].insn.reads
    BY <1>1, <1>2 DEF Regular
  <2> QED
    BY <2>1, DeadGrows
<1>3. CASE Onward(b, f)
  <2>1. prog[b].insn.flow # "break" /\ prog[b].insn.needs # CCR
    BY <1>3 DEF Onward
  <2>2. f \notin prog[b].insn.reads
    BY <1>1, <2>1 DEF Regular
  <2>3. Successors(b) \subseteq Dead(f)
    BY <1>3, <2>1 DEF Onward, Successors
  <2> QED
    BY <2>2, <2>3, DeadGrows
<1> QED
  BY <1>2, <1>3

(* A flag that the result after a look leaves out.                         *)
LEMMA DroppedDead ==
  ASSUME Program, NEW q \in Scanning, NEW b \in Addresses, NEW r, r = Look(q, b),
         NEW s, r.needed \subseteq s,
         \A f \in r.mask \ s : Onward(b, f)
  PROVE  \A f \in q.mask \ s : b \in Dead(f)
<1>1. /\ r.mask = q.mask \ prog[b].insn.sets
      /\ r.needed = q.needed \cup (q.mask \cap prog[b].insn.needs)
  BY LookParts
<1>2. ASSUME NEW f \in q.mask \ s PROVE b \in Dead(f)
  <2>1. f \in CCR /\ f \notin prog[b].insn.needs
    BY <1>1, ScanParts
  <2>2. f \in prog[b].insn.sets \/ Onward(b, f)
    BY <1>1
  <2> QED
    BY <2>1, <2>2, LookedDead
<1> QED
  BY <1>2

PathFinds(q, s) == Keeps(q, s) /\ \A f \in q.mask \ s : q.at \in Dead(f)

ScanFinds(q, s) == Keeps(q, s) /\ \A f \in q.mask \ s : Onward(q.at, f)

(* A step on a path, if what follows finds dead what it drops.             *)
LEMMA OnPathFinds ==
  ASSUME Program, NEW g \in Results, \A r \in Scanning : PathFinds(r, g[r]),
         NEW q \in Scanning
  PROVE  PathFinds(q, OnPath(g, q))
<1>1. PICK r, s, u : r = Look(q, q.at) /\ s = MoveTo(r, After(q.at)) /\ u = OnPath(g, q)
  OBVIOUS
<1>2. q.at \in Addresses /\ After(q.at) \in Addresses
  BY ScanParts, AfterIn
<1>3. r \in Scanning /\ r.at = q.at
  BY <1>1, <1>2, LookParts
<1>4. s \in Scanning /\ s.at = After(q.at) /\ s.mask = r.mask /\ s.needed = r.needed
  BY <1>1, <1>2, <1>3, MoveParts
<1>5. CASE q.mask = {} \/ IsBranch(q.at)
  <2>1. u = Result(q)
    BY <1>1, <1>5 DEF OnPath
  <2> QED
    BY <1>1, <2>1, ResultKeeps DEF PathFinds
<1>6. CASE ~(q.mask = {} \/ IsBranch(q.at)) /\ Settled(r)
  <2>1. u = Result(r)
    BY <1>1, <1>6 DEF OnPath
  <2>2. Keeps(r, u) /\ r.mask \subseteq u
    BY <2>1, ResultKeeps
  <2>3. Keeps(q, u)
    BY <1>1, <1>2, <2>2, LookKeeps
  <2>4. \A f \in q.mask \ u : q.at \in Dead(f)
    BY <1>1, <1>2, <2>2, DroppedDead DEF Keeps
  <2> QED
    BY <1>1, <2>3, <2>4 DEF PathFinds
<1>7. CASE ~(q.mask = {} \/ IsBranch(q.at)) /\ ~Settled(r)
  <2>1. u = g[s]
    BY <1>1, <1>7 DEF OnPath
  <2>2. Keeps(s, u) /\ \A f \in s.mask \ u : After(q.at) \in Dead(f)
    BY <1>4, <2>1 DEF PathFinds
  <2>3. Keeps(r, u)
    BY <1>4, <2>2 DEF Keeps
  <2>4. prog[q.at].insn.flow = "next"
    BY <1>7 DEF IsBranch
  <2>5. \A f \in r.mask \ u : Onward(q.at, f)
    BY <1>4, <2>2, <2>4 DEF Onward
  <2>6. Keeps(q, u)
    BY <1>1, <1>2, <2>3, LookKeeps
  <2>7. \A f \in q.mask \ u : q.at \in Dead(f)
    BY <1>1, <1>2, <2>3, <2>5, DroppedDead DEF Keeps
  <2> QED
    BY <1>1, <2>6, <2>7 DEF PathFinds
<1> QED
  BY <1>5, <1>6, <1>7

(* Paths of every depth.                                                   *)
LEMMA PathAlways ==
  ASSUME Program
  PROVE  \A n \in Nat : \A q \in Scanning : PathFinds(q, Path[n][q])
<1> DEFINE Fails == {n \in Nat : \E q \in Scanning : ~PathFinds(q, Path[n][q])}
<1> SUFFICES ASSUME Fails # {} PROVE FALSE
  OBVIOUS
<1>1. PICK k \in Fails : \A i \in Fails : k <= i
  BY HasSmallest
<1>2. k # 0
  <2>1. ASSUME NEW q \in Scanning PROVE PathFinds(q, Path[0][q])
    <3>1. Path[0][q] = Result(q)
      BY PathUnfolds
    <3> QED
      BY <3>1, ResultKeeps DEF PathFinds
  <2> QED
    BY <1>1, <2>1
<1>3. PICK n \in Nat : k = n + 1
  BY <1>1, <1>2, k - 1 \in Nat, k = (k - 1) + 1
<1>4. n \notin Fails
  BY <1>1, <1>3
<1>5. \A q \in Scanning : PathFinds(q, Path[n][q])
  BY <1>4
<1>6. ASSUME NEW q \in Scanning PROVE PathFinds(q, Path[k][q])
  <2>1. Path[n] \in Results /\ Path[k] = [x \in Scanning |-> OnPath(Path[n], x)]
    BY <1>3, PathUnfolds
  <2>2. PICK g : g = Path[n]
    OBVIOUS
  <2>3. g \in Results /\ \A r \in Scanning : PathFinds(r, g[r])
    BY <1>5, <2>1, <2>2
  <2>4. PathFinds(q, OnPath(g, q))
    BY <2>3, OnPathFinds
  <2>5. Path[k][q] = OnPath(g, q)
    BY <2>1, <2>2
  <2> QED
    BY <2>4, <2>5
<1> QED
  BY <1>1, <1>6

(* What is behind one jump, or behind the instruction itself.              *)
LEMMA WentFinds ==
  ASSUME Program, NEW g \in Results, \A r \in Scanning : ScanFinds(r, g[r]),
         NEW q \in Scanning, NEW b \in Addresses, NEW u, u = Went(g, q, b)
  PROVE  Keeps(q, u) /\ \A f \in q.mask \ u : b \in Dead(f)
<1>1. PICK r : r = Look(q, b)
  OBVIOUS
<1>2. r \in Scanning /\ r.at = b
  BY <1>1, LookParts
<1>3. Keeps(r, u) /\ \A f \in r.mask \ u : Onward(b, f)
  <2>1. CASE Settled(r)
    <3>1. u = Result(r)
      BY <1>1, <2>1 DEF Went
    <3> QED
      BY <3>1, ResultKeeps
  <2>2. CASE ~Settled(r)
    <3>1. u = g[r]
      BY <1>1, <2>2 DEF Went
    <3> QED
      BY <1>2, <3>1 DEF ScanFinds
  <2> QED BY <2>1, <2>2
<1>4. Keeps(q, u)
  BY <1>1, <1>3, LookKeeps
<1>5. \A f \in q.mask \ u : b \in Dead(f)
  BY <1>1, <1>3, DroppedDead DEF Keeps
<1> QED
  BY <1>4, <1>5

(* A step of the scan, if what follows finds dead what it drops.           *)
LEMMA OnScanFinds ==
  ASSUME Program, NEW p \in Results, NEW g \in Results,
         \A r \in Scanning : PathFinds(r, p[r]),
         \A r \in Scanning : ScanFinds(r, g[r]),
         NEW q \in Scanning
  PROVE  ScanFinds(q, OnScan(p, g, q))
<1>1. PICK u : u = OnScan(p, g, q)
  OBVIOUS
<1>2. /\ q.at \in Addresses /\ After(q.at) \in Addresses
      /\ prog[q.at].insn.flow \in {"next", "follow", "split", "break"}
      /\ prog[q.at].target \in Addresses
  BY ScanParts, InsnAt DEF Regular
<1>3. CASE q.mask = {} \/ prog[q.at].insn.flow = "break"
  <2>1. u = Result(q)
    BY <1>1, <1>3 DEF OnScan
  <2> QED
    BY <1>1, <2>1, ResultKeeps DEF ScanFinds
<1>4. CASE q.mask # {} /\ prog[q.at].insn.flow = "next"
  <2>1. u = Went(g, q, After(q.at))
    BY <1>1, <1>4 DEF OnScan
  <2>2. Keeps(q, u) /\ \A f \in q.mask \ u : After(q.at) \in Dead(f)
    BY <1>2, <2>1, WentFinds
  <2> QED
    BY <1>1, <1>4, <2>2 DEF ScanFinds, Onward
<1>5. CASE q.mask # {} /\ prog[q.at].insn.flow = "follow"
  <2>1. u = Went(g, q, prog[q.at].target)
    BY <1>1, <1>5 DEF OnScan
  <2>2. Keeps(q, u) /\ \A f \in q.mask \ u : prog[q.at].target \in Dead(f)
    BY <1>2, <2>1, WentFinds
  <2>3. Successors(q.at) = {prog[q.at].target}
    BY <1>5 DEF Successors
  <2> QED
    BY <1>1, <1>5, <2>2, <2>3 DEF ScanFinds, Onward
<1>6. CASE q.mask # {} /\ prog[q.at].insn.flow = "split"
  <2>1. PICK r, s : r = Fork(q, prog[q.at].target) /\ s = Fork(q, After(q.at))
    OBVIOUS
  <2>2. u = p[r] \cup p[s]
    BY <1>1, <1>6, <2>1 DEF OnScan
  <2>3. r \in Scanning /\ r.at = prog[q.at].target /\ r.mask = q.mask
    <3>1. PICK b : b = prog[q.at].target
      OBVIOUS
    <3>2. b \in Addresses /\ r = Fork(q, b)
      BY <1>2, <2>1, <3>1
    <3> QED
      BY <3>1, <3>2, ForkParts
  <2>4. s \in Scanning /\ s.at = After(q.at) /\ s.mask = q.mask
    <3>1. PICK b : b = After(q.at)
      OBVIOUS
    <3>2. b \in Addresses /\ s = Fork(q, b)
      BY <1>2, <2>1, <3>1
    <3> QED
      BY <3>1, <3>2, ForkParts
  <2>5. Keeps(r, p[r]) /\ \A f \in q.mask \ p[r] : prog[q.at].target \in Dead(f)
    <3>1. PathFinds(r, p[r])
      BY <2>3
    <3> QED
      BY <2>3, <3>1 DEF PathFinds
  <2>6. Keeps(s, p[s]) /\ \A f \in q.mask \ p[s] : After(q.at) \in Dead(f)
    <3>1. PathFinds(s, p[s])
      BY <2>4
    <3> QED
      BY <2>4, <3>1 DEF PathFinds
  <2>7. Keeps(q, p[r]) /\ Keeps(q, p[s])
    BY <1>2, <2>1, <2>5, <2>6, ForkKeeps
  <2>8. Keeps(q, u)
    BY <2>2, <2>7 DEF Keeps, Paired
  <2>9. Successors(q.at) = {prog[q.at].target, After(q.at)}
    BY <1>6 DEF Successors
  <2>10. \A f \in q.mask \ u : Onward(q.at, f)
    BY <1>6, <2>2, <2>5, <2>6, <2>9 DEF Onward
  <2> QED
    BY <1>1, <2>8, <2>10 DEF ScanFinds
<1> QED
  BY <1>2, <1>3, <1>4, <1>5, <1>6

(* Scans of every depth.                                                   *)
LEMMA ScanAlways ==
  ASSUME Program
  PROVE  \A n \in Nat : \A q \in Scanning : ScanFinds(q, Scan[n][q])
<1> DEFINE Fails == {n \in Nat : \E q \in Scanning : ~ScanFinds(q, Scan[n][q])}
<1> SUFFICES ASSUME Fails # {} PROVE FALSE
  OBVIOUS
<1>1. PICK k \in Fails : \A i \in Fails : k <= i
  BY HasSmallest
<1>2. k # 0
  <2>1. ASSUME NEW q \in Scanning PROVE ScanFinds(q, Scan[0][q])
    <3>1. Scan[0][q] = Result(q)
      BY ScanUnfolds
    <3> QED
      BY <3>1, ResultKeeps DEF ScanFinds
  <2> QED
    BY <1>1, <2>1
<1>3. PICK n \in Nat : k = n + 1
  BY <1>1, <1>2, k - 1 \in Nat, k = (k - 1) + 1
<1>4. n \notin Fails
  BY <1>1, <1>3
<1>5. \A q \in Scanning : ScanFinds(q, Scan[n][q])
  BY <1>4
<1>6. ASSUME NEW q \in Scanning PROVE ScanFinds(q, Scan[k][q])
  <2>1. Path[n] \in Results /\ Scan[n] \in Results
    BY PathUnfolds, ScanUnfolds
  <2>2. Scan[k] = [x \in Scanning |-> OnScan(Path[n], Scan[n], x)]
    BY <1>3, ScanUnfolds
  <2>3. Scan[k][q] = OnScan(Path[n], Scan[n], q)
    BY <2>2
  <2>4. ScanFinds(q, OnScan(Path[n], Scan[n], q))
    BY <1>5, <2>1, PathAlways, OnScanFinds
  <2> QED
    BY <2>3, <2>4
<1> QED
  BY <1>1, <1>6

(* The mask of an instruction leaves a flag out only if it is dead behind  *)
(* the instruction.                                                        *)
LEMMA MaskFinds ==
  ASSUME Program, NEW a \in Addresses, NEW depth \in Depths,
         NEW u, u = M68K_GetSRMask(a, depth)
  PROVE  /\ NoConditionOnV => Paired(u)
         /\ \A f \in prog[a].insn.sets \ u : Onward(a, f)
<1>1. PICK q : q = [at |-> a, mask |-> prog[a].insn.sets, needed |-> {}]
  OBVIOUS
<1>2. /\ prog[a].insn.sets \subseteq CCR
      /\ "N" \in prog[a].insn.sets <=> "V" \in prog[a].insn.sets
  BY InsnAt DEF Regular
<1>3. /\ q \in Scanning /\ q.at = a /\ q.mask = prog[a].insn.sets /\ q.needed = {}
  BY <1>1, <1>2 DEF Scanning
<1>4. u = Scan[depth][q] /\ depth \in Nat
  BY <1>1, Modulus DEF M68K_GetSRMask
<1>5. ScanFinds(q, u)
  BY <1>3, <1>4, ScanAlways
<1> QED
  BY <1>2, <1>3, <1>5 DEF ScanFinds, Keeps, Paired

-----------------------------------------------------------------------------
(***************************************************************************)
(* Steps.                                                                  *)
(***************************************************************************)

(* The emitters compute every flag they are asked for.                     *)
LEMMA DoneCovers ==
  ASSUME NEW i, Regular(i), NEW u, Paired(u), NEW v, v = u \cap i.writes
  PROVE  v \subseteq Done(i.by, v)
<1>1. v \subseteq CCR /\ Paired(v)
  BY DEF Regular, Paired
<1>2. i.by = "NZ00" => "X" \notin v
  BY DEF Regular
<1>3. ASSUME "X" \notin v PROVE ~(Cardinality(v) > 1 /\ v \cap {"N", "Z"} = {})
  <2>1. CASE v \cap {"N", "Z"} = {}
    <3>1. v = {} \/ v = {"C"}
      BY <1>1, <1>3, <2>1 DEF Paired, CCR, NZVC
    <3>2. Cardinality(v) = 0 \/ Cardinality(v) = 1
      BY <3>1, FS_EmptySet, FS_Singleton
    <3> QED
      BY <3>2
  <2>2. CASE v \cap {"N", "Z"} # {}
    BY <2>2
  <2> QED BY <2>1, <2>2
<1>4. ASSUME "X" \notin v PROVE v \subseteq EMIT_GetNZ00(v)
  BY <1>3, <1>4 DEF EMIT_GetNZ00
<1>5. CASE i.by = "NZ00"
  BY <1>2, <1>4, <1>5 DEF Done
<1>6. CASE i.by = "ROXL"
  <2>1. CASE v \cap {"N", "Z"} = {}
    <3>1. v \subseteq {"C", "X"}
      BY <1>1, <2>1 DEF Paired, CCR, NZVC
    <3> QED
      BY <1>6, <3>1 DEF Done, RotateExtended
  <2>2. CASE v \cap {"N", "Z"} # {}
    <3>1. EMIT_GetNZ00(v) = v \ {"X"}
      BY <2>2 DEF EMIT_GetNZ00
    <3> QED
      BY <1>6, <3>1 DEF Done, RotateExtended
  <2> QED BY <2>1, <2>2
<1>7. CASE i.by = "all" \/ i.by = "mask" \/ i.by = "NZxx"
  BY <1>1, <1>7 DEF Done, EMIT_GetNZxx
<1>8. CASE i.by = "add" \/ i.by = "sub" \/ i.by = "cmp"
  BY <1>8 DEF Done, EMIT_GetNZCV, EMIT_GetNZCVX, EMIT_GetNZnCV, EMIT_GetNZnCVX
<1>9. i.by \in {"all", "mask", "NZ00", "NZxx", "add", "sub", "cmp", "ROXL"}
  BY DEF Regular
<1> QED
  BY <1>5, <1>6, <1>7, <1>8, <1>9

(* Further on in the ring.                                                 *)
LEMMA AheadIn == ASSUME NEW a \in Addresses, NEW k \in Int PROVE Ahead(a, k) \in Addresses
<1>1. PICK x : x = a + k - 1
  OBVIOUS
<1>2. x \in Int /\ x % Length \in 0 .. Length - 1
  BY <1>1, Modulus, SMT DEF Addresses
<1> QED
  BY <1>1, <1>2, Modulus DEF Ahead, Addresses

(* Every step keeps the types.                                             *)
LEMMA TypedStep == TypeOK /\ [Next]_vars => TypeOK'
<1> SUFFICES ASSUME TypeOK, [Next]_vars PROVE TypeOK'
  OBVIOUS
<1>1. Program /\ pc \in Addresses /\ stale \subseteq CCR
  BY DEF TypeOK, Program
<1>2. ASSUME NEW i, i.writes \subseteq CCR, NEW u, NEW kept
      PROVE  StaleAfter(i, u, kept) \subseteq CCR
  BY <1>1, <1>2 DEF StaleAfter
<1>3. \A a \in Addresses : prog[a].insn.writes \subseteq CCR
  BY <1>1, InsnAt DEF Regular
<1>4. CASE Single
  <2>1. PICK depth \in Depths, kept \in SUBSET prog[pc].insn.maybe :
            /\ stale' = StaleAfter(prog[pc].insn, M68K_GetSRMask(pc, depth), kept)
            /\ pc' \in Successors(pc) /\ prog' = prog
    BY <1>4 DEF Single
  <2>2. stale' \subseteq CCR /\ pc' \in Addresses
    BY <1>1, <1>2, <1>3, <2>1, InsnAt
  <2> QED
    BY <1>1, <2>1, <2>2 DEF TypeOK, Program, Addresses
<1>5. CASE Fused
  <2>1. PICK p \in Fusions, depth \in Depths :
            LET last == Ahead(pc, Len(p) - 1)
                i    == IF p[1] = "rol8" THEN EMIT_lineE ELSE prog[last].insn
                mask == M68K_GetSRMask(IF p[1] = "rol8" THEN pc ELSE last, depth)
            IN  stale' = StaleAfter(i, mask, {}) /\ pc' = After(last) /\ prog' = prog
    BY <1>5 DEF Fused
  <2>2. PICK last, i, u :
            /\ last = Ahead(pc, Len(p) - 1)
            /\ i = IF p[1] = "rol8" THEN EMIT_lineE ELSE prog[last].insn
            /\ u = M68K_GetSRMask(IF p[1] = "rol8" THEN pc ELSE last, depth)
    OBVIOUS
  <2>3. stale' = StaleAfter(i, u, {}) /\ pc' = After(last) /\ prog' = prog
    BY <2>1, <2>2
  <2>4. p \in Seq(STRING)
    BY FlagScanAssumption DEF FlagScanAssumption
  <2>5. last \in Addresses
    BY <1>1, <2>2, <2>4, AheadIn
  <2>6. EMIT_lineE.writes \subseteq CCR
    BY DEF EMIT_lineE, Insn, CCR
  <2>7. i.writes \subseteq CCR
    BY <1>3, <2>2, <2>5, <2>6
  <2>8. stale' \subseteq CCR /\ pc' \in Addresses
    BY <1>2, <2>3, <2>5, <2>7, AfterIn
  <2> QED
    BY <1>1, <2>3, <2>8 DEF TypeOK, Program, Addresses
<1>6. CASE UNCHANGED vars
  BY <1>6 DEF TypeOK, vars, Addresses
<1> QED
  BY <1>4, <1>5, <1>6 DEF Next

(* And the start has them.                                                 *)
LEMMA InitTyped == Init => TypeOK
<1>1. 1 \in Addresses
  BY Modulus DEF Addresses
<1> QED
  BY <1>1 DEF Init, TypeOK

(* Stale flags are dead.                                                   *)
StaleIsDead == \A f \in stale : pc \in Dead(f)

Inv == TypeOK /\ StaleIsDead

(* Flag f is stale behind instruction i at a, for one of two reasons.      *)
StaleBy(a, i, f, kept) ==
    \/ Onward(a, f) /\ f \in i.writes /\ i.by # "all"
    \/ f \in stale /\ (f \notin i.writes \/ f \in kept)

(* What is stale behind an instruction that was translated with the mask   *)
(* taken there.                                                            *)
LEMMA StaleFound ==
  ASSUME Program, NoConditionOnV, NEW a \in Addresses, NEW depth \in Depths,
         NEW i, i = prog[a].insn, NEW u, u = M68K_GetSRMask(a, depth), NEW kept,
         NEW f \in StaleAfter(i, u, kept)
  PROVE  StaleBy(a, i, f, kept)
<1>1. Regular(i)
  BY InsnAt
<1>2. Paired(u) /\ \A x \in i.sets \ u : Onward(a, x)
  BY MaskFinds
<1>3. PICK v : v = u \cap i.writes
  OBVIOUS
<1>4. v \subseteq Done(i.by, v)
  BY <1>1, <1>2, <1>3, DoneCovers
<1>5. PICK done : done = Done(i.by, v) \cap i.writes
  OBVIOUS
<1>6. f \in (stale \ (done \ kept)) \cup (i.writes \ done)
  BY <1>3, <1>5 DEF StaleAfter
<1>7. CASE f \in i.writes \ done
  <2>1. f \notin u /\ f \in i.sets /\ f \in CCR
    BY <1>1, <1>3, <1>4, <1>5, <1>7 DEF Regular
  <2>2. i.by = "all" => f \in Done(i.by, v)
    BY <2>1 DEF Done
  <2> QED
    BY <1>2, <1>5, <1>7, <2>1, <2>2 DEF StaleBy
<1>8. CASE f \notin i.writes \ done
  BY <1>5, <1>6, <1>8 DEF StaleBy
<1> QED
  BY <1>7, <1>8

(* An instruction translated on its own.                                   *)
LEMMA SingleStep ==
  ASSUME Inv, Single, NoConditionOnV
  PROVE  Inv'
<1>1. Program /\ pc \in Addresses /\ stale \subseteq CCR
  BY DEF Inv, TypeOK, Program
<1>2. PICK depth \in Depths, kept \in SUBSET prog[pc].insn.maybe :
          /\ stale' = StaleAfter(prog[pc].insn, M68K_GetSRMask(pc, depth), kept)
          /\ pc' \in Successors(pc) /\ UNCHANGED prog
  BY DEF Single
<1>3. PICK i, u : i = prog[pc].insn /\ u = M68K_GetSRMask(pc, depth)
  OBVIOUS
<1>4. Regular(i) /\ Successors(pc) \subseteq Addresses
  BY <1>1, <1>3, InsnAt
<1>5. ASSUME NEW f \in stale' PROVE pc' \in Dead(f)
  <2>1. f \in StaleAfter(i, u, kept)
    BY <1>2, <1>3
  <2>2. \/ Onward(pc, f) /\ f \in i.writes /\ i.by # "all"
        \/ f \in stale /\ (f \notin i.writes \/ f \in kept)
    BY <1>1, <1>3, <2>1, StaleFound DEF StaleBy
  <2>3. CASE Onward(pc, f) /\ f \in i.writes /\ i.by # "all"
    <3>1. i.flow = "next" => i.needs # CCR
      BY <1>4, <2>3 DEF Regular
    <3>2. Successors(pc) \subseteq Dead(f)
      BY <1>3, <2>3, <3>1 DEF Onward, Successors
    <3> QED
      BY <1>2, <1>4, <2>3, <3>2 DEF Regular
  <2>4. CASE f \in stale /\ (f \notin i.writes \/ f \in kept)
    <3>1. pc \in Dead(f)
      BY <2>4 DEF Inv, StaleIsDead
    <3>2. f \notin i.writes \ i.maybe
      BY <1>2, <1>3, <2>4
    <3>3. Successors(pc) \subseteq Dead(f)
      BY <1>3, <3>1, <3>2, DeadMeans
    <3> QED
      BY <1>1, <1>2, <2>4, <3>3
  <2> QED BY <2>2, <2>3, <2>4
<1>6. TypeOK'
  BY TypedStep DEF Inv, Next
<1>7. \A f : Dead(f)' = Dead(f)
  BY <1>2, DeadSame
<1>8. StaleIsDead'
  BY <1>5, <1>7 DEF StaleIsDead
<1> QED
  BY <1>6, <1>8 DEF Inv

(* The emitters translate together no more than two moves, or a move and   *)
(* the sign extensions of its target.                                      *)
MovesOnly == \A f \in Fusions : f \in Seq(Pieces) /\ f # <<>>

(* The remainder of a multiple and a rest.                                 *)
LEMMA ModOf ==
  ASSUME NEW c \in Nat, NEW n \in Nat, NEW j \in 0 .. n - 1
  PROVE  (c * n + j) % n = j
  BY SMT

(* k instructions on, and one more.                                        *)
LEMMA AheadSteps ==
  ASSUME NEW a \in Addresses, NEW k \in Nat
  PROVE  /\ Ahead(a, k) \in Addresses /\ Ahead(a, 0) = a
         /\ Ahead(a, k + 1) = After(Ahead(a, k))
<1>1. PICK L : L = Length
  OBVIOUS
<1>2. L \in Nat \ {0} /\ a \in 1 .. L /\ a + k - 1 \in Nat
  BY <1>1, Modulus DEF Addresses
<1>3. PICK x : x = a + k - 1
  OBVIOUS
<1>4. PICK c, j : c = x \div L /\ j = x % L
  OBVIOUS
<1>5. c \in Nat /\ j \in 0 .. L - 1 /\ x = c * L + j
  BY <1>2, <1>3, <1>4, SMT
<1>6. (a - 1) % L = a - 1
  BY <1>2, SMT
<1>7. (x + 1) % L = (j + 1) % L
  <2>1. CASE j + 1 < L
    <3>1. (j + 1) % L = j + 1
      BY <1>2, <1>5, <2>1, SMT
    <3>2. (c * L + (j + 1)) % L = j + 1
      BY <1>2, <1>5, <2>1, ModOf
    <3>3. x + 1 = c * L + (j + 1)
      BY <1>2, <1>5, SMT
    <3> QED
      BY <3>1, <3>2, <3>3
  <2>2. CASE j + 1 = L
    <3>1. x + 1 = (c + 1) * L + 0
      BY <1>2, <1>5, <2>2, SMT
    <3>2. ((c + 1) * L + 0) % L = 0
      BY <1>2, <1>5, ModOf
    <3>3. (j + 1) % L = 0
      BY <1>2, <2>2, SMT
    <3> QED
      BY <3>1, <3>2, <3>3
  <2> QED
    BY <1>2, <1>5, <2>1, <2>2
<1>8. Ahead(a, k) = j + 1 /\ Ahead(a, 0) = a
  BY <1>1, <1>2, <1>3, <1>4, <1>6 DEF Ahead
<1>9. Ahead(a, k + 1) = ((x + 1) % L) + 1
  BY <1>1, <1>2, <1>3 DEF Ahead
<1> QED
  BY <1>1, <1>2, <1>5, <1>7, <1>8, <1>9 DEF After, Addresses

(* Instructions translated as one.                                         *)
LEMMA FusedStep ==
  ASSUME Inv, Fused, NoConditionOnV, MovesOnly
  PROVE  Inv'
<1>1. Program /\ pc \in Addresses /\ stale \subseteq CCR
  BY DEF Inv, TypeOK, Program
<1>2. PICK p \in Fusions, depth \in Depths :
          /\ \A k \in 1 .. Len(p) : prog[Ahead(pc, k - 1)].insn.fuse = p[k]
          /\ LET last == Ahead(pc, Len(p) - 1)
                 i    == IF p[1] = "rol8" THEN EMIT_lineE ELSE prog[last].insn
                 mask == M68K_GetSRMask(IF p[1] = "rol8" THEN pc ELSE last, depth)
             IN  stale' = StaleAfter(i, mask, {}) /\ pc' = After(last)
          /\ UNCHANGED prog
  BY DEF Fused
<1>3. /\ Len(p) \in Nat \ {0} /\ \A k \in 1 .. Len(p) : p[k] \in Pieces
  BY DEF MovesOnly
<1>4. p[1] # "rol8"
  BY <1>3 DEF Pieces
<1>5. PICK last, i, u : /\ last = Ahead(pc, Len(p) - 1) /\ i = prog[last].insn
                        /\ u = M68K_GetSRMask(last, depth)
  OBVIOUS
<1>6. stale' = StaleAfter(i, u, {}) /\ pc' = After(last) /\ prog' = prog
  BY <1>2, <1>4, <1>5
<1>7. ASSUME NEW k \in 0 .. Len(p) - 1
      PROVE  LET a == Ahead(pc, k)
             IN  /\ a \in Addresses /\ prog[a].insn.writes = NZVC
                 /\ prog[a].insn.flow = "next" /\ Successors(a) = {After(a)}
  <2>1. PICK a : a = Ahead(pc, k)
    OBVIOUS
  <2>2. a \in Addresses
    BY <1>1, <2>1, AheadSteps
  <2>3. k + 1 \in 1 .. Len(p) /\ (k + 1) - 1 = k
    BY <1>3
  <2>4. prog[a].insn.fuse \in Pieces
    BY <1>2, <1>3, <2>1, <2>3
  <2>5. /\ prog[a].insn.writes = NZVC /\ prog[a].insn.flow = "next"
        /\ prog[a].insn.needs = {}
    BY <1>1, <2>2, <2>4, InsnAt DEF Regular
  <2>6. {} # CCR
    BY DEF CCR
  <2>7. Successors(a) = {After(a)}
    BY <2>5, <2>6 DEF Successors
  <2> QED
    BY <2>1, <2>2, <2>5, <2>7
<1>8. Len(p) - 1 \in 0 .. Len(p) - 1
  BY <1>3
<1>9. /\ last \in Addresses /\ i.writes = NZVC /\ i.flow = "next"
      /\ Successors(last) = {After(last)}
  BY <1>5, <1>7, <1>8
<1>10. ASSUME NEW f \in stale' PROVE pc' \in Dead(f)
  <2>1. \/ Onward(last, f) /\ f \in i.writes /\ i.by # "all"
        \/ f \in stale /\ f \notin i.writes
    <3>1. PICK none : none = {}
      OBVIOUS
    <3>2. f \in StaleAfter(i, u, none)
      BY <1>6, <3>1
    <3>3. i = prog[last].insn /\ u = M68K_GetSRMask(last, depth)
      BY <1>5
    <3>4. StaleBy(last, i, f, none)
      BY <1>1, <1>9, <3>2, <3>3, StaleFound
    <3> QED
      BY <3>1, <3>4 DEF StaleBy
  <2>2. CASE Onward(last, f) /\ f \in i.writes
    <3>1. After(last) \in Dead(f)
      BY <1>5, <1>9, <2>2 DEF Onward
    <3> QED
      BY <1>6, <3>1
  <2>3. CASE f \in stale /\ f \notin NZVC
    <3> DEFINE Live == {k \in Nat : k < Len(p) /\ Ahead(pc, k) \notin Dead(f)}
    <3>1. Live = {}
      <4> SUFFICES ASSUME Live # {} PROVE FALSE
        OBVIOUS
      <4>1. PICK k \in Live : \A j \in Live : k <= j
        BY HasSmallest
      <4>2. k # 0
        BY <1>1, <2>3, <4>1, AheadSteps DEF Inv, StaleIsDead
      <4>3. PICK j : j = k - 1
        OBVIOUS
      <4>4. j \in Nat /\ k = j + 1 /\ j < k /\ j \in 0 .. Len(p) - 1
        BY <1>3, <4>1, <4>2, <4>3
      <4>5. Ahead(pc, j) \in Dead(f)
        BY <4>1, <4>4
      <4>6. Successors(Ahead(pc, j)) \subseteq Dead(f)
        BY <1>7, <2>3, <4>4, <4>5, DeadMeans
      <4>7. Ahead(pc, k) \in Dead(f)
        BY <1>1, <1>7, <4>4, <4>6, AheadSteps
      <4> QED
        BY <4>1, <4>7
    <3>2. last \in Dead(f)
      BY <1>3, <1>5, <1>8, <3>1
    <3>3. Successors(last) \subseteq Dead(f)
      BY <1>5, <1>9, <2>3, <3>2, DeadMeans
    <3> QED
      BY <1>1, <1>6, <1>9, <2>3, <3>3
  <2> QED BY <1>9, <2>1, <2>2, <2>3
<1>11. TypeOK'
  BY TypedStep DEF Inv, Next
<1>12. \A f : Dead(f)' = Dead(f)
  BY <1>6, DeadSame
<1>13. StaleIsDead'
  BY <1>10, <1>12 DEF StaleIsDead
<1> QED
  BY <1>11, <1>13 DEF Inv

(* Nothing is stale at the start.                                          *)
LEMMA InitInv == Init => Inv
  BY InitTyped DEF Init, Inv, StaleIsDead

(* No step at all.                                                         *)
LEMMA StutterInv == ASSUME Inv, UNCHANGED vars PROVE Inv'
<1>1. \A f : Dead(f)' = Dead(f)
  BY DeadSame DEF vars
<1> QED
  BY <1>1, TypedStep DEF Inv, StaleIsDead, vars

-----------------------------------------------------------------------------
(* Only condition codes are ever stale, whatever is translated together    *)
(* (the opcode tables' od_SRSets against the emitters).                    *)
THEOREM FlagsTyped == Spec => []TypeOK
  BY InitTyped, TypedStep, PTL DEF Spec

(* No instruction looks at a flag that an earlier one left uncomputed      *)
(* because M68K_GetSRMask took it for dead, for every program, every depth *)
(* of the scan and every choice of instructions; it takes that none looks  *)
(* at V alone and that only moves are translated together.                 *)
THEOREM NoFlagReadStale ==
  ASSUME NoConditionOnV, MovesOnly
  PROVE  Spec => []NoStaleRead
<1>1. Init => Inv
  BY InitInv
<1>2. Inv /\ [Next]_vars => Inv'
  BY SingleStep, FusedStep, StutterInv DEF Next
<1>3. Inv => NoStaleRead
  BY DeadMeans DEF Inv, StaleIsDead, NoStaleRead
<1> QED
  BY <1>1, <1>2, <1>3, PTL DEF Spec
=============================================================================
