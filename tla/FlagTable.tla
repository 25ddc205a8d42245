----------------------------- MODULE FlagTable -----------------------------
(***************************************************************************)
(* What the emitters of the m68k translator say about the condition codes  *)
(* (the opcode tables' od_SRNeeds and od_SRSets, on which M68K_GetSRMask   *)
(* relies) and what the code they emit does with them.  One definition per *)
(* emitter, under its name in the source.                                  *)
(***************************************************************************)
EXTENDS FiniteSets, Naturals

NZVC == {"N", "Z", "V", "C"}
CCR == NZVC \cup {"X"}

\* needs, sets: the table entry.   reads: what the emitted code looks at.
\* writes: what the instruction defines, computed as far as the mask asks
\* for it, with the helper by.   maybe: what is left alone when a shift
\* count turns out to be zero.   flow: how the scan goes on after it.
\* fuse: the part the instruction plays when several are translated as one.
Insn(needs, sets, by) ==
    [needs |-> needs, sets |-> sets, reads |-> needs, writes |-> sets,
     by |-> by, maybe |-> {}, flow |-> "next", fuse |-> "none"]

Branch(needs, sets, flow) == [Insn(needs, sets, "all") EXCEPT !.flow = flow]

-----------------------------------------------------------------------------
(***************************************************************************)
(* The helpers that move the ARM flags into the register CC, as the set of *)
(* m68k flags that are right afterwards when u was asked for.              *)
(***************************************************************************)

\* With V and C only, no branch of it emits anything, yet both are struck
\* off the mask.
EMIT_GetNZ00(u) ==
    IF Cardinality(u) > 1 /\ u \cap {"N", "Z"} = {} THEN {} ELSE u \ {"X"}

EMIT_GetNZxx(u) == u

EMIT_GetNZCV(u) == IF Cardinality(u) > 1 THEN u \cup NZVC ELSE u

EMIT_GetNZCVX(u) == IF Cardinality(u) > 2 THEN u \cup NZVC ELSE u

\* After a subtraction the ARM carry is the m68k carry inverted: C is right
\* only if C or X was asked for.
EMIT_GetNZnCV(u) == IF Cardinality(u) > 1 THEN u \cup {"N", "Z", "V"} ELSE u

EMIT_GetNZnCVX(u) == IF Cardinality(u) > 2 THEN u \cup {"N", "Z", "V"} ELSE u

\* ROXL and ROXR hand the whole mask to EMIT_GetNZ00 and do C and X by hand.
RotateExtended(u) == EMIT_GetNZ00(u) \cup (u \cap {"C", "X"})

\* "all" emitters never ask; "mask" ones compute each flag by itself.
\* Additions and subtractions take the helper with X only if X is asked for.
Done(by, u) ==
    CASE by = "all"  -> CCR
      [] by = "mask" -> u
      [] by = "NZ00" -> EMIT_GetNZ00(u)
      [] by = "NZxx" -> EMIT_GetNZxx(u)
      [] by = "add"  -> IF "X" \in u THEN EMIT_GetNZCVX(u) ELSE EMIT_GetNZCV(u)
      [] by = "sub"  -> IF "X" \in u THEN EMIT_GetNZnCVX(u) ELSE EMIT_GetNZnCV(u)
      [] by = "cmp"  -> EMIT_GetNZnCV(u)
      [] by = "ROXL" -> RotateExtended(u)

-----------------------------------------------------------------------------
(***************************************************************************)
(* The instructions.                                                       *)
(***************************************************************************)

\* Instructions that neither look at a flag nor change one: also MOVEA, and
\* ADDQ and SUBQ to an address register.  (MOVES in user state is a trap the
\* table does not tell of.)
FlagFree       == Insn({}, {}, "mask")
EMIT_MOVEP     == FlagFree
EMIT_MOVES     == FlagFree
EMIT_LINK32    == FlagFree
EMIT_LINK16    == FlagFree
EMIT_UNLK      == FlagFree
EMIT_NOP       == FlagFree
EMIT_PEA       == FlagFree
EMIT_LEA       == FlagFree
EMIT_MOVEM     == FlagFree
EMIT_PACK_reg  == FlagFree
EMIT_UNPK_reg  == FlagFree
EMIT_SUBA_reg  == FlagFree
EMIT_ADDA_ext  == FlagFree
EMIT_EXG       == FlagFree

\* An opcode no table knows, BKPT, TRAP and ILLEGAL: an exception, whose
\* frame holds all flags.
Undefined == Insn(CCR, {}, "mask")
GetSR_def == [Insn(CCR, CCR, "mask") EXCEPT !.writes = {}]
EMIT_TRAP    == Branch(CCR, {}, "break")
EMIT_BKPT    == Branch(CCR, {}, "break")
EMIT_ILLEGAL == Branch(CCR, {}, "break")

\* Privileged: in user state an exception, which the table does not tell of;
\* that the scan ends here has the same effect.
Privileged   == [Branch({}, {}, "break") EXCEPT !.reads = CCR]
EMIT_RESET   == Privileged
EMIT_MOVEC   == Privileged
EMIT_MOVEUSP == Privileged

\* Additions, subtractions, comparisons.
EMIT_ADDI    == Insn({}, CCR, "add")
EMIT_SUBI    == Insn({}, CCR, "sub")
EMIT_CMPI    == Insn({}, NZVC, "cmp")
EMIT_CAS     == Insn({}, NZVC, "cmp")
EMIT_NEG     == Insn({}, CCR, "sub")
EMIT_ADDQ    == Insn({}, CCR, "add")
EMIT_SUBQ    == Insn({}, CCR, "sub")
EMIT_SUB_reg == Insn({}, CCR, "sub")
EMIT_CMPA_ext == Insn({}, NZVC, "cmp")
EMIT_CMPM    == Insn({}, NZVC, "cmp")
EMIT_CMP_ext == Insn({}, NZVC, "cmp")
EMIT_ADD_ext == Insn({}, CCR, "add")

\* With X as an operand; Z is cleared or left alone, never set.
EMIT_NEGX     == Insn({"X", "Z"}, CCR, "mask")
EMIT_SUBX_reg == Insn({"X", "Z"}, CCR, "mask")
EMIT_ADDX_mem == Insn({"X", "Z"}, CCR, "mask")
EMIT_NBCD     == Insn({"X", "Z"}, {"X", "Z", "C"}, "mask")
EMIT_SBCD_reg == Insn({"X", "Z"}, {"X", "Z", "C"}, "mask")
EMIT_SBCD_mem == Insn({"X", "Z"}, {"X", "Z", "C"}, "mask")
EMIT_ABCD_reg == Insn({"X", "Z"}, {"X", "Z", "C"}, "mask")
EMIT_ABCD_mem == Insn({"X", "Z"}, {"X", "Z", "C"}, "mask")

\* Logic, moves, multiplication and division.
EMIT_ORI     == Insn({}, NZVC, "NZ00")
EMIT_ANDI    == Insn({}, NZVC, "NZ00")
EMIT_EORI    == Insn({}, NZVC, "NZ00")
EMIT_NOT     == Insn({}, NZVC, "NZ00")
EMIT_TST     == Insn({}, NZVC, "NZ00")
EMIT_TAS     == Insn({}, NZVC, "NZ00")
EMIT_SWAP    == [Insn({}, NZVC, "NZ00") EXCEPT !.fuse = "swap"]
EMIT_EXT(size) == [Insn({}, NZVC, "NZ00") EXCEPT !.fuse = size]
EMIT_OR_reg  == Insn({}, NZVC, "NZ00")
EMIT_EOR_ext == Insn({}, NZVC, "NZ00")
EMIT_AND_ext == Insn({}, NZVC, "NZ00")
EMIT_move    == [Insn({}, NZVC, "NZ00") EXCEPT !.fuse = "move"]
EMIT_moveq   == Insn({}, NZVC, "mask")
EMIT_CLR     == Insn({}, NZVC, "mask")
EMIT_MULS_W  == Insn({}, NZVC, "NZ00")
EMIT_MULU_W  == Insn({}, NZVC, "NZ00")
EMIT_MULS_L  == Insn({}, NZVC, "NZ00")
EMIT_DIVS_W  == Insn({}, NZVC, "NZxx")
EMIT_DIVU_W  == Insn({}, NZVC, "NZxx")
EMIT_DIVUS_L == Insn({}, NZVC, "NZxx")

\* Bits and bit fields.
EMIT_BTST == Insn({}, {"Z"}, "mask")
EMIT_BCHG == Insn({}, {"Z"}, "mask")
EMIT_BCLR == Insn({}, {"Z"}, "mask")
EMIT_BSET == Insn({}, {"Z"}, "mask")
EMIT_BFxxx_II == Insn({}, NZVC, "NZ00")
EMIT_BFxxx_IR == Insn({}, NZVC, "NZ00")
EMIT_BFxxx_RI == Insn({}, NZVC, "NZ00")
EMIT_BFxxx_RR == Insn({}, NZVC, "NZ00")
EMIT_BFTST_reg  == Insn({}, NZVC, "NZ00")
EMIT_BFEXTU_reg == Insn({}, NZVC, "NZ00")
EMIT_BFEXTS_reg == Insn({}, NZVC, "NZ00")
EMIT_BFFFO_reg  == Insn({}, NZVC, "NZ00")
EMIT_BFCHG_reg  == Insn({}, NZVC, "NZ00")
EMIT_BFSET_reg  == Insn({}, NZVC, "NZ00")
EMIT_BFCLR_reg  == Insn({}, NZVC, "NZ00")
EMIT_BFINS_reg  == Insn({}, NZVC, "NZ00")

\* Shifts and rotations.  A count in a register may be zero: then X keeps its
\* value, computed or not.
EMIT_ASL_mem  == Insn({}, CCR, "mask")
EMIT_LSL_mem  == Insn({}, CCR, "mask")
EMIT_ASL      == Insn({}, CCR, "mask")
EMIT_LSL      == Insn({}, CCR, "mask")
EMIT_ASL_reg  == [Insn({"X"}, CCR, "mask") EXCEPT !.reads = {}, !.maybe = {"X"}]
\* mutant: the table entry forgets that a count of zero leaves X alone
EMIT_LSL_regBlind == [Insn({}, CCR, "mask") EXCEPT !.maybe = {"X"}]
EMIT_LSL_reg  == [Insn({"X"}, CCR, "mask") EXCEPT !.reads = {}, !.maybe = {"X"}]
EMIT_ROL_mem  == Insn({}, NZVC, "mask")
EMIT_ROL      == Insn({}, NZVC, "NZ00")
EMIT_ROL8     == [EMIT_ROL EXCEPT !.fuse = "rol8"]
EMIT_lineE    == Insn({}, NZVC, "mask")     \* the REV of three
EMIT_ROXL_mem == Insn({"X"}, CCR, "mask")
EMIT_ROXL     == Insn({"X"}, CCR, "ROXL")

\* Status register and condition codes.
EMIT_MOVEfromSR  == Branch(CCR, {}, "break")
EMIT_MOVEfromCCR == Insn(CCR, {}, "mask")
\* mutant: the whole status register is taken for condition codes
EMIT_MOVEtoCCRWide == [Insn({}, CCR, "all") EXCEPT !.writes = CCR \cup {"S"}]
EMIT_MOVEtoCCR   == Insn({}, CCR, "all")
EMIT_MOVEtoSR    == Branch({}, CCR, "break")
EMIT_STOP        == Branch({}, CCR, "break")
EMIT_RTE         == Branch({}, CCR, "break")
EMIT_RTR         == Branch({}, CCR, "break")
EMIT_ORI_TO_CCR  == Insn(CCR, CCR, "all")
EMIT_ANDI_TO_CCR == Insn(CCR, CCR, "all")
EMIT_EORI_TO_CCR == Insn(CCR, CCR, "all")
EMIT_ORI_TO_SR   == Branch(CCR, CCR, "break")
EMIT_ANDI_TO_SR  == Branch(CCR, CCR, "break")
EMIT_EORI_TO_SR  == Branch(CCR, CCR, "break")

\* Checks that trap: the frame holds all flags.  CHK sets N and C only,
\* CMP2 and CHK2 Z and C.
EMIT_CHK    == [Insn(CCR, NZVC, "all") EXCEPT !.writes = {"N", "C"}]
EMIT_CMP2   == [Insn(CCR, NZVC, "all") EXCEPT !.writes = {"Z", "C"}]
EMIT_TRAPcc == Insn(CCR, {}, "mask")
EMIT_TRAPV  == Branch(CCR, {}, "break")

\* The flags a condition looks at (EMIT_TestCondition and
\* EMIT_JumpOnCondition agree with the table): of the sixteen, by pairs.
CC == [T |-> {}, HI |-> {"Z", "C"}, CC |-> {"C"}, NE |-> {"Z"}, VC |-> {"V"},
       PL |-> {"N"}, GE |-> {"N", "V"}, GT |-> {"N", "Z", "V"}]

EMIT_TestCondition(c) == CC[c]
EMIT_JumpOnCondition(c) == CC[c]

EMIT_Scc(c)  == [Insn(CC[c], {}, "mask") EXCEPT !.reads = EMIT_TestCondition(c)]
EMIT_DBcc(c) == [Branch(CC[c], {}, "split") EXCEPT !.reads = EMIT_JumpOnCondition(c)]
EMIT_Bcc(c)  == [Branch(CC[c], {}, "split") EXCEPT !.reads = EMIT_JumpOnCondition(c)]

\* BRA, BSR, and JMP and JSR with an absolute address are followed; returns
\* and the other jumps are not.
EMIT_BRA == Branch({}, {}, "follow")
EMIT_BSR == Branch({}, {}, "follow")
EMIT_JMP == Branch({}, {}, "follow")
EMIT_JSR == Branch({}, {}, "follow")
EMIT_RTS == Branch({}, {}, "break")
EMIT_RTD == Branch({}, {}, "break")

\* The opcode tables, an entry per behaviour the scan or the flags can tell.
InsnTable ==
    {EMIT_MOVEP, EMIT_MOVES, EMIT_LINK32, EMIT_LINK16, EMIT_UNLK, EMIT_NOP,
     EMIT_PEA, EMIT_LEA, EMIT_MOVEM, EMIT_PACK_reg, EMIT_UNPK_reg,
     EMIT_SUBA_reg, EMIT_ADDA_ext, EMIT_EXG, Undefined, GetSR_def,
     EMIT_TRAP, EMIT_BKPT, EMIT_ILLEGAL, EMIT_RESET, EMIT_MOVEC, EMIT_MOVEUSP,
     EMIT_ADDI, EMIT_SUBI, EMIT_CMPI, EMIT_CAS, EMIT_NEG, EMIT_ADDQ,
     EMIT_SUBQ, EMIT_SUB_reg, EMIT_CMPA_ext, EMIT_CMPM, EMIT_CMP_ext,
     EMIT_ADD_ext, EMIT_NEGX, EMIT_SUBX_reg, EMIT_ADDX_mem, EMIT_NBCD,
     EMIT_SBCD_reg, EMIT_SBCD_mem, EMIT_ABCD_reg, EMIT_ABCD_mem,
     EMIT_ORI, EMIT_ANDI, EMIT_EORI, EMIT_NOT, EMIT_TST, EMIT_TAS, EMIT_SWAP,
     EMIT_EXT("ext.w"), EMIT_EXT("ext.l"), EMIT_OR_reg, EMIT_EOR_ext,
     EMIT_AND_ext, EMIT_move, EMIT_moveq, EMIT_CLR, EMIT_MULS_W, EMIT_MULU_W,
     EMIT_MULS_L, EMIT_DIVS_W, EMIT_DIVU_W, EMIT_DIVUS_L,
     EMIT_BTST, EMIT_BCHG, EMIT_BCLR, EMIT_BSET,
     EMIT_BFxxx_II, EMIT_BFxxx_IR, EMIT_BFxxx_RI, EMIT_BFxxx_RR,
     EMIT_BFTST_reg, EMIT_BFEXTU_reg, EMIT_BFEXTS_reg, EMIT_BFFFO_reg,
     EMIT_BFCHG_reg, EMIT_BFSET_reg, EMIT_BFCLR_reg, EMIT_BFINS_reg,
     EMIT_ASL_mem, EMIT_LSL_mem, EMIT_ASL, EMIT_LSL, EMIT_ASL_reg,
     EMIT_LSL_reg, EMIT_ROL_mem, EMIT_ROL, EMIT_ROL8, EMIT_ROXL_mem, EMIT_ROXL,
     EMIT_MOVEfromSR, EMIT_MOVEfromCCR, EMIT_MOVEtoCCR, EMIT_MOVEtoSR,
     EMIT_STOP, EMIT_RTE, EMIT_RTR, EMIT_ORI_TO_CCR, EMIT_ANDI_TO_CCR,
     EMIT_EORI_TO_CCR, EMIT_ORI_TO_SR, EMIT_ANDI_TO_SR, EMIT_EORI_TO_SR,
     EMIT_CHK, EMIT_CMP2, EMIT_TRAPcc, EMIT_TRAPV,
     EMIT_BRA, EMIT_BSR, EMIT_JMP, EMIT_JSR, EMIT_RTS, EMIT_RTD}
    \cup {EMIT_Scc(c) : c \in DOMAIN CC} \cup {EMIT_DBcc(c) : c \in DOMAIN CC}
    \cup {EMIT_Bcc(c) : c \in DOMAIN CC}
=============================================================================
