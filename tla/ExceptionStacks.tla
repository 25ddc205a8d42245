--------------------------- MODULE ExceptionStacks ---------------------------
(* Stack pointers and status register as the emulator keeps them: A7 in one *)
(* ARM register, USP, ISP and MSP in SIMD lanes that are out of date while  *)
(* A7 stands for them, and the status register with its two lowest bits     *)
(* exchanged (M68k_Exception.c, M68k_ExceptionEntry.c, M68k_LINE0.c,        *)
(* M68k_LINE4.c, ExecutionLoop.c). Every instruction that changes S or M    *)
(* has its own copy of the code that moves the pointers.                    *)
EXTENDS StackFrames

CONSTANTS Pointers, SRs, Low, High,
          OrSRs   \* the immediates of ORI to SR

ASSUME ExceptionStacksAssumption ==
  /\ Pointers \subseteq Int /\ SRs \subseteq SUBSET Bits /\ Low \in Int
  /\ High \in Int /\ OrSRs \subseteq SRs

VARIABLES a7,    \* the ARM register of A7
          lane,  \* REG_USP, REG_ISP, REG_MSP
          cc,    \* the status register, lowest bits exchanged
          mem,   \* the frame pushed last
          out    \* what the last instruction read

vars == <<a7, lane, cc, mem, out>>

Nothing == <<"none">>

(* Exchanging the lowest bits: by an EOR if they differ, or by reversing    *)
(* the word and inserting the two bits that come out on top.                *)
Toggle(s, b) == (s \ b) \cup (b \ s)
SwapShifted(s) ==  \* mutant: the bits above
  IF ("b0" \in s) = ("b1" \in s) THEN s ELSE Toggle(s, {"b1", "b2"})
Swap(s) == IF ("b0" \in s) = ("b1" \in s) THEN s ELSE Toggle(s, {"b0", "b1"})
Reverse(s) == (s \ {"b0", "b1"}) \cup {b \in {"b0", "b1"} :
                IF b = "b0" THEN "b1" \in s ELSE "b0" \in s}

Lane(m) == IF m THEN "MSP" ELSE "ISP"
Frame(format) == [sr |-> Swap(cc), format |-> format]

Written == [sr : SRs, format : Formats]

Init == /\ lane \in [Stacks -> Pointers] /\ a7 = lane["ISP"]
        /\ cc = {"S", "I"} /\ mem = Empty /\ out = Nothing

(* M68K_Exception and the interrupt entry of MainLoop: leave the user stack *)
(* if it is in use, push the frame, enter supervisor state.                 *)
Enter(format, new) ==
  LET user == "S" \notin cc
      top == (IF user THEN lane[Lane("M" \in cc)] ELSE a7) - Size(format)
  IN /\ top >= Low
     /\ a7' = top
     /\ lane' = IF user THEN [lane EXCEPT !["USP"] = a7] ELSE lane
     /\ cc' = new
     /\ mem' = Pushed(top, Frame(format))
     /\ out' = Nothing

M68K_Exception(format) == Enter(format, (cc \cup {"S"}) \ {"T"})
Interrupt == "I" \notin cc /\ Enter("f0", ((cc \cup {"S"}) \ {"T"}) \cup {"I"})

(* The code MOVE to SR, STOP, RTE, ANDI and EORI share: with top in A7 and  *)
(* new in cc, store A7 where the old M says and load it as S and M say.     *)
SwitchByNewM(top, new) ==  \* mutant: stores where the new M says
  LET changed == Toggle(cc, new)
      saved == [lane EXCEPT ![Lane("M" \in new)] = top]
  IN IF "S" \in changed \/ "M" \in changed
     THEN /\ lane' = saved
          /\ a7' = IF "S" \in changed THEN saved["USP"]
                   ELSE saved[Lane("M" \in new)]
     ELSE a7' = top /\ UNCHANGED lane
SwitchStack(top, new) ==
  LET changed == Toggle(cc, new)
      saved == [lane EXCEPT ![Lane("M" \in cc)] = top]
  IN IF "S" \in changed \/ "M" \in changed
     THEN /\ lane' = saved
          /\ a7' = IF "S" \in changed THEN saved["USP"]
                   ELSE saved[Lane("M" \in new)]
     ELSE a7' = top /\ UNCHANGED lane

PutSR(new) == /\ "S" \in cc /\ SwitchStack(a7, new) /\ cc' = new
              /\ out' = Nothing /\ UNCHANGED mem

MOVEtoSR(src) == PutSR(Reverse(src))
STOP(imm) == PutSR(Swap(imm))
ANDI_TO_SR(imm) == PutSR(cc \cap Swap(imm))
EORI_TO_SR(imm) == PutSR(Toggle(cc, Swap(imm)))

(* ORI: S cannot change; if M changes, the two moves the emitter takes for  *)
(* an M that is clear now.                                                  *)
ORI_TO_SR(imm) ==
  /\ "S" \in cc
  /\ cc' = cc \cup Swap(imm)
  /\ IF "M" \in Toggle(cc, cc')
     THEN /\ lane' = [lane EXCEPT ![Lane("M" \in cc')] = a7]
          /\ a7' = lane[Lane("M" \notin cc')]
     ELSE UNCHANGED <<a7, lane>>
  /\ out' = Nothing /\ UNCHANGED mem

(* MOVE to CCR and RTR insert the bits, the immediate instructions mask     *)
(* their operand; none of them looks at S.                                  *)
PutCCR(new) == cc' = new /\ out' = Nothing /\ UNCHANGED <<a7, lane, mem>>
CCR(s) == s \cap {"b0", "b1"}
MOVEtoCCR(src) == PutCCR((cc \ {"b0", "b1"}) \cup CCR(Reverse(src)))
ORI_TO_CCR(imm) == PutCCR(cc \cup CCR(Swap(imm)))
ANDI_TO_CCR(imm) == PutCCR(cc \cap (CCR(Swap(imm)) \cup (Bits \ {"b0", "b1"})))
EORI_TO_CCR(imm) == PutCCR(Toggle(cc, CCR(Swap(imm))))

(* RTE: a format it does not know is another exception; else the frame is   *)
(* taken off A7 before the stacks are switched.                             *)
RTE ==
  /\ "S" \in cc
  /\ \E f \in FramesAt(mem, a7, Written) :
       IF f.format = "other" THEN M68K_Exception("f0")
       ELSE /\ a7 + Size(f.format) <= High
            /\ SwitchStack(a7 + Size(f.format), Reverse(f.sr))
            /\ cc' = Reverse(f.sr) /\ out' = Nothing /\ UNCHANGED mem

(* MOVEC to and from the stack pointers: the lane, and A7 if M says it is   *)
(* in use; USP is never in use here.                                        *)
WriteUSP(v) == /\ "S" \in cc /\ lane' = [lane EXCEPT !["USP"] = v]
               /\ out' = Nothing /\ UNCHANGED <<a7, cc, mem>>
WriteSP(m, v) == /\ "S" \in cc /\ lane' = [lane EXCEPT ![Lane(m)] = v]
                 /\ a7' = IF ("M" \in cc) = m THEN v ELSE a7
                 /\ out' = Nothing /\ UNCHANGED <<cc, mem>>
ReadUSP == "S" \in cc /\ out' = <<"sp", lane["USP"]>>
ReadSP(m) ==
  "S" \in cc /\ out' = <<"sp", IF ("M" \in cc) = m THEN a7 ELSE lane[Lane(m)]>>

MOVEfromSR == "S" \in cc /\ out' = <<"sr", Reverse(cc)>>
MOVEfromCCR == out' = <<"sr", CCR(Reverse(cc))>>
Read == /\ ReadUSP \/ (\E m \in BOOLEAN : ReadSP(m)) \/ MOVEfromSR \/ MOVEfromCCR
        /\ UNCHANGED <<a7, lane, cc, mem>>

(* MainLoop saves the context before it translates and loads it afterwards: *)
(* the lane of the active stack is up to date in between.                   *)
Translate ==
  LET k == IF "S" \in cc THEN Lane("M" \in cc) ELSE "USP"
  IN /\ lane' = [lane EXCEPT ![k] = a7] /\ a7' = lane'[k]
     /\ UNCHANGED <<cc, mem, out>>

(* Any other instruction: gives A7 a value, or stores over a frame.         *)
SetA7(v) == a7' = v /\ out' = Nothing /\ UNCHANGED <<lane, cc, mem>>
Store(a) == /\ mem' = Stored(mem, a) /\ out' = Nothing
            /\ UNCHANGED <<a7, lane, cc>>

Next == \/ \E f \in Formats \ {"other"} : M68K_Exception(f)
        \/ Interrupt
        \/ \E s \in SRs : \/ MOVEtoSR(s) \/ STOP(s) \/ ANDI_TO_SR(s)
                          \/ EORI_TO_SR(s)
        \/ \E s \in OrSRs : ORI_TO_SR(s)
        \/ \E s \in SRs : \/ MOVEtoCCR(s) \/ ORI_TO_CCR(s) \/ ANDI_TO_CCR(s)
                          \/ EORI_TO_CCR(s)
        \/ RTE \/ Read \/ Translate
        \/ \E v \in Pointers : \/ WriteUSP(v) \/ SetA7(v) \/ Store(v)
                               \/ \E m \in BOOLEAN : WriteSP(m, v)

Spec == Init /\ [][Next]_vars

-----------------------------------------------------------------------------
(* Correctness.                                                             *)

(* Registers hold addresses, frames hold status words the guest knows, not  *)
(* the exchanged form.                                                      *)
TypeOK == /\ a7 \in Int /\ lane \in [Stacks -> Int] /\ cc \subseteq Bits
          /\ mem \in [at : SUBSET Int, frame : Frames]

(* The values of the three stack pointers: A7 stands for the active one.    *)
Pointer ==
  [k \in Stacks |->
     IF k = (IF "S" \notin cc THEN "USP" ELSE Lane("M" \in cc)) THEN a7
     ELSE lane[k]]

Stacks68k == INSTANCE SupervisorStacks
               WITH sp <- Pointer, sr <- Reverse(cc), mem <- mem, out <- out

(* Every instruction, exception and interrupt of the emulator does to the   *)
(* three stack pointers, the status register and the frames in memory what  *)
(* the architecture says, whichever copy of the switching code runs.        *)
ImplementsStacks == Stacks68k!Spec
=============================================================================
