-------------------------- MODULE SupervisorStacks --------------------------
(* What the exceptions and the status register of a 68040 promise about its *)
(* three stacks: each stack pointer has one value, A7 names one of them     *)
(* according to S and M, an exception enters supervisor state and pushes    *)
(* its frame there, and no change of the status register changes any stack  *)
(* pointer. ExceptionStacks shows how the emulator keeps the promise with   *)
(* one ARM register and three SIMD lanes.                                   *)
EXTENDS StackFrames

CONSTANTS Pointers,  \* values the guest gives to a stack pointer
          SRs,       \* values the guest writes to the status register
          Low, High  \* no frame reaches below or above these (bounds)

VARIABLES sp,   \* sp[k]: the value of stack pointer k
          sr,   \* the status register
          mem,  \* the frame pushed last
          out   \* what the last instruction read

vars == <<sp, sr, mem, out>>

Nothing == <<"none">>
Written == [sr : SRs, format : Formats]

(* The stack A7 means.                                                      *)
Active(s) == IF "S" \notin s THEN "USP" ELSE IF "M" \in s THEN "MSP" ELSE "ISP"
Entered(s) == (s \cup {"S"}) \ {"T"}

Init == /\ sp \in [Stacks -> Pointers] /\ sr = {"S", "I"}
        /\ mem = Empty /\ out = Nothing

Enter(format, new) ==
  LET k == Active(new)
      top == sp[k] - Size(format)
  IN /\ top >= Low
     /\ sp' = [sp EXCEPT ![k] = top] /\ sr' = new
     /\ mem' = Pushed(top, [sr |-> sr, format |-> format])
     /\ out' = Nothing

(* Traps, faults and privilege violations; and the interrupt that is not    *)
(* masked.                                                                  *)
Exception(format) == Enter(format, Entered(sr))
Interrupt == "I" \notin sr /\ Enter("f0", Entered(sr) \cup {"I"})

(* A privileged instruction that changes the status register.               *)
SetSR(new) == /\ "S" \in sr /\ sr' = new /\ out' = Nothing
              /\ UNCHANGED <<sp, mem>>
Move(new) == SetSR(new)
Or(imm) == SetSR(sr \cup imm)
And(imm) == SetSR(sr \cap imm)
Eor(imm) == SetSR((sr \ imm) \cup (imm \ sr))

(* The condition codes are anybody's.                                       *)
SetCCR(new) ==
  /\ sr' = (sr \ {"b0", "b1"}) \cup (new \cap {"b0", "b1"})
  /\ out' = Nothing /\ UNCHANGED <<sp, mem>>
MoveCCR(new) == SetCCR(new)
OrCCR(imm) == SetCCR(sr \cup imm)
AndCCR(imm) == SetCCR(sr \cap imm)
EorCCR(imm) == SetCCR((sr \ imm) \cup (imm \ sr))

(* RTE pops a frame it knows and then becomes what the frame says.          *)
RTE ==
  /\ "S" \in sr
  /\ \E f \in FramesAt(mem, sp[Active(sr)], Written) :
       IF f.format = "other" THEN Exception("f0")
       ELSE /\ sp[Active(sr)] + Size(f.format) <= High
            /\ sp' = [sp EXCEPT ![Active(sr)] = @ + Size(f.format)]
            /\ sr' = f.sr /\ out' = Nothing /\ UNCHANGED mem

(* MOVEC and MOVE USP, and any instruction on A7 or on memory.              *)
WriteSP(k, v) == /\ "S" \in sr /\ sp' = [sp EXCEPT ![k] = v]
                 /\ out' = Nothing /\ UNCHANGED <<sr, mem>>
ReadSP(k) == "S" \in sr /\ out' = <<"sp", sp[k]>> /\ UNCHANGED <<sp, sr, mem>>
ReadSR == "S" \in sr /\ out' = <<"sr", sr>> /\ UNCHANGED <<sp, sr, mem>>
ReadCCR == /\ out' = <<"sr", sr \cap {"b0", "b1"}>>
           /\ UNCHANGED <<sp, sr, mem>>
SetA7(v) == /\ sp' = [sp EXCEPT ![Active(sr)] = v] /\ out' = Nothing
            /\ UNCHANGED <<sr, mem>>
Store(a) == /\ mem' = Stored(mem, a) /\ out' = Nothing
            /\ UNCHANGED <<sp, sr>>

Next == \/ \E f \in Formats \ {"other"} : Exception(f)
        \/ Interrupt
        \/ \E s \in SRs : Move(s) \/ Or(s) \/ And(s) \/ Eor(s)
        \/ \E s \in SRs : MoveCCR(s) \/ OrCCR(s) \/ AndCCR(s) \/ EorCCR(s)
        \/ RTE
        \/ \E k \in Stacks : ReadSP(k) \/ \E v \in Pointers : WriteSP(k, v)
        \/ ReadSR \/ ReadCCR
        \/ \E v \in Pointers : SetA7(v) \/ Store(v)

Spec == Init /\ [][Next]_vars
=============================================================================
