----------------------- MODULE ExceptionStacks_proofs -----------------------
(* Proofs about ExceptionStacks for any pointers, status words and bounds:  *)
(* type correctness, and that the emulator's registers implement the three  *)
(* stack pointers of the architecture as long as no ORI to SR sets M.       *)
EXTENDS ExceptionStacks, TLAPS

(* Exchanging the lowest bits of a status word.                             *)

LEMMA SwapIsReverse == \A s : Swap(s) = Reverse(s)
  <1> TAKE s
  <1>1. CASE "b0" \in s /\ "b1" \in s
    BY <1>1 DEF Swap, Reverse
  <1>2. CASE "b0" \notin s /\ "b1" \notin s
    BY <1>2 DEF Swap, Reverse
  <1>3. CASE ("b0" \in s) # ("b1" \in s)
    BY <1>3 DEF Swap, Reverse, Toggle
  <1> QED BY <1>1, <1>2, <1>3

LEMMA ReverseMember ==
  \A s, x : x \in Reverse(s) <=> \/ x \in s /\ x # "b0" /\ x # "b1"
                                 \/ x = "b0" /\ "b1" \in s
                                 \/ x = "b1" /\ "b0" \in s
  BY DEF Reverse

LEMMA ReverseTwice == \A s : Reverse(Reverse(s)) = s
  BY ReverseMember

LEMMA ReverseType == \A s \in SUBSET Bits : Reverse(s) \in SUBSET Bits
  BY ReverseMember DEF Bits

LEMMA ReverseBoolean ==
  \A s, t : /\ Reverse(s \cup t) = Reverse(s) \cup Reverse(t)
            /\ Reverse(s \cap t) = Reverse(s) \cap Reverse(t)
            /\ Reverse(s \ t) = Reverse(s) \ Reverse(t)
  <1> TAKE s, t
  <1>1. Reverse(s \cup t) = Reverse(s) \cup Reverse(t)
    BY ReverseMember
  <1>2. Reverse(s \cap t) = Reverse(s) \cap Reverse(t)
    BY ReverseMember
  <1>3. Reverse(s \ t) = Reverse(s) \ Reverse(t)
    BY ReverseMember
  <1> QED BY <1>1, <1>2, <1>3

-----------------------------------------------------------------------------
(* Types.                                                                   *)

LEMMA SizeType == \A f : Size(f) \in Int
  BY DEF Size

LEMMA EnterType ==
  ASSUME TypeOK, NEW format \in Formats, NEW new \in SUBSET Bits,
         Enter(format, new)
  PROVE  TypeOK'
  <1> USE DEF TypeOK
  <1>1. Frame(format) \in Frames
    BY SwapIsReverse, ReverseType DEF Frame, Frames
  <1>2. lane[Lane("M" \in cc)] \in Int
    BY DEF Lane, Stacks
  <1>3. a7' \in Int
    BY <1>2, SizeType DEF Enter
  <1>4. lane' \in [Stacks -> Int]
    BY DEF Enter
  <1>5. mem' \in [at : SUBSET Int, frame : Frames]
    BY <1>1, <1>3 DEF Enter, Pushed
  <1>6. cc' \subseteq Bits
    BY DEF Enter
  <1> QED BY <1>3, <1>4, <1>5, <1>6

LEMMA SwitchType ==
  ASSUME TypeOK, NEW top \in Int, NEW new \in SUBSET Bits,
         SwitchStack(top, new)
  PROVE  a7' \in Int /\ lane' \in [Stacks -> Int]
  <1> DEFINE saved == [lane EXCEPT ![Lane("M" \in cc)] = top]
  <1>1. saved \in [Stacks -> Int]
    BY DEF TypeOK
  <1>2. \A m : Lane(m) \in Stacks
    BY DEF Lane, Stacks
  <1>3. "USP" \in Stacks
    BY DEF Stacks
  <1>4. CASE "S" \in Toggle(cc, new) \/ "M" \in Toggle(cc, new)
    <2>1. lane' = saved
      BY <1>4 DEF SwitchStack
    <2>2. a7' = saved["USP"] \/ a7' = saved[Lane("M" \in new)]
      BY <1>4 DEF SwitchStack
    <2> HIDE DEF saved
    <2> QED BY <1>1, <1>2, <1>3, <2>1, <2>2
  <1>5. CASE ~("S" \in Toggle(cc, new) \/ "M" \in Toggle(cc, new))
    BY <1>5 DEF SwitchStack, TypeOK
  <1> QED BY <1>4, <1>5

LEMMA ToggleType ==
  \A s, t \in SUBSET Bits : Toggle(s, t) \in SUBSET Bits
  BY DEF Toggle

LEMMA BitsOfImmediates ==
  ASSUME NEW s \in SRs
  PROVE  s \in SUBSET Bits /\ Swap(s) \in SUBSET Bits /\ Reverse(s) \in SUBSET Bits
  BY ExceptionStacksAssumption, SwapIsReverse, ReverseType

LEMMA FrameRead ==
  ASSUME TypeOK, NEW f \in FramesAt(mem, a7, Written)
  PROVE  f \in Frames
  <1>1. Written \subseteq Frames
    BY ExceptionStacksAssumption DEF Written, Frames
  <1> QED BY <1>1 DEF FramesAt, TypeOK

LEMMA PutSRType ==
  ASSUME TypeOK, NEW new \in SUBSET Bits, PutSR(new)
  PROVE  TypeOK'
  <1>1. a7' \in Int /\ lane' \in [Stacks -> Int]
    BY SwitchType DEF PutSR, TypeOK
  <1> QED BY <1>1 DEF PutSR, TypeOK

LEMMA TypeInit == Init => TypeOK
  <1> HAVE Init
  <1>1. lane \in [Stacks -> Int]
    BY ExceptionStacksAssumption DEF Init
  <1>2. a7 \in Int
    BY <1>1 DEF Init, Stacks
  <1>3. mem \in [at : SUBSET Int, frame : Frames]
    BY DEF Init, Empty, Frames, Formats
  <1>4. cc \subseteq Bits
    BY DEF Init, Bits
  <1> QED BY <1>1, <1>2, <1>3, <1>4 DEF TypeOK

LEMMA TypeStep == TypeOK /\ [Next]_vars => TypeOK'
  <1> SUFFICES ASSUME TypeOK, [Next]_vars PROVE TypeOK'
    OBVIOUS
  <1>1. ASSUME NEW f \in Formats \ {"other"}, M68K_Exception(f) PROVE TypeOK'
    <2>1. (cc \cup {"S"}) \ {"T"} \in SUBSET Bits
      BY DEF TypeOK, Bits
    <2> QED BY <1>1, <2>1, EnterType DEF M68K_Exception
  <1>2. CASE Interrupt
    <2>1. ((cc \cup {"S"}) \ {"T"}) \cup {"I"} \in SUBSET Bits
      BY DEF TypeOK, Bits
    <2>2. "f0" \in Formats
      BY DEF Formats
    <2> QED BY <1>2, <2>1, <2>2, EnterType DEF Interrupt
  <1>3. ASSUME NEW s \in SRs,
               MOVEtoSR(s) \/ STOP(s) \/ ANDI_TO_SR(s) \/ EORI_TO_SR(s)
        PROVE  TypeOK'
    <2>1. /\ cc \cap Swap(s) \in SUBSET Bits
          /\ Toggle(cc, Swap(s)) \in SUBSET Bits
      BY BitsOfImmediates, ToggleType DEF TypeOK
    <2> QED BY <1>3, <2>1, PutSRType, BitsOfImmediates
            DEF MOVEtoSR, STOP, ANDI_TO_SR, EORI_TO_SR
  <1>4. ASSUME NEW s \in OrSRs, ORI_TO_SR(s) PROVE TypeOK'
    <2>1. Swap(s) \in SUBSET Bits
      BY BitsOfImmediates, ExceptionStacksAssumption
    <2>2. \A m : Lane(m) \in Stacks
      BY DEF Lane, Stacks
    <2>3. a7' \in Int
      BY <1>4, <2>2 DEF ORI_TO_SR, TypeOK
    <2>4. lane' \in [Stacks -> Int]
      BY <1>4 DEF ORI_TO_SR, TypeOK
    <2>5. cc' \subseteq Bits /\ mem' = mem
      BY <1>4, <2>1 DEF ORI_TO_SR, TypeOK
    <2> QED BY <2>3, <2>4, <2>5 DEF TypeOK
  <1>5. ASSUME NEW s \in SRs,
               MOVEtoCCR(s) \/ ORI_TO_CCR(s) \/ ANDI_TO_CCR(s) \/ EORI_TO_CCR(s)
        PROVE  TypeOK'
    <2>1. CCR(Reverse(s)) \in SUBSET Bits /\ CCR(Swap(s)) \in SUBSET Bits
      BY DEF CCR, Bits
    <2>2. cc' \subseteq Bits
      BY <1>5, <2>1, ToggleType
         DEF TypeOK, PutCCR, MOVEtoCCR, ORI_TO_CCR, ANDI_TO_CCR, EORI_TO_CCR
    <2>3. UNCHANGED <<a7, lane, mem>>
      BY <1>5 DEF PutCCR, MOVEtoCCR, ORI_TO_CCR, ANDI_TO_CCR, EORI_TO_CCR
    <2> QED BY <2>2, <2>3 DEF TypeOK
  <1>6. CASE RTE
    <2>1. PICK f \in FramesAt(mem, a7, Written) :
            IF f.format = "other" THEN M68K_Exception("f0")
            ELSE /\ SwitchStack(a7 + Size(f.format), Reverse(f.sr))
                 /\ cc' = Reverse(f.sr) /\ UNCHANGED mem
      BY <1>6 DEF RTE
    <2>2. CASE f.format = "other"
      <3>1. "f0" \in Formats \ {"other"}
        BY DEF Formats
      <3> QED BY <1>1, <2>1, <2>2, <3>1
    <2>3. CASE f.format # "other"
      <3>1. a7 + Size(f.format) \in Int
        BY SizeType DEF TypeOK
      <3>2. Reverse(f.sr) \in SUBSET Bits
        BY FrameRead, ReverseType DEF Frames
      <3>3. SwitchStack(a7 + Size(f.format), Reverse(f.sr))
        BY <2>1, <2>3
      <3>4. a7' \in Int /\ lane' \in [Stacks -> Int]
        BY <3>1, <3>2, <3>3, SwitchType
      <3> QED BY <2>1, <2>3, <3>2, <3>4 DEF TypeOK
    <2> QED BY <2>2, <2>3
  <1>7. CASE Read
    BY <1>7 DEF Read, TypeOK
  <1>8. CASE Translate
    <2>1. \A m : Lane(m) \in Stacks
      BY DEF Lane, Stacks
    <2>2. "USP" \in Stacks
      BY DEF Stacks
    <2> QED BY <1>8, <2>1, <2>2 DEF Translate, TypeOK
  <1>9. ASSUME NEW v \in Pointers,
               \/ WriteUSP(v) \/ SetA7(v) \/ Store(v)
               \/ \E m \in BOOLEAN : WriteSP(m, v)
        PROVE  TypeOK'
    <2>1. v \in Int
      BY ExceptionStacksAssumption
    <2>2. CASE WriteUSP(v) \/ SetA7(v) \/ \E m \in BOOLEAN : WriteSP(m, v)
      BY <2>1, <2>2 DEF WriteUSP, SetA7, WriteSP, TypeOK
    <2>3. CASE Store(v)
      <3>1. mem' \in [at : SUBSET Int, frame : Frames]
        BY <2>3 DEF Store, Stored, Empty, Frames, Formats, TypeOK
      <3> QED BY <2>3, <3>1 DEF Store, TypeOK
    <2> QED BY <1>9, <2>2, <2>3
  <1>10. CASE UNCHANGED vars
    BY <1>10 DEF vars, TypeOK
  <1> QED
    BY <1>1, <1>2, <1>3, <1>4, <1>5, <1>6, <1>7, <1>8, <1>9, <1>10 DEF Next

(* Registers, lanes, status register and frames keep their types, for any   *)
(* stack addresses and any words the guest writes to the status register.   *)
THEOREM StacksTypeCorrect == Spec => []TypeOK
  BY TypeInit, TypeStep, PTL DEF Spec

-----------------------------------------------------------------------------
(* The refinement. Active names the stack A7 stands for, in the words of    *)
(* the emulator's register and of the architecture's.                       *)

InUse(s) == IF "S" \notin s THEN "USP" ELSE Lane("M" \in s)

LEMMA ReverseKeeps ==
  \A s : /\ "S" \in Reverse(s) <=> "S" \in s
         /\ "M" \in Reverse(s) <=> "M" \in s
         /\ "I" \in Reverse(s) <=> "I" \in s
         /\ "T" \in Reverse(s) <=> "T" \in s
  BY ReverseMember

LEMMA ActiveIsInUse == \A s : Stacks68k!Active(Reverse(s)) = InUse(s)
  BY ReverseKeeps DEF Stacks68k!Active, InUse, Lane

LEMMA InUseStack == \A s : InUse(s) \in Stacks
  BY DEF InUse, Lane, Stacks

LEMMA PointerAt ==
  \A k \in Stacks : Pointer[k] = IF k = InUse(cc) THEN a7 ELSE lane[k]
  BY DEF Pointer, InUse

LEMMA PointerNext ==
  \A k \in Stacks : Pointer'[k] = IF k = InUse(cc') THEN a7' ELSE lane'[k]
  BY DEF Pointer, InUse

(* A step that gives stack pointer j the value v and leaves the others.     *)
LEMMA PointerChanged ==
  ASSUME NEW j \in Stacks, NEW v,
         \A k \in Stacks : (IF k = InUse(cc') THEN a7' ELSE lane'[k])
                           = IF k = j THEN v ELSE Pointer[k]
  PROVE  Pointer' = [Pointer EXCEPT ![j] = v]
  <1>1. Pointer' = [k \in Stacks |-> IF k = InUse(cc') THEN a7' ELSE lane'[k]]
    BY DEF Pointer, InUse
  <1>2. [Pointer EXCEPT ![j] = v] = [k \in Stacks |-> IF k = j THEN v ELSE Pointer[k]]
    BY DEF Pointer
  <1> QED BY <1>1, <1>2

LEMMA PointerKept ==
  ASSUME \A k \in Stacks : (IF k = InUse(cc') THEN a7' ELSE lane'[k]) = Pointer[k]
  PROVE  Pointer' = Pointer
  <1>1. Pointer' = [k \in Stacks |-> IF k = InUse(cc') THEN a7' ELSE lane'[k]]
    BY DEF Pointer, InUse
  <1>2. Pointer = [k \in Stacks |-> Pointer[k]]
    BY DEF Pointer
  <1> QED BY <1>1, <1>2

LEMMA EnterRefines ==
  ASSUME TypeOK, NEW format \in Formats, NEW new,
         "S" \in new, "M" \in new <=> "M" \in cc, Enter(format, new)
  PROVE  Stacks68k!Enter(format, Reverse(new))
  <1> DEFINE k == InUse(new)
             top == (IF "S" \notin cc THEN lane[Lane("M" \in cc)] ELSE a7) - Size(format)
  <1>1. Stacks68k!Active(Reverse(new)) = k /\ k \in Stacks
    BY ActiveIsInUse, InUseStack
  <1>2. k = Lane("M" \in cc) /\ k # "USP"
    BY DEF InUse, Lane
  <1>3. Pointer[k] - Size(format) = top
    BY <1>1, <1>2, PointerAt DEF InUse
  <1>4. Pointer' = [Pointer EXCEPT ![k] = top]
    <2> SUFFICES ASSUME NEW j \in Stacks
                 PROVE  (IF j = InUse(cc') THEN a7' ELSE lane'[j])
                        = IF j = k THEN top ELSE Pointer[j]
      BY <1>1, PointerChanged
    <2>1. cc' = new /\ a7' = top
      BY DEF Enter
    <2>2. CASE "S" \notin cc
      <3>1. lane' = [lane EXCEPT !["USP"] = a7]
        BY <2>2 DEF Enter
      <3>2. InUse(cc) = "USP"
        BY <2>2 DEF InUse
      <3> HIDE DEF k, top
      <3> QED BY <1>2, <2>1, <3>1, <3>2, PointerAt DEF TypeOK, k
    <2>3. CASE "S" \in cc
      <3>1. lane' = lane
        BY <2>3 DEF Enter
      <3>2. InUse(cc) = k
        BY <1>2, <2>3 DEF InUse
      <3> QED BY <2>1, <3>1, <3>2, PointerAt
    <2> QED BY <2>2, <2>3
  <1>5. Frame(format) = [sr |-> Reverse(cc), format |-> format]
    BY SwapIsReverse DEF Frame
  <1>6. /\ top >= Low /\ cc' = new /\ mem' = Pushed(top, Frame(format))
        /\ out' = Nothing
    BY DEF Enter
  <1>7. Reverse(cc)' = Reverse(new)
    BY <1>6
  <1> HIDE DEF k, top
  <1> QED
    BY <1>1, <1>3, <1>4, <1>5, <1>6, <1>7
       DEF Stacks68k!Enter, Stacks68k!Pushed, Stacks68k!Size, Pushed, Size, Stacks68k!Nothing, Nothing

LEMMA SwitchRefines ==
  ASSUME TypeOK, NEW top, NEW new, "S" \in cc, cc' = new, SwitchStack(top, new)
  PROVE  Pointer' = [Pointer EXCEPT ![InUse(cc)] = top]
  <1> DEFINE k == InUse(cc)
             saved == [lane EXCEPT ![k] = top]
  <1>1. k = Lane("M" \in cc) /\ k \in Stacks
    BY InUseStack DEF InUse
  <1> SUFFICES ASSUME NEW j \in Stacks
               PROVE  (IF j = InUse(cc') THEN a7' ELSE lane'[j])
                      = IF j = k THEN top ELSE Pointer[j]
    BY <1>1, PointerChanged
  <1>2. Pointer[j] = IF j = k THEN a7 ELSE lane[j]
    BY PointerAt
  <1>3. CASE "S" \in Toggle(cc, new) \/ "M" \in Toggle(cc, new)
    <2>1. lane' = saved
      BY <1>1, <1>3 DEF SwitchStack
    <2>2. a7' = IF "S" \in Toggle(cc, new) THEN saved["USP"]
                ELSE saved[Lane("M" \in new)]
      BY <1>1, <1>3 DEF SwitchStack
    <2>3. "S" \in Toggle(cc, new) <=> "S" \notin new
      BY DEF Toggle
    <2>4. a7' = saved[InUse(new)]
      BY <2>2, <2>3 DEF InUse
    <2>5. saved[j] = IF j = k THEN top ELSE lane[j]
      BY <1>1 DEF TypeOK
    <2> HIDE DEF saved, k
    <2> QED BY <1>2, <2>1, <2>4, <2>5
  <1>4. CASE ~("S" \in Toggle(cc, new) \/ "M" \in Toggle(cc, new))
    <2>1. a7' = top /\ lane' = lane
      BY <1>4 DEF SwitchStack
    <2>2. InUse(new) = k
      BY <1>4 DEF Toggle, InUse, Lane
    <2> HIDE DEF k
    <2> QED BY <1>2, <2>1, <2>2
  <1> QED BY <1>3, <1>4

LEMMA SameValue ==
  ASSUME NEW j \in Stacks, NEW v, Pointer' = [Pointer EXCEPT ![j] = v],
         Pointer[j] = v
  PROVE  Pointer' = Pointer
  BY DEF Pointer

LEMMA PutSRRefines ==
  ASSUME TypeOK, NEW new, PutSR(new)
  PROVE  Stacks68k!SetSR(Reverse(new))
  <1>1. Pointer' = [Pointer EXCEPT ![InUse(cc)] = a7]
    BY SwitchRefines DEF PutSR
  <1>2. Pointer' = Pointer
    BY <1>1, InUseStack, PointerAt, SameValue
  <1>3. "S" \in Reverse(cc) /\ Reverse(cc)' = Reverse(new)
    BY ReverseKeeps DEF PutSR
  <1> QED BY <1>2, <1>3 DEF PutSR, Stacks68k!SetSR, Stacks68k!Nothing, Nothing

LEMMA EnteredRefines ==
  \A s : Stacks68k!Entered(Reverse(s)) = Reverse((s \cup {"S"}) \ {"T"})
  BY ReverseMember DEF Stacks68k!Entered

LEMMA ExceptionRefines ==
  ASSUME TypeOK, NEW f \in Formats, M68K_Exception(f)
  PROVE  Stacks68k!Exception(f)
  <1> DEFINE new == (cc \cup {"S"}) \ {"T"}
  <1>1. "S" \in new /\ ("M" \in new <=> "M" \in cc)
    OBVIOUS
  <1>2. Enter(f, new)
    BY DEF M68K_Exception
  <1> HIDE DEF new
  <1>3. Stacks68k!Enter(f, Reverse(new))
    BY <1>1, <1>2, EnterRefines
  <1> QED BY <1>3, EnteredRefines DEF Stacks68k!Exception, new

LEMMA InterruptRefines ==
  ASSUME TypeOK, Interrupt
  PROVE  Stacks68k!Interrupt
  <1> DEFINE new == ((cc \cup {"S"}) \ {"T"}) \cup {"I"}
  <1>1. "S" \in new /\ ("M" \in new <=> "M" \in cc)
    OBVIOUS
  <1>2. Enter("f0", new)
    BY DEF Interrupt
  <1>3. Reverse(new) = Reverse((cc \cup {"S"}) \ {"T"}) \cup {"I"}
    BY ReverseMember
  <1> HIDE DEF new
  <1>4. "f0" \in Formats
    BY DEF Formats
  <1>5. Stacks68k!Enter("f0", Reverse(new))
    BY <1>1, <1>2, <1>4, EnterRefines
  <1>6. "I" \notin Reverse(cc)
    BY ReverseKeeps DEF Interrupt
  <1> QED BY <1>3, <1>5, <1>6, EnteredRefines DEF Stacks68k!Interrupt

(* The immediate instructions work on exchanged words.                      *)
LEMMA ReverseSwap == \A s : Reverse(Swap(s)) = s
  BY SwapIsReverse, ReverseTwice

LEMMA ReverseToggle ==
  \A s, t : Reverse(Toggle(s, Swap(t))) = (Reverse(s) \ t) \cup (t \ Reverse(s))
  <1> TAKE s, t
  <1> DEFINE u == Swap(t)
  <1>1. Reverse(Toggle(s, u)) = Reverse(s \ u) \cup Reverse(u \ s)
    BY ReverseBoolean DEF Toggle
  <1>2. Reverse(s \ u) = Reverse(s) \ Reverse(u)
    BY ReverseBoolean
  <1>3. Reverse(u \ s) = Reverse(u) \ Reverse(s)
    BY ReverseBoolean
  <1>4. Reverse(u) = t
    BY ReverseSwap
  <1> QED BY <1>1, <1>2, <1>3, <1>4

LEMMA MoveRefines ==
  ASSUME TypeOK, NEW s,
         MOVEtoSR(s) \/ STOP(s) \/ ANDI_TO_SR(s) \/ EORI_TO_SR(s)
  PROVE  Stacks68k!Move(s) \/ Stacks68k!And(s) \/ Stacks68k!Eor(s)
  <1>1. CASE MOVEtoSR(s)
    BY <1>1, PutSRRefines, ReverseTwice DEF MOVEtoSR, Stacks68k!Move
  <1>2. CASE STOP(s)
    BY <1>2, PutSRRefines, ReverseSwap DEF STOP, Stacks68k!Move
  <1>3. CASE ANDI_TO_SR(s)
    <2>1. Reverse(cc \cap Swap(s)) = Reverse(cc) \cap s
      BY ReverseBoolean, ReverseSwap
    <2> QED BY <1>3, <2>1, PutSRRefines DEF ANDI_TO_SR, Stacks68k!And
  <1>4. CASE EORI_TO_SR(s)
    BY <1>4, PutSRRefines, ReverseToggle DEF EORI_TO_SR, Stacks68k!Eor
  <1> QED BY <1>1, <1>2, <1>3, <1>4

LEMMA OrRefines ==
  ASSUME TypeOK, NEW s, "M" \notin s, ORI_TO_SR(s)
  PROVE  Stacks68k!Or(s)
  <1>1. "M" \notin Swap(s)
    BY SwapIsReverse, ReverseKeeps
  <1>2. a7' = a7 /\ lane' = lane
    BY <1>1 DEF ORI_TO_SR, Toggle
  <1>3. InUse(cc') = InUse(cc)
    BY <1>1 DEF ORI_TO_SR, InUse, Lane
  <1>4. Pointer' = Pointer
    BY <1>2, <1>3, PointerAt, PointerKept
  <1>5. Reverse(cc)' = Reverse(cc) \cup s
    BY ReverseBoolean, ReverseSwap DEF ORI_TO_SR
  <1>6. "S" \in Reverse(cc)
    BY ReverseKeeps DEF ORI_TO_SR
  <1> QED BY <1>4, <1>5, <1>6
          DEF ORI_TO_SR, Stacks68k!Or, Stacks68k!SetSR, Stacks68k!Nothing, Nothing

LEMMA PutCCRRefines ==
  ASSUME NEW new, PutCCR(new), NEW s,
         \A x : x \in new <=> IF x \in {"b0", "b1"} THEN x \in s ELSE x \in cc
  PROVE  Stacks68k!SetCCR(Reverse(s))
  <1>1. "S" \in new <=> "S" \in cc
    OBVIOUS
  <1>2. "M" \in new <=> "M" \in cc
    OBVIOUS
  <1>3. InUse(cc') = InUse(cc)
    BY <1>1, <1>2 DEF PutCCR, InUse, Lane
  <1>4. Pointer' = Pointer
    BY <1>3, PointerAt, PointerKept DEF PutCCR
  <1>5. Reverse(new) = (Reverse(cc) \ {"b0", "b1"}) \cup (Reverse(s) \cap {"b0", "b1"})
    BY ReverseMember
  <1>6. Reverse(cc)' = Reverse(new)
    BY DEF PutCCR
  <1> QED BY <1>4, <1>5, <1>6 DEF PutCCR, Stacks68k!SetCCR, Stacks68k!Nothing, Nothing

LEMMA CCRRefines ==
  ASSUME TypeOK, NEW s \in SRs,
         MOVEtoCCR(s) \/ ORI_TO_CCR(s) \/ ANDI_TO_CCR(s) \/ EORI_TO_CCR(s)
  PROVE  \/ Stacks68k!MoveCCR(s) \/ Stacks68k!OrCCR(s)
         \/ Stacks68k!AndCCR(s) \/ Stacks68k!EorCCR(s)
  <1> USE DEF CCR
  <1>1. CASE MOVEtoCCR(s)
    <2>1. Stacks68k!SetCCR(Reverse(Reverse(s)))
      BY <1>1, PutCCRRefines DEF MOVEtoCCR
    <2> QED BY <2>1, ReverseTwice DEF Stacks68k!MoveCCR
  <1>2. CASE ORI_TO_CCR(s)
    <2>1. Stacks68k!SetCCR(Reverse(cc \cup Swap(s)))
      BY <1>2, PutCCRRefines DEF ORI_TO_CCR
    <2>2. Reverse(cc \cup Swap(s)) = Reverse(cc) \cup s
      BY ReverseBoolean, ReverseSwap
    <2> QED BY <2>1, <2>2 DEF Stacks68k!OrCCR
  <1>3. CASE ANDI_TO_CCR(s)
    <2>1. cc \subseteq Bits
      BY DEF TypeOK
    <2>2. Stacks68k!SetCCR(Reverse(cc \cap Swap(s)))
      BY <1>3, <2>1, PutCCRRefines DEF ANDI_TO_CCR
    <2>3. Reverse(cc \cap Swap(s)) = Reverse(cc) \cap s
      BY ReverseBoolean, ReverseSwap
    <2> QED BY <2>2, <2>3 DEF Stacks68k!AndCCR
  <1>4. CASE EORI_TO_CCR(s)
    <2>1. Stacks68k!SetCCR(Reverse(Toggle(cc, Swap(s))))
      <3>1. \A x : x \in Toggle(cc, Swap(s) \cap {"b0", "b1"})
                  <=> IF x \in {"b0", "b1"} THEN x \in Toggle(cc, Swap(s)) ELSE x \in cc
        BY DEF Toggle
      <3> QED BY <1>4, <3>1, PutCCRRefines DEF EORI_TO_CCR
    <2> QED BY <2>1, ReverseToggle DEF Stacks68k!EorCCR
  <1> QED BY <1>1, <1>2, <1>3, <1>4

LEMMA RTERefines ==
  ASSUME TypeOK, RTE
  PROVE  Stacks68k!RTE
  <1> DEFINE k == InUse(cc)
  <1>1. PICK f \in FramesAt(mem, a7, Written) :
          IF f.format = "other" THEN M68K_Exception("f0")
          ELSE /\ a7 + Size(f.format) <= High
               /\ SwitchStack(a7 + Size(f.format), Reverse(f.sr))
               /\ cc' = Reverse(f.sr) /\ out' = Nothing /\ UNCHANGED mem
    BY DEF RTE
  <1>2. "S" \in Reverse(cc) /\ "S" \in cc
    BY ReverseKeeps DEF RTE
  <1>3. Stacks68k!Active(Reverse(cc)) = k /\ k \in Stacks /\ Pointer[k] = a7
    BY ActiveIsInUse, InUseStack, PointerAt
  <1>4. f \in Stacks68k!FramesAt(mem, Pointer[k], Stacks68k!Written)
    BY <1>3 DEF FramesAt, Written, Stacks68k!FramesAt, Stacks68k!Written,
                Formats, Stacks68k!Formats
  <1>5. CASE f.format = "other"
    <2>1. "f0" \in Formats
      BY DEF Formats
    <2>2. Stacks68k!Exception("f0")
      BY <1>1, <1>5, <2>1, ExceptionRefines
    <2> HIDE DEF k
    <2> QED BY <1>2, <1>3, <1>4, <1>5, <2>2 DEF Stacks68k!RTE
  <1>6. CASE f.format # "other"
    <2>1. Pointer' = [Pointer EXCEPT ![k] = a7 + Size(f.format)]
      BY <1>1, <1>2, <1>6, SwitchRefines
    <2>2. Pointer' = [Pointer EXCEPT ![k] = @ + Size(f.format)]
      BY <1>3, <2>1
    <2>3. Reverse(cc)' = f.sr
      BY <1>1, <1>6, ReverseTwice
    <2>4. a7 + Size(f.format) <= High /\ out' = Nothing /\ mem' = mem
      BY <1>1, <1>6
    <2> HIDE DEF k
    <2> QED BY <1>2, <1>3, <1>4, <1>6, <2>2, <2>3, <2>4
            DEF Stacks68k!RTE, Stacks68k!Size, Size, Stacks68k!Nothing, Nothing
  <1> QED BY <1>5, <1>6

LEMMA ReadRefines ==
  ASSUME TypeOK, Read
  PROVE  \/ \E k \in Stacks : Stacks68k!ReadSP(k)
         \/ Stacks68k!ReadSR \/ Stacks68k!ReadCCR
  <1>1. UNCHANGED <<a7, lane, cc, mem>>
    BY DEF Read
  <1>2. Pointer' = Pointer /\ Reverse(cc)' = Reverse(cc)
    BY <1>1, PointerAt, PointerKept
  <1>3. CASE ReadUSP
    <2>1. "S" \in cc /\ InUse(cc) # "USP"
      BY <1>3 DEF ReadUSP, InUse, Lane
    <2>2. "USP" \in Stacks /\ Pointer["USP"] = lane["USP"]
      BY <2>1, PointerAt DEF Stacks
    <2>3. out' = <<"sp", Pointer["USP"]>> /\ "S" \in Reverse(cc)
      BY <1>3, <2>1, <2>2, ReverseKeeps DEF ReadUSP
    <2>4. Stacks68k!ReadSP("USP")
      BY <1>1, <1>2, <2>3 DEF Stacks68k!ReadSP
    <2> QED BY <2>2, <2>4
  <1>4. ASSUME NEW m \in BOOLEAN, ReadSP(m)
        PROVE  \E k \in Stacks : Stacks68k!ReadSP(k)
    <2>1. "S" \in cc
      BY <1>4 DEF ReadSP
    <2>2. (("M" \in cc) = m) <=> Lane(m) = InUse(cc)
      BY <2>1 DEF InUse, Lane
    <2>3. Lane(m) \in Stacks
      BY DEF Lane, Stacks
    <2>4. out' = <<"sp", Pointer[Lane(m)]>> /\ "S" \in Reverse(cc)
      BY <1>4, <2>1, <2>2, <2>3, PointerAt, ReverseKeeps DEF ReadSP
    <2>5. Stacks68k!ReadSP(Lane(m))
      BY <1>1, <1>2, <2>4 DEF Stacks68k!ReadSP
    <2> QED BY <2>3, <2>5
  <1>5. CASE MOVEfromSR
    BY <1>1, <1>2, <1>5, ReverseKeeps DEF MOVEfromSR, Stacks68k!ReadSR
  <1>6. CASE MOVEfromCCR
    BY <1>1, <1>2, <1>6 DEF MOVEfromCCR, CCR, Stacks68k!ReadCCR
  <1> QED BY <1>3, <1>4, <1>5, <1>6 DEF Read

LEMMA TranslateRefines ==
  ASSUME TypeOK, Translate
  PROVE  UNCHANGED <<Pointer, Reverse(cc), mem, out>>
  <1>1. lane' = [lane EXCEPT ![InUse(cc)] = a7] /\ a7' = lane'[InUse(cc)]
    BY DEF Translate, InUse
  <1>2. UNCHANGED <<cc, mem, out>>
    BY DEF Translate
  <1>3. a7' = a7
    BY <1>1, InUseStack DEF TypeOK
  <1>4. Pointer' = Pointer
    <2> SUFFICES ASSUME NEW j \in Stacks
                 PROVE  (IF j = InUse(cc') THEN a7' ELSE lane'[j]) = Pointer[j]
      BY PointerKept
    <2> QED BY <1>1, <1>2, <1>3, PointerAt DEF TypeOK
  <1> QED BY <1>2, <1>4

LEMMA SetRefines ==
  ASSUME TypeOK, NEW v
  PROVE  /\ SetA7(v) => Stacks68k!SetA7(v)
         /\ WriteUSP(v) => Stacks68k!WriteSP("USP", v)
         /\ \A m \in BOOLEAN : WriteSP(m, v) => Stacks68k!WriteSP(Lane(m), v)
         /\ Store(v) => Stacks68k!Store(v)
  <1>1. ASSUME SetA7(v) PROVE Stacks68k!SetA7(v)
    <2>1. Pointer' = [Pointer EXCEPT ![InUse(cc)] = v]
      BY <1>1, PointerAt, PointerChanged, InUseStack DEF SetA7
    <2>2. UNCHANGED <<Reverse(cc), mem>> /\ out' = Nothing
      BY <1>1 DEF SetA7
    <2> QED BY <2>1, <2>2, ActiveIsInUse DEF Stacks68k!SetA7, Stacks68k!Nothing, Nothing
  <1>2. ASSUME WriteUSP(v) PROVE Stacks68k!WriteSP("USP", v)
    <2>1. "S" \in cc /\ InUse(cc) # "USP" /\ "USP" \in Stacks
      BY <1>2 DEF WriteUSP, InUse, Lane, Stacks
    <2>2. Pointer' = [Pointer EXCEPT !["USP"] = v]
      <3> SUFFICES ASSUME NEW j \in Stacks
                   PROVE  (IF j = InUse(cc') THEN a7' ELSE lane'[j])
                          = IF j = "USP" THEN v ELSE Pointer[j]
        BY <2>1, PointerChanged
      <3> QED BY <1>2, <2>1, PointerAt DEF WriteUSP, TypeOK
    <2>3. UNCHANGED <<Reverse(cc), mem>> /\ out' = Nothing /\ "S" \in Reverse(cc)
      BY <1>2, <2>1, ReverseKeeps DEF WriteUSP
    <2> QED BY <2>2, <2>3 DEF Stacks68k!WriteSP, Stacks68k!Nothing, Nothing
  <1>3. ASSUME NEW m \in BOOLEAN, WriteSP(m, v)
        PROVE  Stacks68k!WriteSP(Lane(m), v)
    <2>1. "S" \in cc
      BY <1>3 DEF WriteSP
    <2>2. (("M" \in cc) = m) <=> Lane(m) = InUse(cc)
      BY <2>1 DEF InUse, Lane
    <2>3. Lane(m) \in Stacks
      BY DEF Lane, Stacks
    <2>4. Pointer' = [Pointer EXCEPT ![Lane(m)] = v]
      <3> SUFFICES ASSUME NEW j \in Stacks
                   PROVE  (IF j = InUse(cc') THEN a7' ELSE lane'[j])
                          = IF j = Lane(m) THEN v ELSE Pointer[j]
        BY <2>3, PointerChanged
      <3> QED BY <1>3, <2>2, PointerAt DEF WriteSP, TypeOK
    <2>5. UNCHANGED <<Reverse(cc), mem>> /\ out' = Nothing /\ "S" \in Reverse(cc)
      BY <1>3, <2>1, ReverseKeeps DEF WriteSP
    <2> QED BY <2>4, <2>5 DEF Stacks68k!WriteSP, Stacks68k!Nothing, Nothing
  <1>4. ASSUME Store(v) PROVE Stacks68k!Store(v)
    <2>1. Pointer' = Pointer
      BY <1>4, PointerAt, PointerKept DEF Store
    <2> QED BY <1>4, <2>1
            DEF Store, Stored, Empty, Stacks68k!Store, Stacks68k!Stored,
                Stacks68k!Empty, Stacks68k!Nothing, Nothing
  <1> QED BY <1>1, <1>2, <1>3, <1>4

LEMMA InitRefines == Init => Stacks68k!Init
  <1> HAVE Init
  <1>1. InUse(cc) = "ISP"
    BY DEF Init, InUse, Lane
  <1>2. Pointer = lane
    BY <1>1, PointerAt DEF Init, Pointer, InUse
  <1>3. Reverse(cc) = {"S", "I"}
    BY DEF Init, Reverse
  <1> QED BY <1>2, <1>3 DEF Init, Empty, Nothing, Stacks68k!Init, Stacks68k!Stacks,
             Stacks, Stacks68k!Empty, Stacks68k!Nothing

LEMMA StepRefines ==
  ASSUME \A s \in OrSRs : "M" \notin s, TypeOK, [Next]_vars
  PROVE  [Stacks68k!Next]_(Stacks68k!vars)
  <1> USE DEF Stacks68k!Next
  <1>1. ASSUME NEW f \in Formats \ {"other"}, M68K_Exception(f) PROVE Stacks68k!Next
    BY <1>1, ExceptionRefines DEF Formats, Stacks68k!Formats
  <1>2. CASE Interrupt
    BY <1>2, InterruptRefines
  <1>3. ASSUME NEW s \in SRs,
               MOVEtoSR(s) \/ STOP(s) \/ ANDI_TO_SR(s) \/ EORI_TO_SR(s)
        PROVE  Stacks68k!Next
    BY <1>3, MoveRefines
  <1>4. ASSUME NEW s \in OrSRs, ORI_TO_SR(s) PROVE Stacks68k!Next
    BY <1>4, OrRefines, ExceptionStacksAssumption
  <1>5. ASSUME NEW s \in SRs,
               MOVEtoCCR(s) \/ ORI_TO_CCR(s) \/ ANDI_TO_CCR(s) \/ EORI_TO_CCR(s)
        PROVE  Stacks68k!Next
    BY <1>5, CCRRefines
  <1>6. CASE RTE
    BY <1>6, RTERefines
  <1>7. CASE Read
    BY <1>7, ReadRefines DEF Stacks, Stacks68k!Stacks
  <1>8. CASE Translate
    BY <1>8, TranslateRefines DEF Stacks68k!vars
  <1>9. ASSUME NEW v \in Pointers,
               \/ WriteUSP(v) \/ SetA7(v) \/ Store(v)
               \/ \E m \in BOOLEAN : WriteSP(m, v)
        PROVE  Stacks68k!Next
    <2>1. "USP" \in Stacks68k!Stacks /\ \A m : Lane(m) \in Stacks68k!Stacks
      BY DEF Lane, Stacks68k!Stacks
    <2> QED BY <1>9, <2>1, SetRefines
  <1>10. CASE UNCHANGED vars
    <2>1. Pointer' = Pointer
      BY <1>10, PointerAt, PointerKept DEF vars
    <2> QED BY <1>10, <2>1 DEF vars, Stacks68k!vars
  <1> QED
    BY <1>1, <1>2, <1>3, <1>4, <1>5, <1>6, <1>7, <1>8, <1>9, <1>10 DEF Next

(* Whatever the guest does with S and M (except setting M by ORI to SR, see *)
(* the run stacks_ori), with its stacks and with its frames, the emulator's *)
(* A7, lanes and status register are those of a 68040: the refinement.      *)
THEOREM StacksImplemented ==
  ASSUME \A s \in OrSRs : "M" \notin s
  PROVE  Spec => ImplementsStacks
  <1>1. Init => Stacks68k!Init
    BY InitRefines
  <1>2. TypeOK /\ [Next]_vars => [Stacks68k!Next]_(Stacks68k!vars)
    BY StepRefines
  <1> QED
    BY <1>1, <1>2, StacksTypeCorrect, PTL
       DEF Spec, ImplementsStacks, Stacks68k!Spec
=============================================================================
