-------------------------- MODULE Interrupts_proofs --------------------------
(***************************************************************************)
(* Proofs about the interrupt flags of Interrupts, for any levels of the   *)
(* chipset, any masks the guest writes and any depth of nesting.           *)
(***************************************************************************)
EXTENDS Interrupts, SequenceTheorems, TLAPS

(* Writing one byte of INTF leaves flags.                                  *)
LEMMA FlagWritten ==
    ASSUME intf \in Flags, NEW b \in BOOLEAN, NEW l \in ChipLevel
    PROVE  /\ [intf EXCEPT !.ARM = b] \in Flags
           /\ [intf EXCEPT !.ARM_err = b] \in Flags
           /\ [intf EXCEPT !.PPC = b] \in Flags
           /\ [intf EXCEPT !.IPL = l] \in Flags
           /\ intf.ARM \in BOOLEAN
           /\ intf.IPL \in ChipLevel
  BY DEF Flags

(* The flags and masks keep their types.  The chipset's level is 3 bits    *)
(* wide, so the level taken fits the IPL field of SR.                      *)
LEMMA TypeStep ==
    ASSUME TypeOK, [Next]_vars
    PROVE  TypeOK'
<1> USE InterruptsAssumption DEF TypeOK
<1>1. ASSUME NEW l \in ChipLevel, ReportIPL(l) PROVE TypeOK'
  BY <1>1, FlagWritten DEF ReportIPL, shadow, daif, core
<1>2. CASE HousekeeperSEV
  <2>1. event' \in BOOLEAN
    BY <1>2 DEF HousekeeperSEV
  <2>2. hk' \in {"report", "sev"}
    BY <1>2 DEF HousekeeperSEV
  <2>3. UNCHANGED <<ppc, device, errors, intf, intena, pending, irqMasked, errMasked,
                    phase, level, mask, frames>>
    BY <1>2 DEF HousekeeperSEV, shadow, daif, core
  <2> QED BY <2>1, <2>2, <2>3
<1>3. CASE PPCRequest \/ PPCSEV \/ DeviceRequest
  <2>1. CASE PPCRequest
    <3>1. intf' \in Flags
      BY <2>1, FlagWritten DEF PPCRequest
    <3> QED BY <2>1, <3>1 DEF PPCRequest, shadow, daif, core
  <2>2. CASE PPCSEV
    BY <2>2 DEF PPCSEV, shadow, daif, core
  <2>3. CASE DeviceRequest
    BY <2>3 DEF DeviceRequest, shadow, daif, core
  <2> QED BY <1>3, <2>1, <2>2, <2>3
<1>4. CASE IRQ \/ SError
  <2>1. CASE IRQ
    <3>1. (intf.ARM \/ intena) \in BOOLEAN
      OBVIOUS
    <3>2. intf' \in Flags
      BY <2>1, <3>1, FlagWritten DEF IRQ
    <3>3. pending' \in BOOLEAN /\ irqMasked' \in BOOLEAN /\ event' \in BOOLEAN
      BY <2>1 DEF IRQ
    <3>4. UNCHANGED <<hk, ppc, device, errors, intena, errMasked, phase, level, mask, frames>>
      BY <2>1 DEF IRQ, outside, core
    <3> QED BY <3>2, <3>3, <3>4
  <2>2. CASE SError
    <3>1. errors' \in 0 .. MaxErrors
      BY <2>2, InterruptsAssumption DEF SError, InterruptsAssumption
    <3>2. intf' \in Flags
      BY <2>2, FlagWritten DEF SError
    <3> QED BY <2>2, <3>1, <3>2 DEF SError, shadow, core
  <2> QED BY <1>4, <2>1, <2>2
<1>5. CASE MainLoop
  <2> USE DEF outer, outside, shadow, daif, Goto
  <2>1. CASE LookAtINT64
    BY <2>1 DEF LookAtINT64
  <2>2. CASE TestErr
    <3>1. intf' \in Flags
      BY <2>2, FlagWritten DEF TestErr
    <3>2. level' \in 0 .. 7 /\ phase' \in {"mask", "arm"} /\ UNCHANGED <<mask, frames>>
      BY <2>2 DEF TestErr
    <3>3. UNCHANGED <<hk, ppc, device, errors, intena, pending, irqMasked, errMasked, event>>
      BY <2>2 DEF TestErr
    <3> QED BY <3>1, <3>2, <3>3
  <2>3. CASE TestARM \/ TestPPC
    BY <2>3 DEF TestARM, TestPPC
  <2>4. CASE TestIPL
    BY <2>4, FlagWritten DEF TestIPL, InterruptsAssumption
  <2>5. CASE TestMask
    <3>1. Append(frames, mask) \in Seq(0 .. 7)
      BY AppendProperties
    <3> QED BY <2>5, <3>1 DEF TestMask
  <2> QED BY <1>5, <2>1, <2>2, <2>3, <2>4, <2>5 DEF MainLoop
<1>6. CASE Guest
  <2> USE DEF outside, shadow, daif, core
  <2>1. CASE EndUnit \/ EnterLoop
    BY <2>1 DEF EndUnit, EnterLoop, Goto, outer
  <2>2. CASE ServeDevice
    BY <2>2 DEF ServeDevice
  <2>3. CASE WriteINTREQ
    BY <2>3, FlagWritten DEF WriteINTREQ
  <2>4. ASSUME NEW on \in BOOLEAN, WriteINTENA(on) PROVE TypeOK'
    <3>1. (IF pending THEN on ELSE intf.ARM) \in BOOLEAN
      BY FlagWritten
    <3>2. intf' \in Flags
      BY <2>4, <3>1, FlagWritten DEF WriteINTENA
    <3>3. intena' \in BOOLEAN
      BY <2>4 DEF WriteINTENA
    <3>4. UNCHANGED <<hk, ppc, device, errors, pending, irqMasked, errMasked, event,
                      phase, level, mask, frames>>
      BY <2>4 DEF WriteINTENA, outside, daif, core
    <3> QED BY <3>2, <3>3, <3>4
  <2>5. CASE ClearPPC \/ ClearARM
    BY <2>5, FlagWritten DEF ClearPPC, ClearARM
  <2>6. CASE \E m \in Mask : WriteSR(m) \/ STOP(m)
    <3>1. PICK m \in Mask : WriteSR(m) \/ STOP(m)
      BY <2>6
    <3>2. m \in 0 .. 7 /\ (m > 5) \in BOOLEAN
      BY InterruptsAssumption DEF InterruptsAssumption
    <3> QED BY <3>1, <3>2 DEF WriteSR, STOP, SetSR
  <2>7. CASE RTE
    <3>1. frames # <<>> /\ Len(frames) \in Nat /\ Len(frames) # 0
      BY <2>7, EmptySeq DEF RTE
    <3>2. Last(frames) \in 0 .. 7
      BY <3>1, ElementOfSeq DEF Last
    <3>3. Front(frames) \in Seq(0 .. 7)
      BY <3>1, SubSeqProperties DEF Front
    <3> QED BY <2>7, <3>2, <3>3 DEF RTE, SetSR
  <2> QED BY <1>6, <2>1, <2>2, <2>3, <2>4, <2>5, <2>6, <2>7 DEF Guest
<1>7. CASE Waiting
  BY <1>7 DEF Waiting, LoopTest, StopTest, WFE, Goto, outer, outside, shadow, daif
<1>8. CASE UNCHANGED vars
  BY <1>8 DEF vars, outside, shadow, daif, core
<1> QED BY <1>1, <1>2, <1>3, <1>4, <1>5, <1>6, <1>7, <1>8 DEF Next, OtherCores

(* Type correctness of the interrupt flags, the DAIF bits, the main loop's *)
(* place and the masks saved in the exception frames.                      *)
THEOREM InterruptsTypeCorrect == Spec => []TypeOK
<1>1. Init => TypeOK
  <2> SUFFICES ASSUME Init PROVE TypeOK
    OBVIOUS
  <2>1. 0 \in ChipLevel /\ MaxErrors \in Nat
    BY InterruptsAssumption DEF InterruptsAssumption
  <2>2. intf \in Flags
    BY <2>1 DEF Init, Flags
  <2>3. frames \in Seq(0 .. 7)
    BY DEF Init
  <2>4. phase = "head" /\ hk = "report" /\ ppc = "run" /\ errors = 0 /\ level = 0 /\ mask = 7
    BY DEF Init
  <2>5. /\ device \in BOOLEAN /\ intena \in BOOLEAN /\ pending \in BOOLEAN
        /\ irqMasked \in BOOLEAN /\ errMasked \in BOOLEAN /\ event \in BOOLEAN
    BY DEF Init
  <2> QED BY <2>1, <2>2, <2>3, <2>4, <2>5 DEF TypeOK
<1> QED BY <1>1, TypeStep, PTL DEF Spec

(* A step that sets INTF.ARM finds the device pending and enabled, and one *)
(* that takes either back clears INTF.ARM too: the ARM handler and the     *)
(* writes to INTENA and INTREQ share the flag.                             *)
THEOREM DeviceLevelJustified == Spec => []DeviceLevelIsJustified
<1> USE DEF DeviceLevelIsJustified
<1>1. Init => DeviceLevelIsJustified
  BY DEF Init
<1>2. ASSUME TypeOK, DeviceLevelIsJustified, [Next]_vars
      PROVE  DeviceLevelIsJustified'
  <2> USE DEF TypeOK, Flags
  <2>1. CASE OtherCores
    BY <1>2, <2>1 DEF OtherCores, ReportIPL, HousekeeperSEV, PPCRequest, PPCSEV,
                      DeviceRequest, shadow
  <2>2. CASE IRQ \/ SError
    BY <1>2, <2>2 DEF IRQ, SError, shadow
  <2>3. CASE MainLoop
    BY <1>2, <2>3 DEF MainLoop, LookAtINT64, TestErr, TestARM, TestPPC, TestIPL, TestMask,
                      outer, shadow
  <2>4. CASE Guest
    <3>1. CASE \E on \in BOOLEAN : WriteINTENA(on)
      BY <1>2, <3>1 DEF WriteINTENA
    <3>2. CASE WriteINTREQ \/ ClearPPC \/ ClearARM
      BY <1>2, <3>2 DEF WriteINTREQ, ClearPPC, ClearARM, shadow
    <3>3. CASE EndUnit \/ EnterLoop \/ ServeDevice \/ RTE
               \/ \E m \in Mask : WriteSR(m) \/ STOP(m)
      BY <1>2, <3>3 DEF EndUnit, EnterLoop, ServeDevice, RTE, WriteSR, STOP, outer, shadow
    <3> QED BY <2>4, <3>1, <3>2, <3>3 DEF Guest
  <2>5. CASE Waiting
    BY <1>2, <2>5 DEF Waiting, LoopTest, StopTest, WFE, outer, shadow
  <2>6. CASE UNCHANGED vars
    BY <1>2, <2>6 DEF vars, shadow
  <2> QED BY <1>2, <2>1, <2>2, <2>3, <2>4, <2>5, <2>6 DEF Next
<1> QED BY <1>1, <1>2, InterruptsTypeCorrect, PTL DEF Spec
=============================================================================
