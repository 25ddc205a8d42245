----------------------------- MODULE Interrupts -----------------------------
(***************************************************************************)
(* How an interrupt gets to the m68k main loop.  Four flags of the CPU     *)
(* state, read together as INT64, ask for it:                              *)
(*   IPL      the level of the Amiga's chipset, copied by the housekeeper  *)
(*            core (module Housekeeper);                                   *)
(*   ARM      a device of the ARM board, reported as EXTER, level 6: set   *)
(*            by the ARM interrupt handler or by a write to INTENA;        *)
(*   ARM_err  an SError, level 7;                                          *)
(*   PPC      a request of the PowerPC core, level 2.                      *)
(* The main loop reads them one by one at its head, while the other cores  *)
(* write them and the ARM interrupt handler runs in between.  A unit that  *)
(* loops, and STOP, look at INT64 themselves.  STOP sleeps in WFE, which   *)
(* ends when the event register of the core is set: by SEV of another core *)
(* and by the return from an ARM exception.                                *)
(*                                                                         *)
(* Writes of one core are seen by the others at once and in order.         *)
(***************************************************************************)
EXTENDS Integers, SequencesExt

CONSTANTS
    ChipLevel,  \* levels the chipset requests, and 0
    Mask,       \* values the guest writes to the IPL field of SR
    MaxErrors,  \* bound on the SErrors explored
    MaxFrames   \* the guest changes SR below this depth of nesting only

ASSUME InterruptsAssumption ==
    /\ 0 \in ChipLevel /\ ChipLevel \subseteq 0 .. 7
    /\ Mask \subseteq 0 .. 7 /\ MaxErrors \in Nat /\ MaxFrames \in Nat

VARIABLES
    hk,         \* the housekeeper: "report" or "sev"
    ppc,        \* the PowerPC core's mtspr: "run" or "sev"
    device,     \* the interrupt line of the ARM devices
    errors,     \* SErrors so far
    intf,       \* INTF: the flags ARM, ARM_err, IPL and PPC
    intena,     \* INTEN and EXTER are set in INT_shadow.INTENA
    pending,    \* INT_shadow.ARMPending
    irqMasked,  \* DAIF.I of the m68k core
    errMasked,  \* DAIF.A of the m68k core
    event,      \* the event register of the m68k core
    phase,      \* where the m68k core is
    level,      \* the level found at the head of the main loop
    mask,       \* the IPL field of SR
    frames      \* the masks saved in the exception frames

outside == <<hk, ppc, device, errors>>
shadow  == <<intena, pending>>
daif    == <<irqMasked, errMasked>>
core    == <<phase, level, mask, frames>>
vars    == <<outside, intf, shadow, daif, event, core>>

Flags == [ARM : BOOLEAN, ARM_err : BOOLEAN, IPL : ChipLevel, PPC : BOOLEAN]

INT64 == intf.ARM \/ intf.ARM_err \/ intf.PPC \/ intf.IPL # 0

Init ==
    /\ hk = "report" /\ ppc = "run" /\ device = FALSE /\ errors = 0
    /\ intf = [ARM |-> FALSE, ARM_err |-> FALSE, IPL |-> 0, PPC |-> FALSE]
    /\ intena = FALSE /\ pending = FALSE
    /\ irqMasked = TRUE /\ errMasked = TRUE /\ event = FALSE
    /\ phase = "head" /\ level = 0 /\ mask = 7 /\ frames = <<>>

-----------------------------------------------------------------------------
(* The other cores                                                         *)

(* Mutant: the other pins are not masked out.                              *)
ReportPins(l) ==
    /\ hk = "report" /\ hk' = "sev"
    /\ intf' = [intf EXCEPT !.IPL = l + 8]
    /\ UNCHANGED <<ppc, device, errors, shadow, daif, event, core>>

(* ps_housekeeper: store the level, then wake up the m68k core.            *)
ReportIPL(l) ==
    /\ hk = "report" /\ hk' = "sev"
    /\ intf' = [intf EXCEPT !.IPL = l]
    /\ UNCHANGED <<ppc, device, errors, shadow, daif, event, core>>

HousekeeperSEV ==
    /\ hk = "sev" /\ hk' = "report"
    /\ event' = (event \/ intf.IPL # 0)
    /\ UNCHANGED <<ppc, device, errors, intf, shadow, daif, core>>

(* mtspr 921 on the PowerPC core: store the flag, then wake up.            *)
PPCRequest ==
    /\ ppc = "run" /\ ppc' = "sev"
    /\ intf' = [intf EXCEPT !.PPC = TRUE]
    /\ UNCHANGED <<hk, device, errors, shadow, daif, event, core>>

PPCSEV ==
    /\ ppc = "sev" /\ ppc' = "run"
    /\ event' = TRUE
    /\ UNCHANGED <<hk, device, errors, intf, shadow, daif, core>>

(* A device raises its line until the guest serves it.                     *)
DeviceRequest ==
    /\ ~device /\ device' = TRUE
    /\ UNCHANGED <<hk, ppc, errors, intf, shadow, daif, event, core>>

-----------------------------------------------------------------------------
(* Exceptions of the m68k core: curr_el_spx_irq, curr_el_spx_serror        *)

(* Mutant: INTENA is not looked at.                                        *)
IRQAlways ==
    /\ device /\ ~irqMasked
    /\ irqMasked' = TRUE /\ pending' = TRUE /\ event' = TRUE
    /\ intf' = [intf EXCEPT !.ARM = TRUE]
    /\ UNCHANGED <<outside, intena, errMasked, core>>

(* The handler returns with interrupts masked: the line is still active.   *)
IRQ ==
    /\ device /\ ~irqMasked
    /\ irqMasked' = TRUE /\ pending' = TRUE /\ event' = TRUE
    /\ intf' = [intf EXCEPT !.ARM = @ \/ intena]
    /\ UNCHANGED <<outside, intena, errMasked, core>>

SError ==
    /\ errors < MaxErrors /\ ~errMasked
    /\ errors' = errors + 1
    /\ irqMasked' = TRUE /\ errMasked' = TRUE /\ event' = TRUE
    /\ intf' = [intf EXCEPT !.ARM_err = TRUE]
    /\ UNCHANGED <<hk, ppc, device, shadow, core>>

-----------------------------------------------------------------------------
(* The head of the main loop                                               *)

Goto(p) == phase' = p /\ UNCHANGED <<mask, frames>>

outer == <<outside, shadow, daif, event>>

LookAtINT64 ==
    /\ phase = "head" /\ level' = 0
    /\ Goto(IF INT64 THEN "err" ELSE "unit")
    /\ UNCHANGED <<outer, intf>>

TestErr ==
    /\ phase = "err"
    /\ intf' = [intf EXCEPT !.ARM_err = FALSE]
    /\ IF intf.ARM_err THEN level' = 7 /\ Goto("mask")
                       ELSE Goto("arm") /\ UNCHANGED level
    /\ UNCHANGED outer

TestARM ==
    /\ phase = "arm"
    /\ IF intf.ARM THEN level' = 6 /\ Goto("ipl") ELSE Goto("ppc") /\ UNCHANGED level
    /\ UNCHANGED <<outer, intf>>

TestPPC ==
    /\ phase = "ppc"
    /\ level' = (IF intf.PPC THEN 2 ELSE 0) /\ Goto("ipl")
    /\ UNCHANGED <<outer, intf>>

(* Mutant: the chipset's level replaces the one found so far.              *)
TestIPLAlways ==
    /\ phase = "ipl"
    /\ level' = (IF intf.IPL # 0 THEN intf.IPL ELSE level) /\ Goto("mask")
    /\ UNCHANGED <<outer, intf>>

TestIPL ==
    /\ phase = "ipl"
    /\ level' = (IF intf.IPL > level THEN intf.IPL ELSE level) /\ Goto("mask")
    /\ UNCHANGED <<outer, intf>>

Taken == level = 7 \/ level > mask

(* Push a frame, enter the handler.  A masked interrupt is left alone.     *)
TestMask ==
    /\ phase = "mask" /\ phase' = "unit" /\ level' = 0
    /\ IF Taken THEN mask' = level /\ frames' = Append(frames, mask)
                ELSE UNCHANGED <<mask, frames>>
    /\ UNCHANGED <<outer, intf>>

-----------------------------------------------------------------------------
(* What the guest does in a unit                                           *)

EndUnit ==
    /\ phase = "unit" /\ Goto("head")
    /\ UNCHANGED <<outer, intf, level>>

EnterLoop ==
    /\ phase = "unit" /\ Goto("loop")
    /\ UNCHANGED <<outer, intf, level>>

(* Mutant: the end of a loop looks at the flag of the chipset only.        *)
LoopTestIPL ==
    /\ phase = "loop" /\ intf.IPL # 0 /\ Goto("head")
    /\ UNCHANGED <<outer, intf, level>>

(* A unit that loops leaves for the main loop when INT64 is not 0.         *)
LoopTest ==
    /\ phase = "loop" /\ INT64 /\ Goto("head")
    /\ UNCHANGED <<outer, intf, level>>

ServeDevice ==
    /\ phase = "unit" /\ device /\ device' = FALSE
    /\ UNCHANGED <<hk, ppc, errors, intf, shadow, daif, event, core>>

(* Writes to INTENA and, clearing EXTER, to INTREQ.                        *)
WriteINTENA(on) ==
    /\ phase = "unit" /\ intena' = on
    /\ intf' = [intf EXCEPT !.ARM = IF pending THEN on ELSE @]
    /\ UNCHANGED <<outside, pending, daif, event, core>>

WriteINTREQ ==
    /\ phase = "unit" /\ pending' = FALSE
    /\ intf' = [intf EXCEPT !.ARM = FALSE]
    /\ UNCHANGED <<outside, intena, daif, event, core>>

(* MOVEC to JITCTRL2, bits 30 and 29.                                      *)
ClearPPC ==
    /\ phase = "unit"
    /\ intf' = [intf EXCEPT !.PPC = FALSE]
    /\ UNCHANGED <<outside, shadow, daif, event, core>>

ClearARM ==
    /\ phase = "unit"
    /\ intf' = [intf EXCEPT !.ARM = FALSE]
    /\ UNCHANGED <<outside, shadow, daif, event, core>>

(* Every write to SR sets DAIF: ARM interrupts are enabled below IPL 6.    *)
SetSR(m) == mask' = m /\ irqMasked' = (m > 5) /\ errMasked' = (m > 5)

WriteSR(m) ==
    /\ phase = "unit" /\ Len(frames) < MaxFrames
    /\ phase' = "head" /\ SetSR(m)
    /\ UNCHANGED <<outside, intf, shadow, event, level, frames>>

RTE ==
    /\ phase = "unit" /\ frames # <<>> /\ phase' = "head"
    /\ SetSR(Last(frames)) /\ frames' = Front(frames)
    /\ UNCHANGED <<outside, intf, shadow, event, level>>

STOP(m) ==
    /\ phase = "unit" /\ Len(frames) < MaxFrames
    /\ phase' = "stop" /\ SetSR(m)
    /\ UNCHANGED <<outside, intf, shadow, event, level, frames>>

StopTest ==
    /\ phase = "stop"
    /\ Goto(IF INT64 THEN "head" ELSE "wfe")
    /\ UNCHANGED <<outer, intf, level>>

WFE ==
    /\ phase = "wfe" /\ event /\ event' = FALSE
    /\ Goto("stop")
    /\ UNCHANGED <<outside, shadow, daif, intf, level>>

-----------------------------------------------------------------------------
OtherCores == \/ \E l \in ChipLevel : ReportIPL(l)
              \/ HousekeeperSEV \/ PPCRequest \/ PPCSEV \/ DeviceRequest

MainLoop == LookAtINT64 \/ TestErr \/ TestARM \/ TestPPC \/ TestIPL \/ TestMask

Guest == \/ EndUnit \/ EnterLoop \/ ServeDevice \/ WriteINTREQ \/ ClearPPC \/ ClearARM
         \/ \E on \in BOOLEAN : WriteINTENA(on)
         \/ \E m \in Mask : WriteSR(m) \/ STOP(m)
         \/ RTE

Waiting == LoopTest \/ StopTest \/ WFE

Next == OtherCores \/ IRQ \/ SError \/ MainLoop \/ Guest \/ Waiting

(* The core executes the main loop and a waiting unit, the other cores     *)
(* finish what they began.  Of the guest's program nothing is assumed.     *)
Spec == Init /\ [][Next]_vars
        /\ WF_vars(MainLoop) /\ WF_vars(Waiting)
        /\ WF_vars(HousekeeperSEV) /\ WF_vars(PPCSEV)

-----------------------------------------------------------------------------
TypeOK ==
    /\ hk \in {"report", "sev"} /\ ppc \in {"run", "sev"}
    /\ device \in BOOLEAN /\ errors \in 0 .. MaxErrors
    /\ intf \in Flags
    /\ intena \in BOOLEAN /\ pending \in BOOLEAN
    /\ irqMasked \in BOOLEAN /\ errMasked \in BOOLEAN /\ event \in BOOLEAN
    /\ phase \in {"head", "err", "arm", "ppc", "ipl", "mask", "unit", "loop", "stop", "wfe"}
    /\ level \in 0 .. 7 /\ mask \in 0 .. 7 /\ frames \in Seq(0 .. 7)

(* Level 6 for a device is asserted only while the guest has INTEN and     *)
(* EXTER enabled and reads EXTER in INTREQR: else the guest's handler      *)
(* finds no cause, and returns to be interrupted again.                    *)
DeviceLevelIsJustified == intf.ARM => intena /\ pending

(* A flag raised for a unit that loops or for STOP ends the wait: no       *)
(* wake-up is lost between the test of INT64 and WFE.                      *)
PendingEndsWait ==
    (phase \in {"loop", "stop", "wfe"} /\ INT64) ~> (phase = "head" \/ ~INT64)

(* A guest that keeps coming back to the main loop with a mask below 6     *)
(* gets the interrupt of a device, unless it takes the request back: no    *)
(* other source of interrupts, seen first, makes the loop forget it.       *)
DeviceLevelIsTaken ==
    []<>(phase = "head" /\ mask < 6) =>
       (intf.ARM ~> (~intf.ARM \/ (frames # <<>> /\ mask >= 6)))

=============================================================================
