------------------------- MODULE Housekeeper_proofs -------------------------
(***************************************************************************)
(* Proofs about Housekeeper for any lines and levels, with at most one     *)
(* read per change of level.                                               *)
(***************************************************************************)
EXTENDS Housekeeper, TLAPS

(* Initial states have the types, and every step keeps them.               *)
LEMMA TypeInit == Init => TypeOK
<1> SUFFICES ASSUME Init
             PROVE  TypeOK
  OBVIOUS
<1> USE HousekeeperAssumption DEF HousekeeperAssumption, Init
<1>1. Read \in [ipl : SUBSET Line, low : BOOLEAN, user : BOOLEAN]
  BY DEF Read
<1>2. skew \in 0 .. MaxSkew
  OBVIOUS
<1>3. req \in Level /\ lines \subseteq Line /\ prev \subseteq Line /\ ipl \subseteq Line
  OBVIOUS
<1> QED
  BY <1>1, <1>2, <1>3 DEF TypeOK

LEMMA TypeStep ==
  ASSUME TypeOK, [Next]_vars
  PROVE  TypeOK'
<1> USE HousekeeperAssumption
    DEF HousekeeperAssumption, TypeOK, amiga, keeper, reset
<1>1. ASSUME NEW l \in Level, Request(l)
      PROVE  TypeOK'
  <2>1. skew' = 0 /\ req' = l /\ seen' = FALSE
    BY <1>1 DEF Request
  <2>2. skew' \in 0 .. MaxSkew
    BY <2>1
  <2>3. UNCHANGED <<lines, user, keeper, reset>>
    BY <1>1 DEF Request
  <2> QED
    BY <2>1, <2>2, <2>3
<1>2. CASE PressReset
  BY <1>2 DEF PressReset
<1>3. ASSUME NEW i \in Line, Settle(i)
      PROVE  TypeOK'
  BY <1>3 DEF Settle
<1>4. CASE ReadPins
  <2>1. pin' \in [ipl : SUBSET Line, low : BOOLEAN, user : BOOLEAN]
    BY <1>4 DEF ReadPins, Read
  <2>2. skew' \in 0 .. MaxSkew
    BY <1>4 DEF ReadPins
  <2>3. seen' \in BOOLEAN
    BY <1>4 DEF ReadPins
  <2> QED
    BY <1>4, <2>1, <2>2, <2>3 DEF ReadPins
<1>5. CASE Check
  BY <1>5 DEF Check, Report
<1>6. CASE SendReset
  BY <1>6 DEF SendReset, SetIgnore, DriveReset, ClearReset, EndReset
<1>7. CASE UNCHANGED vars
  BY <1>7 DEF vars
<1> QED
  BY <1>1, <1>2, <1>3, <1>4, <1>5, <1>6, <1>7
  DEF Next, Amiga, Skew, Housekeeping

(* TypeOK: what the housekeeper stores in INTF.IPL are IPL lines only, for *)
(* every order of its passes and of the RESET instruction.                 *)
THEOREM HousekeeperTypeCorrect == Spec => []TypeOK
  BY TypeInit, TypeStep, PTL DEF Spec

-----------------------------------------------------------------------------
(***************************************************************************)
(* The filter.  A read that is no level was taken while lines changed, and *)
(* no other such read follows before the lines have settled and were read. *)
(***************************************************************************)
Transient == skew >= MaxSkew /\ ~seen

FilterInv ==
    /\ NoFalseLevel
    /\ hk = "wait" /\ prev \notin Level => Transient
    /\ hk = "check" /\ pin.ipl \notin Level => Transient /\ prev \in Level

LEMMA FilterStep ==
  ASSUME MaxSkew <= 1, TypeOK, FilterInv, [Next]_vars
  PROVE  FilterInv'
<1> USE HousekeeperAssumption
    DEF HousekeeperAssumption, FilterInv, NoFalseLevel, Transient, amiga, keeper, reset
<1>1. ASSUME NEW l \in Level, Request(l)
      PROVE  FilterInv'
  BY <1>1 DEF Request
<1>2. CASE PressReset
  BY <1>2 DEF PressReset
<1>3. ASSUME NEW i \in Line, Settle(i)
      PROVE  FilterInv'
  BY <1>3 DEF Settle
<1>4. CASE ReadPins
  <2>1. hk = "wait" /\ hk' = "check" /\ pin'.ipl = lines /\ UNCHANGED <<prev, ipl>>
    BY <1>4 DEF ReadPins, Read
  <2>2. CASE lines \in Level
    BY <2>1, <2>2
  <2>3. CASE lines \notin Level
    <3>1. lines # req /\ skew < MaxSkew
      BY <1>4, <2>3 DEF ReadPins, TypeOK
    <3>2. prev \in Level
      BY <2>1, <3>1 DEF TypeOK
    <3>3. skew' >= MaxSkew
      <4>1. skew' = skew + 1 /\ skew \in Nat
        BY <1>4, <3>1 DEF ReadPins, TypeOK
      <4> QED
        BY <3>1, <4>1
    <3>4. ~seen'
      BY <1>4, <3>1 DEF ReadPins
    <3> QED
      BY <2>1, <3>2, <3>3, <3>4
  <2> QED
    BY <2>2, <2>3
<1>5. CASE Check
  <2>1. hk = "check" /\ hk' # "check" /\ prev' = pin.ipl /\ UNCHANGED <<skew, seen>>
    BY <1>5 DEF Check
  <2>2. ipl' = IF pin.ipl = prev THEN pin.ipl ELSE ipl
    BY <1>5 DEF Check, Report
  <2> QED
    BY <2>1, <2>2
<1>6. CASE SendReset
  BY <1>6 DEF SendReset, SetIgnore, DriveReset, ClearReset, EndReset
<1>7. CASE UNCHANGED vars
  BY <1>7 DEF vars
<1> QED
  BY <1>1, <1>2, <1>3, <1>4, <1>5, <1>6, <1>7
  DEF Next, Amiga, Skew, Housekeeping

(* NoFalseLevel: comparing two reads is enough to keep mixtures of two     *)
(* levels from the main loop, for any number of lines that change in any   *)
(* order, if at most one read falls into a change (ps_housekeeper's        *)
(* comment on clock skew).                                                 *)
THEOREM LevelsAreRequested ==
  ASSUME MaxSkew <= 1
  PROVE  Spec => []NoFalseLevel
<1>1. Init => FilterInv
  BY DEF Init, FilterInv, NoFalseLevel
<1>2. TypeOK /\ FilterInv /\ [Next]_vars => FilterInv'
  BY FilterStep
<1>3. FilterInv => NoFalseLevel
  BY DEF FilterInv
<1> QED
  BY <1>1, <1>2, <1>3, HousekeeperTypeCorrect, PTL DEF Spec

-----------------------------------------------------------------------------
(***************************************************************************)
(* The reset.  ignore_reset is set as long as ps_send_reset runs, and what *)
(* was read while it drove the line is looked at before it ends.           *)
(***************************************************************************)
ResetInv ==
    /\ OwnResetIgnored
    /\ ignore <=> emu # "run"
    /\ drive => emu = "drive"
    /\ hk = "check" /\ pin.low /\ ~pin.user
          => ignore /\ (emu = "release" => ~slept)

LEMMA ResetStep ==
  ASSUME TypeOK, ResetInv, [Next]_vars
  PROVE  ResetInv'
<1> USE DEF ResetInv, OwnResetIgnored, amiga, keeper, reset
<1>1. ASSUME NEW l \in Level, Request(l)
      PROVE  ResetInv'
  BY <1>1 DEF Request
<1>2. CASE PressReset
  BY <1>2 DEF PressReset
<1>3. ASSUME NEW i \in Line, Settle(i)
      PROVE  ResetInv'
  BY <1>3 DEF Settle
<1>4. CASE ReadPins
  <2>1. /\ hk' = "check" /\ pin'.low = (user \/ drive) /\ pin'.user = user
        /\ UNCHANGED <<emu, drive, ignore, slept>>
    BY <1>4 DEF ReadPins, Read
  <2>2. pin'.low /\ ~pin'.user => emu = "drive"
    BY <2>1
  <2> QED
    BY <2>1, <2>2
<1>5. CASE Check
  <2>1. hk = "check" /\ UNCHANGED <<pin, emu, drive, ignore>>
    BY <1>5 DEF Check
  <2>2. hk' = IF pin.low /\ ~ignore THEN "rebooted" ELSE "wait"
    BY <1>5 DEF Check
  <2> QED
    BY <2>1, <2>2
<1>6. CASE SetIgnore
  BY <1>6 DEF SetIgnore
<1>7. CASE DriveReset
  BY <1>7 DEF DriveReset
<1>8. CASE ClearReset
  BY <1>8 DEF ClearReset
<1>9. CASE EndReset
  BY <1>9 DEF EndReset
<1>10. CASE UNCHANGED vars
  BY <1>10 DEF vars
<1> QED
  BY <1>1, <1>2, <1>3, <1>4, <1>5, <1>6, <1>7, <1>8, <1>9, <1>10
  DEF Next, Amiga, Skew, Housekeeping, SendReset

(* OwnResetIgnored: a restart of the board answers a reset the user        *)
(* pressed, never the line ps_send_reset itself drives or just released.   *)
THEOREM OwnResetNeverRestarts == Spec => []OwnResetIgnored
<1>1. Init => ResetInv
  BY DEF Init, ResetInv, OwnResetIgnored
<1>2. TypeOK /\ ResetInv /\ [Next]_vars => ResetInv'
  BY ResetStep
<1>3. ResetInv => OwnResetIgnored
  BY DEF ResetInv
<1> QED
  BY <1>1, <1>2, <1>3, HousekeeperTypeCorrect, PTL DEF Spec
=============================================================================
