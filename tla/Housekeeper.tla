---------------------------- MODULE Housekeeper ----------------------------
(***************************************************************************)
(* ps_housekeeper, the loop of the core that watches the Amiga's lines:    *)
(* it copies the interrupt level from the IPL lines to INTF.IPL and        *)
(* restarts the board on a reset that is not the emulator's own.           *)
(*                                                                         *)
(* A level is the set of IPL lines that are asserted.  The lines of a new  *)
(* level change one after another, so a read may see a mixture of two      *)
(* levels.  The lines are read and looked at in two steps, and the core    *)
(* that executes the RESET instruction acts in between.                    *)
(***************************************************************************)
EXTENDS Integers, FiniteSets

CONSTANTS
    Line,       \* the IPL lines
    Level,      \* the levels the chipset requests
    MaxSkew     \* reads that may fall into one change of level

ASSUME HousekeeperAssumption ==
    /\ Level \subseteq SUBSET Line /\ Level # {}
    /\ MaxSkew \in Nat

VARIABLES
    req,        \* the level requested
    lines,      \* the IPL lines as they are
    user,       \* the reset of the keyboard is pressed
    drive,      \* CONTROL_DRIVE_RESET: the emulator holds the reset line
    pin,        \* the lines as read last; user is history
    prev,       \* pin_prev
    ipl,        \* INTF.IPL
    hk,         \* the housekeeper: "wait", "check" or "rebooted"
    skew,       \* reads since the level began to change
    seen,       \* the level was read since it last settled
    emu,        \* ps_send_reset: "run", "ignore", "drive" or "release"
    ignore,     \* ignore_reset
    slept       \* the housekeeper finished a pass since the release

amiga == <<req, lines, user>>
keeper == <<pin, prev, ipl, hk>>
reset == <<emu, drive, ignore, slept>>
vars == <<amiga, keeper, skew, seen, reset>>

Read == [ipl |-> lines, low |-> user \/ drive, user |-> user]

Init ==
    /\ req \in Level /\ lines = req
    /\ user = FALSE /\ drive = FALSE
    /\ pin = Read /\ prev = req /\ ipl = {} /\ hk = "wait"
    /\ skew = 0 /\ seen = TRUE
    /\ emu = "run" /\ ignore = FALSE /\ slept = FALSE

-----------------------------------------------------------------------------
(* The Amiga.  A level stays until it was read once: the chipset changes   *)
(* it more slowly than the housekeeper's loop runs.                        *)

Request(l) ==
    /\ lines = req /\ seen /\ l # req
    /\ req' = l /\ skew' = 0 /\ seen' = FALSE
    /\ UNCHANGED <<lines, user, keeper, reset>>

Settle(i) ==
    /\ i \in (lines \ req) \cup (req \ lines)
    /\ lines' = (lines \ {i}) \cup ({i} \cap req)
    /\ UNCHANGED <<req, user, keeper, skew, seen, reset>>

PressReset ==
    /\ user' = ~user
    /\ UNCHANGED <<req, lines, keeper, skew, seen, reset>>

-----------------------------------------------------------------------------
(* One pass of ps_housekeeper: read GPLEV0, then look at what was read.    *)

ReadPins ==
    /\ hk = "wait"
    /\ lines # req => skew < MaxSkew
    /\ pin' = Read /\ hk' = "check"
    /\ skew' = IF lines # req THEN skew + 1 ELSE skew
    /\ seen' = (lines = req)
    /\ UNCHANGED <<amiga, prev, ipl, reset>>

(* Mutants: no filter; the filter compares the other way; the mask that    *)
(* keeps the other pins out is dropped.                                    *)
ReportUnfiltered == ipl' = pin.ipl
ReportChanges == ipl' = IF pin.ipl = prev THEN ipl ELSE pin.ipl
KBRESET == 4
ReportPins == ipl' = IF pin.ipl = prev THEN pin.ipl \cup {KBRESET} ELSE ipl

(* INTF.IPL is updated "if and only if two subsequent IPL reads are the    *)
(* same".                                                                  *)
Report == ipl' = IF pin.ipl = prev THEN pin.ipl ELSE ipl

Check ==
    /\ hk = "check"
    /\ Report /\ prev' = pin.ipl
    /\ hk' = IF pin.low /\ ~ignore THEN "rebooted" ELSE "wait"
    /\ slept' = TRUE
    /\ UNCHANGED <<amiga, pin, skew, seen, emu, drive, ignore>>

-----------------------------------------------------------------------------
(* ps_send_reset, the RESET instruction.                                   *)

SetIgnore ==
    /\ emu = "run" /\ hk # "rebooted"
    /\ ignore' = TRUE /\ emu' = "ignore"
    /\ UNCHANGED <<amiga, keeper, skew, seen, drive, slept>>

DriveReset ==
    /\ emu = "ignore"
    /\ drive' = TRUE /\ emu' = "drive"
    /\ UNCHANGED <<amiga, keeper, skew, seen, ignore, slept>>

ClearReset ==
    /\ emu = "drive"
    /\ drive' = FALSE /\ slept' = FALSE /\ emu' = "release"
    /\ UNCHANGED <<amiga, keeper, skew, seen, ignore>>

(* Mutant: no wait between the release and the end of ignore_reset.        *)
EndAtOnce ==
    /\ emu = "release"
    /\ ignore' = FALSE /\ emu' = "run"
    /\ UNCHANGED <<amiga, keeper, skew, seen, drive, slept>>

(* After usleep(10000), time enough for a pass of the housekeeper.         *)
EndReset ==
    /\ emu = "release" /\ (slept \/ hk = "rebooted")
    /\ ignore' = FALSE /\ emu' = "run"
    /\ UNCHANGED <<amiga, keeper, skew, seen, drive, slept>>

-----------------------------------------------------------------------------
Amiga == (\E l \in Level : Request(l)) \/ PressReset
Skew == \E i \in Line : Settle(i)
Housekeeping == ReadPins \/ Check
SendReset == SetIgnore \/ DriveReset \/ ClearReset \/ EndReset

Next == Amiga \/ Skew \/ Housekeeping \/ SendReset

(* The loop of the core never ends, and lines settle.                      *)
Spec == Init /\ [][Next]_vars /\ WF_vars(Housekeeping) /\ WF_vars(Skew)

-----------------------------------------------------------------------------
TypeOK ==
    /\ req \in Level /\ lines \subseteq Line /\ user \in BOOLEAN /\ drive \in BOOLEAN
    /\ pin \in [ipl : SUBSET Line, low : BOOLEAN, user : BOOLEAN]
    /\ prev \subseteq Line /\ ipl \subseteq Line
    /\ hk \in {"wait", "check", "rebooted"} /\ skew \in 0 .. MaxSkew /\ seen \in BOOLEAN
    /\ emu \in {"run", "ignore", "drive", "release"}
    /\ ignore \in BOOLEAN /\ slept \in BOOLEAN

(* The main loop only gets to see levels that the chipset requested, never *)
(* the mixture of two: a false level would be taken as an interrupt.       *)
NoFalseLevel == ipl \in Level \cup {{}}

(* The RESET instruction resets the Amiga and not the board under it, in   *)
(* whatever order the two cores act: what restarted the board was read     *)
(* while the user pressed reset.                                           *)
OwnResetIgnored == hk = "rebooted" => pin.user

(* A level that stays is reported: otherwise an interrupt is never taken,  *)
(* or is taken again and again after it was served.                        *)
LevelArrives ==
    \A l \in Level : <>[](req = l /\ hk # "rebooted") => <>[](ipl = l)
=============================================================================
