---------------------------- MODULE StackFrames ----------------------------
(* The status register of the 68040 and the frames its exceptions leave on  *)
(* a stack, as both the architecture (SupervisorStacks) and the emulator    *)
(* (ExceptionStacks) see them in guest memory.                              *)
(*                                                                          *)
(* A value of the status register is the set of its bits that are one:      *)
(* "S" supervisor, "M" master, "T" trace, "I" the interrupt level raised,   *)
(* "b0" and "b1" the two lowest bits. Addresses count longwords.            *)
EXTENDS Integers

Bits == {"S", "M", "T", "I", "b0", "b1"}
Stacks == {"USP", "ISP", "MSP"}

(* Frames of format 0 and 2 are what the emulator pushes and RTE accepts;   *)
(* "other" is any other format word found where a frame should be.          *)
Formats == {"f0", "f2", "other"}
Frames == [sr : SUBSET Bits, format : Formats]

(* Longwords of a frame: SR, PC and format word, and an address in format 2.*)
Size(f) == IF f = "f2" THEN 3 ELSE 2

(* Memory keeps the frame pushed last and its address, until something is   *)
(* stored over it. A read elsewhere finds whatever frame the guest may have *)
(* written there.                                                           *)
Empty == [at |-> {}, frame |-> [sr |-> {}, format |-> "other"]]
Pushed(a, f) == [at |-> {a}, frame |-> f]
Stored(mem, a) == IF a \in mem.at \/ a - 1 \in mem.at THEN Empty ELSE mem
FramesAt(mem, a, Written) == IF a \in mem.at THEN {mem.frame} ELSE Written
=============================================================================
