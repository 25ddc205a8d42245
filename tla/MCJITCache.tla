----------------------------- MODULE MCJITCache -----------------------------
(* A ROM word r and RAM words a and b; the unit at a covers all the RAM,   *)
(* its fingerprint only a.                                                 *)
EXTENDS JITCache, TLC

CONSTANTS a, b, r

MCSpan  == [x \in Addr |-> IF x = a THEN Addr \ Rom ELSE {x}]
MCFpSpan == [x \in Addr |-> IF x = a THEN {a} ELSE {}]
MCSetOf == [x \in Addr |-> 0]

SlotSymmetry == Permutations(Slot)
=============================================================================
