--------------------------- MODULE MCHousekeeper ---------------------------
(* Levels 0, 3 and 4 on three lines: from 3 to 4 every line changes, and   *)
(* each other level may appear on the way.                                 *)
EXTENDS Housekeeper

MCLevel == {{}, {0, 1}, {2}}
=============================================================================
