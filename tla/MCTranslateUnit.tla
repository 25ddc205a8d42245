--------------------------- MODULE MCTranslateUnit ---------------------------
(* Every program of four words in which each word is one of a few          *)
(* instructions.                                                           *)
EXTENDS TranslateUnit

CONSTANT Branches   \* the branch instructions used

MCInsn == [op : Branches \ {"dbcc"}, len : {1}, target : Word]
            \cup [op : Branches \cap {"dbcc"}, len : {2}, target : Word]
            \cup [op : {"plain"}, len : 1 .. 2, target : {0}]
            \cup [op : {"rts", "stop"}, len : {1}, target : {0}]

MCProgram == [Word -> MCInsn]
=============================================================================
