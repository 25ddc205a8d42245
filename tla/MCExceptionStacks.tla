------------------------- MODULE MCExceptionStacks -------------------------
EXTENDS ExceptionStacks

SomePointers == {4}
SomeSRs == {{"I"}, {"S", "T"}, {"S", "M", "b0"}}
NoMaster == {s \in SomeSRs : "M" \notin s}
=============================================================================
