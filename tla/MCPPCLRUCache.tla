--------------------------- MODULE MCPPCLRUCache ---------------------------
(* Four ways, 32-bit words, two sets, five addresses of set 0.             *)
EXTENDS PPCLRUCache

MCSetOf == [a \in Addr |-> 0]
=============================================================================
