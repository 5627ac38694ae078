--------------------------- MODULE MCRJTcpServer ---------------------------
(* RJTcpServer for TLC: addresses are interchangeable. *)
EXTENDS RJTcpServer, TLC

AddrSymmetry == Permutations(Addrs)
=============================================================================
