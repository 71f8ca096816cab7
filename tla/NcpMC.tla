------------------------------- MODULE NcpMC -------------------------------
(* An instance of Ncp for TLC: two clients, of which one connects at once and *)
(* the other registers its name first.                                        *)
EXTENDS Ncp

CONSTANTS c1, c2

RfsvName == "SYS$RFSV"
TwoServices == [c \in {c1, c2} |-> IF c = c1 THEN RfsvName ELSE "SYS$RPCS"]
=============================================================================
