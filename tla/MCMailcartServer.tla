-------------------------- MODULE MCMailcartServer --------------------------
(* Two starts of the server, of which the first may ask 1psa: its main       *)
(* thread before it serves, its two workers afterwards.                      *)
EXTENDS MailcartServer

CONSTANTS p1, p2, m1, m2, k1, k2

MCMain == [s \in {p1, p2} |-> IF s = p1 THEN m1 ELSE m2]
MCProcOf == [t \in {m1, k1, k2} |-> p1]
=============================================================================
