---------------------------- MODULE MCGraphToken ----------------------------
(* Small instances of GraphToken: a server with one or two workers and runs *)
(* of mailcart_token beside it.                                             *)
EXTENDS GraphToken, TLC

CONSTANTS api, cli, w1, w2, c1

MCProcOf == [t \in Threads |-> IF t = c1 THEN cli ELSE api]

\* The session of grant 1 or none.
Seeded == [access |-> 1, refresh |-> 1, exp |-> 1]
CacheSeeded == {Seeded}
CacheOrNot == {Seeded, NoSession}

\* The two workers of the server are interchangeable.
WorkerSymmetry == Permutations({w1, w2})

NoTokens == {}
AllGrants == Grants
=============================================================================
