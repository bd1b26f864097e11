----------------------------- MODULE MCPrintGateway -----------------------------
\* Values for the constants of PrintGateway: m1 and m2 are messages of a user on
\* the whitelist, m3 is a message of a user who is not.
EXTENDS PrintGateway, TLC

CONSTANTS m1, m2, m3, alice, mallory

MCUserOf == [m \in MsgIDs |-> IF m = m3 THEN mallory ELSE alice]

\* Goroutines are interchangeable.
Symmetry == Permutations(Calls)
=============================================================================
