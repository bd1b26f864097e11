------------------------------- MODULE MCPrintJobs -------------------------------
\* Batches for PrintJobs: b1 has two contents, b2 has one; another customer's.
EXTENDS PrintJobs, TLC

CONSTANTS b1, b2, m1, m2, m3, alice, bob

MCContents == [b \in Batches |-> IF b = b1 THEN <<m1, m2>> ELSE <<m3>>]
MCShort    == [b \in Batches |-> IF b = b1 THEN <<m1>> ELSE <<m3>>]
MCCustomer == [b \in Batches |-> IF b = b1 THEN alice ELSE bob]

\* Swaps the two batches of MCShort with all that is theirs.
MCSymmetry == {p \in Permutations({b1, b2, m1, m3}) :
                 p \in {b1 :> b1 @@ b2 :> b2 @@ m1 :> m1 @@ m3 :> m3,
                        b1 :> b2 @@ b2 :> b1 @@ m1 :> m3 @@ m3 :> m1}}
=============================================================================
