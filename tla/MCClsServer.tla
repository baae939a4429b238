---------------------------- MODULE MCClsServer -----------------------------
EXTENDS ClsServer, TLC

MCMsgKind == [m \in 0 .. MaxMessages - 1 |->
                IF m % 2 = 0 THEN "GetVolt" ELSE "GetCount"]

\* Connections are alike.
Symmetry == Permutations(Conns)
=============================================================================
