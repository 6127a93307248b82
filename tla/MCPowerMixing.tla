--------------------------- MODULE MCPowerMixing ---------------------------
(***************************************************************************)
(* Four nodes, one of which is faulty or has processes that fail; three    *)
(* messages modulo 7, so that the last chunk is filled up.                 *)
(***************************************************************************)
EXTENDS PowerMixing, TLC

Nodes  == 0 .. 3
Jobs   == Nodes \X (1 .. K)
NodeOf == [q \in Jobs |-> q[1]]
Order  == [q \in Jobs |-> q[1] * K + q[2]]
Failing == {<<3, 1>>}

\* (The @@ makes TLC evaluate the functions once.)
Field   == 0 .. Modulus - 1
Lines2  == {[q \in Nodes |-> (u + w * Point(q)) % Modulus] @@ <<>> : u, w \in Field}
Origin  == [c \in Lines2 |-> (2 * c[0] - c[1]) % Modulus] @@ <<>>

Inputs  == {[a |-> <<2, 5, 5>>, b |-> <<3, 1, 6>>]}
Liars   == {{}, {3}}
SomeLies == {<<0, 0>>, Short}
=============================================================================
