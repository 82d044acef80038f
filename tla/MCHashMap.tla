------------------------------ MODULE MCHashMap ------------------------------
EXTENDS HashMap

\* k1 and k2 share a hash; k1 and k3 a bucket of 2; k3 and k4 one of 4; k4 is in
\* the last bucket of 2, 4 and 8.
SomeHashes ==
    [k \in Keys |-> CASE k = "k1" -> 1 [] k = "k2" -> 1 [] k = "k3" -> 3 [] OTHER -> 7]

=============================================================================
