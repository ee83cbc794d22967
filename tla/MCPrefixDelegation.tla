-------------------------- MODULE MCPrefixDelegation --------------------------
EXTENDS PrefixDelegation, TLC

CONSTANTS s1, s2, p1, p2

\* First two prefixes with different T1, then none.
MCGrants == 0 :> <<[t1 |-> 2, prefixes |-> {p1}], [t1 |-> 1, prefixes |-> {p2}]>> @@ 1 :> <<>>
=============================================================================
