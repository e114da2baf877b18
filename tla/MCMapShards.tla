----------------------------- MODULE MCMapShards -----------------------------
EXTENDS MapShards
MCKey == 1 .. 6
\* 2 and 3 collide in full, others in their bucket; 4's hash is a wide one.
MCHash == [k \in MCKey |-> CASE k = 3 -> 5 [] k = 2 -> 5 [] k = 4 -> 9 [] OTHER -> k]
Wide == 15
Narrow == 7
MCMaps == {[k \in S |-> -k] : S \in SUBSET MCKey}
MCMachines == {<<Wide, Wide>>, <<Narrow, Narrow>>, <<Wide, Narrow>>}
MCCases == {"map", "plain"} \X {"primitive", "flat", "deep"}
MCFlat == {<<"map", "flat">>}
MCDeep == {<<"map", "deep">>}
MCPlain == {<<"plain", "flat">>}
=============================================================================
