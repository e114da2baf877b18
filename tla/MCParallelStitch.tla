--------------------------- MODULE MCParallelStitch ---------------------------
EXTENDS ParallelStitch
Run(count, times) == [item_count |-> count, repeat |-> times]
\* No shard, one, several alike, and a shorter one at the end.
MCRuns == { <<>>, <<Run(2, 1)>>, <<Run(2, 2)>>, <<Run(2, 1), Run(1, 1)>>,
            <<Run(2, 2), Run(1, 1)>>, <<Run(1, 3)>> }
=============================================================================
