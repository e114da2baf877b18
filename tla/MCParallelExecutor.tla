-------------------------- MODULE MCParallelExecutor --------------------------
EXTENDS ParallelExecutor
MCConfig == [n \in ChunkId |-> 0]
MCPayloadLength == [n \in ChunkId |-> n % 2]
=============================================================================
