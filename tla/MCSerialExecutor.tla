--------------------------- MODULE MCSerialExecutor ---------------------------
EXTENDS SerialExecutor
MCConfig == [n \in ChunkId |-> 0]
MCPayloadLength == [n \in ChunkId |-> n % 2]
=============================================================================
