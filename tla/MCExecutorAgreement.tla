-------------------------- MODULE MCExecutorAgreement --------------------------
EXTENDS ExecutorAgreement
\* Some jobs leave the compressor to the options, some ask for one themselves.
MCConfig == [n \in ChunkId |-> n % 2]
MCPayloadLength == [n \in ChunkId |-> n % 2]
=============================================================================
