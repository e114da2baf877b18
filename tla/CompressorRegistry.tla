-------------------------- MODULE CompressorRegistry --------------------------
(***************************************************************************)
(* The compressors of a build, by id.  An executor compresses with one, the *)
(* reader decompresses with the one the chunk's MetaByte names: each has a  *)
(* registry of its own, and they need not hold the same compressors.       *)
(***************************************************************************)
EXTENDS Naturals, Sequences

NoAlgorithm == 256      \* Option::None; an id is a byte

EmptyRegistry == [i \in 0 .. 7 |-> NoAlgorithm]

\* register: a compressor goes to the slot of its id, the table growing to it.
Register(registry, id) ==
  [i \in DOMAIN registry \cup 0 .. id |->
     IF i = id THEN id ELSE IF i \in DOMAIN registry THEN registry[i] ELSE NoAlgorithm]

NewRegistry(lz4_flex) == LET plain == Register(EmptyRegistry, 0)
                         IN IF lz4_flex THEN Register(plain, 1) ELSE plain

Registered(registry, id) == id \in DOMAIN registry /\ registry[id] # NoAlgorithm

(***************************************************************************)
(* A byte of a payload remembers the data it is part of and the compressor *)
(* that made it.  Only that compressor gives the data back: another one     *)
(* fails or returns bytes nobody saved.                                    *)
(***************************************************************************)
Compressed(data, id, length) == [i \in 1 .. length |-> <<"payload", i, [of |-> data, by |-> id]>>]

Failed  == [status |-> "err", value |-> <<>>]
Garbage == [status |-> "garbage", value |-> <<>>]
Success(value) == [status |-> "ok", value |-> value]
Ok(result) == result.status = "ok"

Decompress(registry, id, raw) ==
  IF ~Registered(registry, id) THEN Failed
  ELSE IF \A i \in DOMAIN raw : raw[i][1] = "payload" /\ raw[i][3].by = registry[id]
    THEN Success(raw) ELSE Garbage
=============================================================================
