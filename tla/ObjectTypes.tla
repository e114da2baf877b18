----------------------------- MODULE ObjectTypes -----------------------------
(***************************************************************************)
(* The types an object is made of, and its parts as the visitors meet      *)
(* them: which are chunks of their own, which are written whole, and the    *)
(* configuration each is stored with.                                      *)
(*                                                                         *)
(* A type is a record, a field its type with its `#[parcode]` attribute.    *)
(* A value of a structure is the sequence of its fields' values, one of a   *)
(* vector or of a map the sequence of its items: keys are 1, 2, ...         *)
(***************************************************************************)
EXTENDS SequencesExt, Integers

CONSTANTS None,         \* Option::None of a parent or a configuration
          MaxNesting,   \* bounds how deep the parts of an object are nested
          FirstId       \* the primitives of an object are numbers from here on, and
                        \* lengths and keys are below: one is never taken for the other

Prim == [kind |-> "prim"]
Struct(fields) == [kind |-> "struct", fields |-> fields]
Vec(item, size) == [kind |-> "vec", item |-> item, size |-> size]
Map(item, size) == [kind |-> "map", item |-> item, size |-> size]

\* parse_attributes: (is_chunkable, compression_id, is_map) of a field.
Field(type, chunkable, compression_id, is_map) ==
  [type |-> type, chunkable |-> chunkable, compression_id |-> compression_id, is_map |-> is_map]
Local(type) == Field(type, FALSE, 0, FALSE)

\* The numbers of a finite set in their order.
InOrder(S) ==
  [k \in 1 .. Cardinality(S) |-> CHOOSE i \in S : Cardinality({j \in S : j <= i}) = k]

\* "If it's 'map', it's implicitly chunkable": the fields that become children,
\* and those that stay in the payload, each in the order they are declared.
IsRemote(f) == f.chunkable \/ f.is_map
Remotes(fields) == InOrder({i \in DOMAIN fields : IsRemote(fields[i])})
Locals(fields) == InOrder({i \in DOMAIN fields : ~IsRemote(fields[i])})

\* JobConfig of a field: None unless it says something.
FieldConfig(f) ==
  IF f.compression_id > 0 \/ f.is_map
    THEN [compression_id |-> f.compression_id, is_map |-> f.is_map] ELSE None

IsMapOptimized(config) == config # None /\ config.is_map
-----------------------------------------------------------------------------
\* A part of an object: its type and value, the configuration of the innermost
\* field with a chunk of its own it belongs to, and whether serde writes it
\* whole, whatever attributes it has inside.
Part(type, value, config, whole) ==
  [type |-> type, value |-> value, config |-> config, whole |-> whole]

FieldPart(p, i) ==
  LET f == p.type.fields[i]
  IN IF IsRemote(f) THEN Part(f.type, p.value[i], FieldConfig(f), FALSE)
     ELSE Part(f.type, p.value[i], p.config, TRUE)

ItemPart(p, i) == Part(p.type.item, p.value[i], p.config, p.type.item.kind # "struct")

\* The primitives, and the maps that are not in shards, are in one piece.
InOnePiece(p) ==
  \/ p.whole
  \/ p.type.kind = "prim"
  \/ p.type.kind = "map" /\ ~IsMapOptimized(p.config) /\ p.value # <<>>

PartsOf(p) ==
  IF InOnePiece(p) THEN <<>>
  ELSE [i \in DOMAIN p.value |-> IF p.type.kind = "struct" THEN FieldPart(p, i) ELSE ItemPart(p, i)]

\* The parts of parts of ... the parts in S, level by level.
Level(S) == LET level[d \in 0 .. MaxNesting + 1] ==
                  IF d = 0 THEN S ELSE UNION {ToSet(PartsOf(p)) : p \in level[d - 1]}
            IN level

PartsWithin(p) == UNION {Level({p})[d] : d \in 0 .. MaxNesting}

\* A part's value has the form its type asks for.
IsSequence(s) == Len(s) \in Nat /\ s = [i \in 1 .. Len(s) |-> s[i]]

Fits(p) ==
  InOnePiece(p) \/
    /\ IsSequence(p.value)
    /\ p.type.kind = "struct" => IsSequence(p.type.fields) /\ Len(p.type.fields) = Len(p.value)
=============================================================================
