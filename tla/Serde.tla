-------------------------------- MODULE Serde --------------------------------
(***************************************************************************)
(* How serde and bincode write a value down: as a sequence of tokens        *)
(* without names or types, which only a reader that asks for the same types *)
(* in the same order can read back.  A primitive is one token, a collection *)
(* is its length followed by its items, a structure is its fields.          *)
(***************************************************************************)
EXTENDS ObjectTypes

Concat(seqs) == FoldLeft(LAMBDA a, b : a \o b, <<>>, seqs)

\* Serialize: everything, whatever the attributes say.
RECURSIVE Encode(_, _)
Encode(type, v) ==
  CASE type.kind = "prim" -> <<v>>
    [] type.kind = "struct" -> Concat([i \in DOMAIN v |-> Encode(type.fields[i].type, v[i])])
    [] type.kind = "vec" -> <<Len(v)>> \o Concat([i \in DOMAIN v |-> Encode(type.item, v[i])])
    [] type.kind = "map" -> <<Len(v)>> \o Concat([k \in DOMAIN v |-> <<k>> \o Encode(type.item, v[k])])

\* What a reader has read, and the tokens and the children it has not; or not ok.
Read(v, toks, kids) == [ok |-> TRUE, value |-> v, toks |-> toks, kids |-> kids]
Failed == [ok |-> FALSE, value |-> <<>>, toks |-> <<>>, kids |-> <<>>]

\* Reads one after another: the values in a sequence, unless one fails.
InTurn(Reads(_, _, _), parts, toks, kids) ==
  FoldLeft(LAMBDA sofar, part :
             IF ~sofar.ok THEN Failed
             ELSE LET next == Reads(part, sofar.toks, sofar.kids)
                  IN IF next.ok THEN Read(Append(sofar.value, next.value), next.toks, next.kids)
                     ELSE Failed,
           Read(<<>>, toks, kids), parts)

\* A length, which no primitive that is read in its place can be.
IsLength(toks) == toks # <<>> /\ Head(toks) < FirstId

Repeated(x, n) == [i \in 1 .. n |-> x]

\* A key, and the value read from what follows it; the map of several such pairs.
EntryOf(toks, v) ==
  IF toks = <<>> \/ ~v.ok THEN Failed ELSE [v EXCEPT !.value = <<Head(toks), @>>]

AsMap(read) ==
  LET entries == ToSet(read.value)
  IN [read EXCEPT !.value = [k \in {e[1] : e \in entries} |-> (CHOOSE e \in entries : e[1] = k)[2]]]

\* Deserialize of a type.
RECURSIVE Decode(_, _, _)
Decode(type, toks, kids) ==
  CASE type.kind = "prim" -> IF toks = <<>> THEN Failed ELSE Read(Head(toks), Tail(toks), kids)
    [] type.kind = "struct" ->
         InTurn(Decode, [i \in DOMAIN type.fields |-> type.fields[i].type], toks, kids)
    [] type.kind = "vec" ->
         IF ~IsLength(toks) THEN Failed
         ELSE InTurn(Decode, Repeated(type.item, Head(toks)), Tail(toks), kids)
    [] type.kind = "map" ->
         IF ~IsLength(toks) THEN Failed
         ELSE AsMap(InTurn(LAMBDA t, rest, k : EntryOf(rest, Decode(t, Tail(rest), k)),
                           Repeated(type.item, Head(toks)), Tail(toks), kids))
=============================================================================
