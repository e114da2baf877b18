----------------------------- MODULE MCObjectRead -----------------------------
EXTENDS ObjectRead
Chunkable(t, c) == Field(t, TRUE, c, FALSE)
Mapped(t, c) == Field(t, FALSE, c, TRUE)
Flat == Struct(<<Local(Prim), Local(Prim)>>)
\* Structures with a chunk of their own, after and before their local field.
Deep == Struct(<<Local(Prim), Chunkable(Prim, 1)>>)
Heavy == Struct(<<Chunkable(Vec(Prim, 3), 0), Local(Prim), Chunkable(Deep, 1)>>)
Fields == {
  Local(Prim), Field(Prim, FALSE, 1, FALSE), Chunkable(Prim, 0),
  Local(Deep), Local(Vec(Deep, 2)), Local(Map(Prim, 2)),
  Chunkable(Deep, 1), Chunkable(Heavy, 0),
  Chunkable(Vec(Prim, 3), 1), Chunkable(Vec(Heavy, 3), 0), Chunkable(Vec(Deep, 0), 1),
  Mapped(Map(Flat, 4), 0), Mapped(Map(Deep, 4), 1), Mapped(Map(Prim, 3), 0),
  Mapped(Map(Vec(Prim, 2), 1), 1), Mapped(Map(Prim, 0), 1),
  Chunkable(Map(Deep, 2), 1), Chunkable(Map(Prim, 0), 1) }
MCTypes == {Prim, Vec(Prim, 3), Vec(Heavy, 3), Vec(Deep, 0), Map(Deep, 2), Map(Prim, 0)}
           \cup {Struct(<<f>>) : f \in Fields}
           \cup {Struct(<<f, g, h>>) : f, g, h \in Fields}
           \cup {Vec(Struct(<<f, g>>), 3) : f, g \in Fields}
           \cup {Struct(<<Mapped(Map(Struct(<<f, g>>), 3), 1)>>) : f, g \in Fields}
           \cup {Struct(<<Chunkable(Struct(<<f, Local(Prim)>>), 1), g, Local(Prim)>>) : f, g \in Fields}

\* A value of a type, in which every primitive is another number.
RECURSIVE Sample(_, _)
Sample(type, id) ==
  CASE type.kind = "prim" -> id
    [] type.kind = "struct" -> [i \in DOMAIN type.fields |-> Sample(type.fields[i].type, 10 * id + i)]
    [] OTHER -> [i \in 1 .. type.size |-> Sample(type.item, 10 * id + i)]

MCObjects == {[type |-> t, value |-> Sample(t, FirstId)] : t \in MCTypes}
=============================================================================
