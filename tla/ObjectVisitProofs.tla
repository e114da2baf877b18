-------------------------- MODULE ObjectVisitProofs --------------------------
(***************************************************************************)
(* Proofs about the visit of an object, for every object, whatever types   *)
(* are nested in it in whatever way.                                       *)
(***************************************************************************)
EXTENDS ObjectVisit, SequenceTheorems, FiniteSetTheorems, WellFoundedInduction, TLAPS

\* The parts of an object, however deep.
Parts(obj) == PartsWithin(RootPart(obj))

\* The part a visit is called for.
Visited(c) == Part(c.type, c.value, c.config, FALSE)

\* The i-th item of a shard, which has its key before it if the shard is a map's, and
\* the part it is.
Item(c, i) == IF c.type.kind = "map" THEN c.value[i][2] ELSE c.value[i]
ItemOf(c, i) == Part(c.type.item, Item(c, i), c.config, c.type.item.kind # "struct")

\* `at` says which items of p the shard has: no item twice.
ShardOf(c, p, at) ==
  /\ p.type = c.type /\ p.config = c.config
  /\ at \in [1 .. Len(c.value) -> DOMAIN p.value]
  /\ \A i, j \in 1 .. Len(c.value) : at[i] = at[j] => i = j
  /\ \A i \in 1 .. Len(c.value) :
       /\ Item(c, i) = p.value[at[i]]
       /\ c.type.kind = "map" => c.value[i][1] = at[i]

\* What a visitor may be called for: a part with a chunk of its own, an item that is
\* in the chunk of a shard, some items of a collection that is stored in shards.
CallOf(obj, c) ==
  \/ c.call = "visit" /\ Visited(c) \in Parts(obj)
  \/ /\ c.call = "visit_inlined"
     /\ \E p \in Parts(obj) :
          p.type = c.type /\ p.value = c.value /\ p.whole = (c.type.kind # "struct")
  \/ /\ c.call = "shard" /\ c.type.kind \in {"vec", "map"} /\ IsSequence(c.value)
     /\ \E p \in Parts(obj) :
          ~InOnePiece(p) /\ \E at \in [1 .. Len(c.value) -> DOMAIN p.value] : ShardOf(c, p, at)

\* The calls of a frame: all for the node it added, or the one of write.
CallsOf(obj, calls, n) ==
  /\ IsSequence(calls)
  /\ \A i \in 1 .. Len(calls) :
       /\ calls[i].parent = n
       /\ CallOf(obj, calls[i])
       /\ n = None => calls[i].call = "visit"

\* A frame below write's is of a node; only a placeholder's is still to be replaced.
FrameTrue(f, nodes, jobs) ==
  /\ f.node \in 0 .. nodes - 1
  /\ f.after.then \in {"return", "replace"}
  /\ f.after.then = "return" => jobs[f.node] = "final"
  /\ f.after.then = "replace" => jobs[f.node] = "placeholder"

\* Each visit was called by the one below it in the stack.
StackInv ==
  /\ object \in Objects
  /\ count \in 0 .. N /\ job \in [0 .. N - 1 -> {"none", "final", "placeholder"}]
  /\ IsSequence(stack) /\ Len(stack) > 0
  /\ \A k \in 1 .. Len(stack) : CallsOf(object, stack[k].calls, stack[k].node)
  /\ stack[1].node = None
  /\ \A k \in 2 .. Len(stack) : FrameTrue(stack[k], count, job)
  /\ \A k, l \in 2 .. Len(stack) : k < l => stack[k].node < stack[l].node
  /\ IF count = 0 THEN Len(stack) = 1 /\ Len(stack[1].calls) = 1 ELSE stack[1].calls = <<>>

\* What the remote fields of a value are to store.
OwedRemotes(t, v) ==
  IF t.kind # "struct" THEN {}
  ELSE UNION {Declared(FieldPart(Part(t, v, None, FALSE), i)) :
                i \in {j \in DOMAIN v : IsRemote(t.fields[j])}}

\* What a call is still to store, a frame once its calls are made, and the frame in all.
Owed(c) ==
  CASE c.call = "visit" -> Declared(Visited(c))
    [] c.call = "shard" -> UNION {Declared(ItemOf(c, i)) : i \in 1 .. Len(c.value)}
    [] OTHER -> OwedRemotes(c.type, c.value)

StoredAs(what, conf) ==
  (Primitives(what.pieces) \cup UNION {Primitives(e) : e \in ToSet(what.entries)}) \X {conf}

StoredAt(payloads, configs, n) == StoredAs(payloads[n], configs[n])

Later(f) == IF f.after.then = "replace" THEN StoredAs(f.after.job, f.after.config) ELSE {}

AllOwed(calls) == UNION {Owed(calls[i]) : i \in 1 .. Len(calls)}

OwedBy(f) == Later(f) \cup AllOwed(f.calls)

\* Nothing is owed twice, by several calls or by a frame.
AllApart(calls) == \A i, j \in 1 .. Len(calls) : i # j => Owed(calls[i]) \cap Owed(calls[j]) = {}
Apart(f) == AllApart(f.calls) /\ AllOwed(f.calls) \cap Later(f) = {}

\* What is in one of several sets.
AnyOf(F, m) == UNION {F[i] : i \in 1 .. m}

\* W in parts, each in one place only.
Divided(W, F, m, G, n) ==
  /\ AnyOf(F, m) \cup AnyOf(G, n) = W
  /\ \A i, j \in 1 .. m : i # j => F[i] \cap F[j] = {}
  /\ \A i \in 1 .. m, k \in 1 .. n : F[i] \cap G[k] = {}
  /\ \A k, l \in 1 .. n : k # l => G[k] \cap G[l] = {}

StoredIn == [n \in 1 .. count |-> StoredAt(payload, config, n)]
OwedIn == [k \in 1 .. Len(stack) |-> OwedBy(stack[k])]

\* Every primitive is either stored in one chunk or owed by one call, with the
\* configuration declared for it.
StoredInv ==
  /\ IsSequence(payload) /\ IsSequence(config) /\ Len(payload) = count /\ Len(config) = count
  /\ Divided(Declared(RootPart(object)), StoredIn, count, OwedIn, Len(stack))
  /\ \A k \in 1 .. Len(stack) : Apart(stack[k])
  /\ \A k \in 2 .. Len(stack) :
       stack[k].after.then = "replace" => StoredAt(payload, config, stack[k].node + 1) = {}
-----------------------------------------------------------------------------
(***************************************************************************)
(* Sequences, told without the set their elements are in.                  *)
(***************************************************************************)

\* A sequence is one of its own elements (Vec, and what the macro builds of fields).
LEMMA InSeq ==
  ASSUME NEW s, IsSequence(s)
  PROVE  /\ Len(s) \in Nat /\ DOMAIN s = 1 .. Len(s)
         /\ s \in Seq(ToSet(s))
         /\ \A i \in 1 .. Len(s) : s[i] \in ToSet(s)
<1>1. Len(s) \in Nat /\ s = [i \in 1 .. Len(s) |-> s[i]]  BY DEF IsSequence
<1>2. DOMAIN s = 1 .. Len(s)  BY <1>1
<1>3. \A i \in 1 .. Len(s) : s[i] \in ToSet(s)  BY <1>2 DEF ToSet
<1>4. [i \in 1 .. Len(s) |-> s[i]] \in Seq(ToSet(s))  BY <1>1, <1>3
<1>. QED  BY <1>1, <1>2, <1>3, <1>4

\* A sequence of any set is one.
LEMMA SeqIs ==
  ASSUME NEW S, NEW s \in Seq(S)
  PROVE  IsSequence(s)
<1>1. Len(s) \in Nat /\ s \in [1 .. Len(s) -> S]  BY LenProperties
<1>. QED  BY <1>1 DEF IsSequence

\* There is one empty sequence.
LEMMA EmptyIs == ASSUME NEW s, IsSequence(s), Len(s) = 0 PROVE s = <<>>
<1>1. s \in Seq(ToSet(s))  BY InSeq
<1>. QED  BY <1>1, EmptySeq

\* What follows the first element (the calls a visit has still to make).
LEMMA TailIs ==
  ASSUME NEW s, IsSequence(s), s # <<>>
  PROVE  /\ IsSequence(Tail(s)) /\ Len(s) > 0 /\ Len(Tail(s)) = Len(s) - 1
         /\ Head(s) = s[1]
         /\ \A i \in 1 .. Len(s) - 1 : Tail(s)[i] = s[i + 1]
<1>1. s \in Seq(ToSet(s))  BY InSeq
<1>2. /\ Tail(s) \in Seq(ToSet(s)) /\ Len(Tail(s)) = Len(s) - 1
      /\ \A i \in 1 .. Len(Tail(s)) : Tail(s)[i] = s[i + 1]
      BY <1>1, HeadTailProperties
<1>3. Len(s) > 0  BY <1>1
<1>4. Head(s) = s[1]  BY <1>1, <1>3
<1>. QED  BY <1>2, <1>3, <1>4, SeqIs

\* One sequence after another (the calls of an inlined visit before the others).
LEMMA ConcatIs ==
  ASSUME NEW s, NEW t, IsSequence(s), IsSequence(t)
  PROVE  /\ IsSequence(s \o t) /\ Len(s \o t) = Len(s) + Len(t)
         /\ \A i \in 1 .. Len(s) : (s \o t)[i] = s[i]
         /\ \A i \in 1 .. Len(t) : (s \o t)[Len(s) + i] = t[i]
<1> DEFINE S == ToSet(s) \cup ToSet(t)
<1>1. s \in Seq(ToSet(s)) /\ t \in Seq(ToSet(t)) /\ Len(s) \in Nat /\ Len(t) \in Nat  BY InSeq
<1>2. s \in Seq(S) /\ t \in Seq(S)  BY <1>1, SeqMonotonic
<1> HIDE DEF S
<1>3. /\ s \o t \in Seq(S) /\ Len(s \o t) = Len(s) + Len(t)
      /\ \A i \in 1 .. Len(s) + Len(t) :
           (s \o t)[i] = IF i <= Len(s) THEN s[i] ELSE t[i - Len(s)]
      BY <1>2, ConcatProperties
<1>4. ASSUME NEW i \in 1 .. Len(t) PROVE (s \o t)[Len(s) + i] = t[i]
  <2>1. Len(s) + i \in 1 .. Len(s) + Len(t) /\ ~(Len(s) + i <= Len(s)) /\ (Len(s) + i) - Len(s) = i
        BY <1>1
  <2>. QED  BY <1>3, <2>1
<1>5. \A i \in 1 .. Len(s) : (s \o t)[i] = s[i]  BY <1>1, <1>3
<1>. QED  BY <1>3, <1>4, <1>5, SeqIs

\* The library's lemma, for a sequence whose elements it knows.
LEMMA SubSeqOf ==
  ASSUME NEW s, NEW m \in Nat \ {0}, NEW n \in Nat, IsSequence(s), n <= Len(s)
  PROVE  /\ IsSequence(SubSeq(s, m, n))
         /\ Len(SubSeq(s, m, n)) = IF m <= n THEN n - m + 1 ELSE 0
         /\ \A i \in 1 .. n - m + 1 : SubSeq(s, m, n)[i] = s[m + i - 1]
<1>1. \A i \in m .. n : s[i] \in ToSet(s)
  <2>1. \A i \in m .. n : i \in 1 .. Len(s)  BY InSeq
  <2>. QED  BY <2>1, InSeq
<1>2. m \in Int /\ n \in Int  OBVIOUS
<1>3. SubSeq(s, m, n) \in Seq(ToSet(s))  BY <1>1, <1>2, SubSeqProperties
<1>4. Len(SubSeq(s, m, n)) = IF m <= n THEN n - m + 1 ELSE 0  BY <1>1, <1>2, SubSeqProperties
<1>5. \A i \in 1 .. n - m + 1 : SubSeq(s, m, n)[i] = s[m + i - 1]  BY <1>1, <1>2, SubSeqProperties
<1>. QED  BY <1>3, <1>4, <1>5, SeqIs

\* A function on 1 .. n is a sequence of n elements.
LEMMA FunctionIs ==
  ASSUME NEW t, NEW n \in Nat, t = [i \in 1 .. n |-> t[i]]
  PROVE  IsSequence(t) /\ Len(t) = n
<1>1. Len(t) = n  OBVIOUS
<1>. QED  BY <1>1 DEF IsSequence

\* A sequence with one more element at its end (the stack, when a visit is called).
Appended(t, s, e) == t = Append(s, e)

\* It has the others as they were.
LEMMA AppendIs ==
  ASSUME NEW s, NEW e, NEW t, Appended(t, s, e), IsSequence(s)
  PROVE  /\ IsSequence(t) /\ Len(t) = Len(s) + 1
         /\ \A i \in 1 .. Len(s) : t[i] = s[i]
         /\ t[Len(s) + 1] = e
<1> PICK S : S = ToSet(s) \cup {e}  OBVIOUS
<1>1. s \in Seq(ToSet(s)) /\ Len(s) \in Nat  BY InSeq
<1>2. s \in Seq(S)  BY <1>1, SeqMonotonic
<1>3. /\ Append(s, e) \in Seq(S) /\ Len(Append(s, e)) = Len(s) + 1
      /\ \A i \in 1 .. Len(s) : Append(s, e)[i] = s[i]
      /\ Append(s, e)[Len(s) + 1] = e
      BY <1>2, AppendProperties
<1>. QED  BY <1>3, SeqIs DEF Appended

\* And with another element at some place.
Updated(t, s, k, e) == t = [s EXCEPT ![k] = e]

\* The others are as they were.
LEMMA UpdateIs ==
  ASSUME NEW s, NEW e, NEW k, NEW t, Updated(t, s, k, e), IsSequence(s), k \in 1 .. Len(s)
  PROVE  /\ IsSequence(t) /\ Len(t) = Len(s)
         /\ \A i \in 1 .. Len(s) : t[i] = IF i = k THEN e ELSE s[i]
<1>1. Len(s) \in Nat /\ DOMAIN s = 1 .. Len(s)  BY InSeq
<1>2. t = [i \in 1 .. Len(s) |-> IF i = k THEN e ELSE s[i]]  BY <1>1 DEF Updated
<1>3. \A i \in 1 .. Len(s) : t[i] = IF i = k THEN e ELSE s[i]  BY <1>2
<1>4. t = [i \in 1 .. Len(s) |-> t[i]]  BY <1>2
<1>. QED  BY <1>1, <1>3, <1>4, FunctionIs

\* And without its last one.
LEMMA FrontIs ==
  ASSUME NEW s, IsSequence(s), s # <<>>
  PROVE  /\ IsSequence(Front(s)) /\ Len(Front(s)) = Len(s) - 1
         /\ \A i \in 1 .. Len(s) - 1 : Front(s)[i] = s[i]
<1>1. Len(s) \in Nat /\ Len(s) > 0  BY InSeq, TailIs
<1> PICK n \in Nat : n = Len(s) /\ n > 0  BY <1>1
<1>2. Front(s) = SubSeq(s, 1, n - 1)  BY DEF Front
<1>3. 1 \in Nat \ {0} /\ n - 1 \in Nat /\ n - 1 <= Len(s)  OBVIOUS
<1>4. /\ IsSequence(SubSeq(s, 1, n - 1))
      /\ Len(SubSeq(s, 1, n - 1)) = IF 1 <= n - 1 THEN (n - 1) - 1 + 1 ELSE 0
      /\ \A i \in 1 .. (n - 1) - 1 + 1 : SubSeq(s, 1, n - 1)[i] = s[1 + i - 1]
      BY <1>3, SubSeqOf
<1>5. \A i \in 1 .. n - 1 : 1 + i - 1 = i  OBVIOUS
<1> HIDE <1>2
<1>. QED  BY <1>2, <1>4, <1>5

\* The numbers in order are all the numbers, each once (Locals and Remotes, the keys
\* of a bucket).
LEMMA InOrderLists ==
  ASSUME NEW n \in Nat, NEW S \in SUBSET (1 .. n)
  PROVE  /\ Cardinality(S) \in Nat /\ IsSequence(InOrder(S)) /\ Len(InOrder(S)) = Cardinality(S)
         /\ \A k \in 1 .. Cardinality(S) : InOrder(S)[k] \in S
         /\ \A k, l \in 1 .. Cardinality(S) : InOrder(S)[k] = InOrder(S)[l] => k = l
         /\ \A i \in S : \E k \in 1 .. Cardinality(S) : InOrder(S)[k] = i
<1> DEFINE below(i) == {j \in S : j <= i}
           rank == [i \in S |-> Cardinality(below(i))]
           c == Cardinality(S)
<1>1. IsFiniteSet(S) /\ c \in Nat
  <2>1. IsFiniteSet(1 .. n)  BY FS_Interval
  <2>2. S \subseteq 1 .. n  OBVIOUS
  <2>. QED  BY <2>1, <2>2, FS_Subset, FS_CardinalityType
<1>2. ASSUME NEW i \in S
      PROVE  IsFiniteSet(below(i)) /\ i \in below(i) /\ rank[i] \in 1 .. c
  <2>1. below(i) \subseteq S /\ i \in below(i)  OBVIOUS
  <2>2. IsFiniteSet(below(i)) /\ Cardinality(below(i)) <= c  BY <1>1, <2>1, FS_Subset
  <2>3. Cardinality(below(i)) \in Nat /\ Cardinality(below(i)) # 0
        BY <2>1, <2>2, FS_CardinalityType, FS_EmptySet
  <2>. QED  BY <1>1, <2>1, <2>2, <2>3
<1>3. ASSUME NEW i \in S, NEW j \in S, i < j PROVE rank[i] # rank[j]
  <2>1. \A k \in S : k \in Nat  OBVIOUS
  <2>2. below(i) \subseteq below(j)
    <3>1. \A k \in S : k <= i => k <= j  BY <1>3, <2>1
    <3>. QED  BY <3>1
  <2>3. j \in below(j) /\ j \notin below(i)  BY <1>3, <2>1
  <2>4. IsFiniteSet(below(j))  BY <1>2
  <2> HIDE DEF below
  <2>. QED  BY <2>2, <2>3, <2>4, FS_Subset
<1>4. \A i, j \in S : rank[i] = rank[j] => i = j
  <2>1. \A i, j \in S : i = j \/ i < j \/ j < i  OBVIOUS
  <2>. QED  BY <1>3, <2>1
<1>5. rank \in [S -> 1 .. c]  BY <1>2
<1>6. rank \in Surjection(S, 1 .. c)
  <2>1. rank \in Injection(S, 1 .. c)  BY <1>4, <1>5 DEF Injection, IsInjective
  <2>2. IsFiniteSet(1 .. c) /\ Cardinality(1 .. c) = c  BY <1>1, FS_Interval
  <2>. QED  BY <1>1, <2>1, <2>2, FS_Injection
<1>7. ASSUME NEW k \in 1 .. c PROVE InOrder(S)[k] \in S /\ rank[InOrder(S)[k]] = k
  <2>1. \E i \in S : rank[i] = k  BY <1>6 DEF Surjection
  <2>2. \E i \in S : Cardinality(below(i)) = k  BY <2>1
  <2>3. InOrder(S)[k] = CHOOSE i \in S : Cardinality(below(i)) = k  BY DEF InOrder
  <2>. QED  BY <2>2, <2>3
<1>8. ASSUME NEW i \in S PROVE \E k \in 1 .. c : InOrder(S)[k] = i
  <2>1. rank[i] \in 1 .. c  BY <1>2
  <2>. QED  BY <1>4, <1>7, <2>1
<1>9. IsSequence(InOrder(S)) /\ Len(InOrder(S)) = c  BY <1>1 DEF InOrder, IsSequence
<1>. QED  BY <1>1, <1>7, <1>8, <1>9

\* The list s of all of S, each once.
Lists(s, S) ==
  /\ IsSequence(s) /\ Len(s) \in Nat /\ DOMAIN s = 1 .. Len(s)
  /\ \A k \in 1 .. Len(s) : s[k] \in S
  /\ \A k, l \in 1 .. Len(s) : s[k] = s[l] => k = l
  /\ \A i \in S : \E k \in 1 .. Len(s) : s[k] = i

\* The same, by the length of the list.
LEMMA ListInOrder ==
  ASSUME NEW n \in Nat, NEW S \in SUBSET (1 .. n)
  PROVE  Lists(InOrder(S), S)
<1> PICK s : s = InOrder(S)  OBVIOUS
<1>1. IsSequence(s) /\ Len(s) = Cardinality(S)  BY InOrderLists
<1>2. /\ \A k \in 1 .. Len(s) : s[k] \in S
      /\ \A k, l \in 1 .. Len(s) : s[k] = s[l] => k = l
      /\ \A i \in S : \E k \in 1 .. Len(s) : s[k] = i
      BY <1>1, InOrderLists
<1>. QED  BY <1>1, <1>2, InSeq DEF Lists

\* Induction, told with sets: a set of numbers that has 0 and the successor of
\* each of its elements has them all (levels of nesting).
LEMMA AllNumbers ==
  ASSUME NEW T \in SUBSET Nat, 0 \in T, \A k \in T : k + 1 \in T
  PROVE  T = Nat
<1> SUFFICES ASSUME Nat \ T # {} PROVE FALSE  OBVIOUS
<1>1. PICK x \in Nat \ T : \A y \in Nat \ T : ~ (<<y, x>> \in OpToRel(<, Nat))
      BY WFMin, NatLessThanWellFounded
<1>2. \A y \in Nat \ T : ~ (y < x)  BY <1>1 DEF OpToRel
<1>3. x # 0 /\ x - 1 \in Nat /\ x - 1 < x /\ (x - 1) + 1 = x  OBVIOUS
<1>4. x - 1 \in T  BY <1>2, <1>3
<1>. QED  BY <1>3, <1>4
-----------------------------------------------------------------------------
(***************************************************************************)
(* The parts of an object.                                                 *)
(***************************************************************************)
Below(S) == UNION {ToSet(PartsOf(p)) : p \in S}

\* There are levels of parts below any parts (a visitor's calls, one inside the other).
LEMMA LevelSteps ==
  ASSUME NEW S
  PROVE  /\ Level(S)[0] = S
         /\ \A d \in 0 .. MaxNesting : Level(S)[d + 1] = Below(Level(S)[d])
<1> DEFINE Rec(n, f) == f = [d \in 0 .. n |-> IF d = 0 THEN S
                                              ELSE UNION {ToSet(PartsOf(p)) : p \in f[d - 1]}]
           T == {n \in Nat : \E f : Rec(n, f)}
<1>1. MaxNesting \in Nat  BY ObjectAssumption
<1>2. 0 \in T
  <2> DEFINE f == [d \in 0 .. 0 |-> S]
  <2>1. Rec(0, f)  OBVIOUS
  <2>. QED  BY <2>1
<1>3. ASSUME NEW n \in T PROVE n + 1 \in T
  <2>1. n \in Nat  OBVIOUS
  <2>2. PICK f : Rec(n, f)  OBVIOUS
  <2> DEFINE g == [d \in 0 .. n + 1 |->
                     IF d <= n THEN f[d] ELSE UNION {ToSet(PartsOf(p)) : p \in f[n]}]
  <2>3. ASSUME NEW d \in 0 .. n + 1
        PROVE  g[d] = IF d = 0 THEN S ELSE UNION {ToSet(PartsOf(p)) : p \in g[d - 1]}
    <3>1. CASE d <= n
      <4>1. d \in 0 .. n  BY <2>1, <3>1
      <4>2. f[d] = IF d = 0 THEN S ELSE UNION {ToSet(PartsOf(p)) : p \in f[d - 1]}
            BY <2>2, <4>1
      <4>3. d # 0 => d - 1 \in 0 .. n + 1 /\ d - 1 <= n  BY <2>1, <4>1
      <4>. QED  BY <3>1, <4>2, <4>3
    <3>2. CASE ~(d <= n)
      <4>1. d # 0 /\ d - 1 = n /\ n \in 0 .. n + 1 /\ n <= n  BY <2>1, <3>2
      <4>. QED  BY <3>2, <4>1
    <3>. QED  BY <3>1, <3>2
  <2>4. g = [d \in 0 .. n + 1 |-> g[d]]  OBVIOUS
  <2> HIDE DEF g
  <2>5. Rec(n + 1, g)  BY <2>3, <2>4
  <2> HIDE DEF Rec
  <2>. QED  BY <2>1, <2>5
<1> HIDE DEF Rec
<1>4. T \in SUBSET Nat  OBVIOUS
<1> HIDE DEF T
<1>5. T = Nat  BY <1>2, <1>3, <1>4, AllNumbers
<1> USE DEF T
<1>6. \E f : Rec(MaxNesting + 1, f)  BY <1>1, <1>5
<1> USE DEF Rec
<1>7. Level(S) = CHOOSE f : Rec(MaxNesting + 1, f)  BY DEF Level
<1>8. PICK f : Rec(MaxNesting + 1, f) /\ Level(S) = f  BY <1>6, <1>7
<1>9. f[0] = S  BY <1>1, <1>8
<1>10. ASSUME NEW d \in 0 .. MaxNesting PROVE f[d + 1] = Below(f[d])
  <2>1. d + 1 \in 0 .. MaxNesting + 1 /\ d + 1 # 0 /\ (d + 1) - 1 = d  BY <1>1
  <2>2. f[d + 1] = UNION {ToSet(PartsOf(p)) : p \in f[(d + 1) - 1]}  BY <1>8, <2>1
  <2>. QED  BY <2>1, <2>2 DEF Below
<1>. QED  BY <1>8, <1>9, <1>10

\* The parts of a part are parts of the object, and fit their types.
LEMMA PartsOfPart ==
  ASSUME NEW obj \in Objects, NEW p \in Parts(obj)
  PROVE  /\ Fits(p) /\ IsSequence(PartsOf(p))
         /\ \A i \in DOMAIN PartsOf(p) : PartsOf(p)[i] \in Parts(obj)
<1> DEFINE root == RootPart(obj)
<1>1. MaxNesting \in Nat /\ Level({root})[MaxNesting + 1] = {} /\ Fits(p)
      BY ObjectAssumption DEF Parts
<1>2. PICK d \in 0 .. MaxNesting : p \in Level({root})[d]  BY DEF Parts, PartsWithin
<1>3. Level({root})[d + 1] = Below(Level({root})[d])  BY LevelSteps
<1>4. ASSUME NEW i \in DOMAIN PartsOf(p) PROVE PartsOf(p)[i] \in Parts(obj)
  <2>1. PartsOf(p)[i] \in ToSet(PartsOf(p))  BY DEF ToSet
  <2>2. PartsOf(p)[i] \in Level({root})[d + 1]  BY <1>2, <1>3, <2>1 DEF Below
  <2>3. d + 1 \in 0 .. MaxNesting  BY <1>1, <2>2
  <2>. QED  BY <2>2, <2>3 DEF Parts, PartsWithin
<1>5. IsSequence(PartsOf(p))
  <2>1. CASE InOnePiece(p)  BY <2>1 DEF PartsOf, IsSequence
  <2>2. CASE ~InOnePiece(p)
    <3>1. Len(p.value) \in Nat /\ DOMAIN p.value = 1 .. Len(p.value)
          BY <1>1, <2>2, InSeq DEF Fits
    <3>. QED  BY <2>2, <3>1 DEF PartsOf, IsSequence
  <2>. QED  BY <2>1, <2>2
<1>. QED  BY <1>1, <1>4, <1>5

\* The object is a part of itself.
LEMMA RootIsPart == ASSUME NEW obj \in Objects PROVE RootPart(obj) \in Parts(obj)
<1>1. Level({RootPart(obj)})[0] = {RootPart(obj)} /\ 0 \in 0 .. MaxNesting
      BY LevelSteps, ObjectAssumption
<1>. QED  BY <1>1 DEF Parts, PartsWithin

\* A part that is visited and is not in one piece, and its own parts.
LEMMA PartsAre ==
  ASSUME NEW obj \in Objects, NEW p \in Parts(obj), ~InOnePiece(p)
  PROVE  /\ IsSequence(p.value) /\ Len(p.value) \in Nat /\ DOMAIN p.value = 1 .. Len(p.value)
         /\ DOMAIN PartsOf(p) = 1 .. Len(p.value)
         /\ \A i \in 1 .. Len(p.value) :
              /\ p.type.kind = "struct" => FieldPart(p, i) \in Parts(obj) /\ PartsOf(p)[i] = FieldPart(p, i)
              /\ p.type.kind # "struct" => ItemPart(p, i) \in Parts(obj) /\ PartsOf(p)[i] = ItemPart(p, i)
         /\ p.type.kind = "struct" => DOMAIN p.type.fields = 1 .. Len(p.value)
<1>1. /\ IsSequence(p.value)
      /\ p.type.kind = "struct" => IsSequence(p.type.fields) /\ Len(p.type.fields) = Len(p.value)
      BY PartsOfPart DEF Fits
<1>2. DOMAIN p.value = 1 .. Len(p.value) /\ Len(p.value) \in Nat  BY <1>1, InSeq
<1>3. p.type.kind = "struct" => DOMAIN p.type.fields = 1 .. Len(p.value)  BY <1>1, InSeq
<1>4. PartsOf(p) = [i \in 1 .. Len(p.value) |->
                      IF p.type.kind = "struct" THEN FieldPart(p, i) ELSE ItemPart(p, i)]
      BY <1>2 DEF PartsOf
<1>5. \A i \in 1 .. Len(p.value) : PartsOf(p)[i] \in Parts(obj)  BY <1>4, PartsOfPart
<1>. QED  BY <1>1, <1>2, <1>3, <1>4, <1>5

\* The remote fields, in the order of their children (the macro's visit of them).
LEMMA RemotesListed ==
  ASSUME NEW obj \in Objects, NEW p \in Parts(obj), ~InOnePiece(p), p.type.kind = "struct"
  PROVE  /\ Lists(Remotes(p.type.fields), {i \in 1 .. Len(p.value) : IsRemote(p.type.fields[i])})
         /\ Lists(Locals(p.type.fields), {i \in 1 .. Len(p.value) : ~IsRemote(p.type.fields[i])})
<1>1. PICK n \in Nat : n = Len(p.value) /\ DOMAIN p.type.fields = 1 .. n  BY PartsAre
<1> DEFINE S == {i \in 1 .. n : IsRemote(p.type.fields[i])}
           T == {i \in 1 .. n : ~IsRemote(p.type.fields[i])}
<1>2. Remotes(p.type.fields) = InOrder(S) /\ Locals(p.type.fields) = InOrder(T)
      BY <1>1 DEF Remotes, Locals
<1>3. S \in SUBSET (1 .. n) /\ T \in SUBSET (1 .. n)  OBVIOUS
<1> HIDE DEF S, T
<1>4. Lists(InOrder(S), S) /\ Lists(InOrder(T), T)  BY <1>3, ListInOrder
<1>. QED  BY <1>1, <1>2, <1>4 DEF S, T

\* So their visits are called for parts of the object.
LEMMA RemotesCalled ==
  ASSUME NEW obj \in Objects, NEW p \in Parts(obj), ~InOnePiece(p), p.type.kind = "struct", NEW n \in Nat
  PROVE  LET remote == Remotes(p.type.fields) calls == VisitRemotes(p.type, p.value, n)
         IN /\ CallsOf(obj, calls, n) /\ Len(calls) = Len(remote)
            /\ \A k \in 1 .. Len(calls) :
                 calls[k].call = "visit" /\ Visited(calls[k]) = FieldPart(p, remote[k])
<1> DEFINE remote == Remotes(p.type.fields)
           calls == VisitRemotes(p.type, p.value, n)
<1>1. Lists(remote, {i \in 1 .. Len(p.value) : IsRemote(p.type.fields[i])})  BY RemotesListed
<1>2. /\ Len(remote) \in Nat /\ DOMAIN remote = 1 .. Len(remote)
      /\ \A k \in 1 .. Len(remote) : remote[k] \in 1 .. Len(p.value)
                                     /\ IsRemote(p.type.fields[remote[k]])
  <2> HIDE DEF remote
  <2>. QED  BY <1>1 DEF Lists
<1> HIDE DEF remote
<1>3. calls = [k \in 1 .. Len(remote) |->
        VisitCall(p.type.fields[remote[k]].type, p.value[remote[k]], n,
                  FieldConfig(p.type.fields[remote[k]]))]
      BY <1>2 DEF VisitRemotes, remote
<1>4. IsSequence(calls) /\ Len(calls) = Len(remote)  BY <1>2, <1>3 DEF IsSequence
<1>5. ASSUME NEW k \in 1 .. Len(calls)
      PROVE  /\ calls[k].call = "visit" /\ calls[k].parent = n
             /\ Visited(calls[k]) = FieldPart(p, remote[k])
             /\ Visited(calls[k]) \in Parts(obj)
  <2>1. calls[k] = VisitCall(p.type.fields[remote[k]].type, p.value[remote[k]], n,
                             FieldConfig(p.type.fields[remote[k]]))
        BY <1>3, <1>4
  <2>2. remote[k] \in 1 .. Len(p.value) /\ IsRemote(p.type.fields[remote[k]])  BY <1>2, <1>4
  <2>3. Visited(calls[k]) = FieldPart(p, remote[k])
        BY <2>1, <2>2 DEF Visited, FieldPart, VisitCall
  <2>4. FieldPart(p, remote[k]) \in Parts(obj)  BY <2>2, PartsAre
  <2>. QED  BY <2>1, <2>3, <2>4 DEF VisitCall
<1>6. CallsOf(obj, calls, n)
  <2> HIDE DEF calls
  <2>. QED  BY <1>4, <1>5 DEF CallsOf, CallOf
<1>. QED  BY <1>4, <1>5, <1>6 DEF remote
-----------------------------------------------------------------------------
(***************************************************************************)
(* How a collection is cut into shards.                                    *)
(***************************************************************************)
\* Min and max, of two numbers.
LEMMA OfTwo ==
  ASSUME NEW a \in Int, NEW b \in Int
  PROVE  /\ Min({a, b}) = IF a <= b THEN a ELSE b
         /\ Max({a, b}) = IF a >= b THEN a ELSE b
BY DEF Min, Max

\* Division, as `/` and `%` of unsigned numbers have it.
LEMMA DivisionFacts ==
  ASSUME NEW a \in Nat, NEW b \in Nat \ {0}
  PROVE  /\ a \div b \in Nat /\ a % b \in 0 .. b - 1
         /\ a = (a \div b) * b + (a % b)
OBVIOUS

\* And there is only one quotient.
LEMMA DivisionUnique ==
  ASSUME NEW b \in Nat \ {0}, NEW q \in Nat, NEW r \in 0 .. b - 1
  PROVE  (q * b + r) \div b = q
<1> PICK a \in Nat : a = q * b + r  OBVIOUS
<1>. QED  OBVIOUS

\* Every place of a vector is in one slice (slice.chunks).
LEMMA PlaceInSlice ==
  ASSUME NEW total \in Nat, NEW per \in Nat \ {0}, NEW n, n = (total + per - 1) \div per
  PROVE  /\ n \in Nat
         /\ \A m \in 1 .. total : \E k \in 1 .. n, i \in 1 .. per : m = (k - 1) * per + i
         /\ \A k, l \in Nat \ {0}, i, j \in 1 .. per :
              (k - 1) * per + i = (l - 1) * per + j => k = l /\ i = j
<1>1. n \in Nat /\ total <= n * per
  <2> PICK a \in Nat : a = total + per - 1  OBVIOUS
  <2>1. n \in Nat /\ a % per \in 0 .. per - 1 /\ a = n * per + (a % per)  BY DivisionFacts
  <2>. QED  BY <2>1
<1>2. ASSUME NEW m \in 1 .. total
      PROVE  \E k \in 1 .. n, i \in 1 .. per : m = (k - 1) * per + i
  <2> DEFINE q == (m - 1) \div per
             r == (m - 1) % per
  <2>1. q \in Nat /\ r \in 0 .. per - 1 /\ m - 1 = q * per + r  BY DivisionFacts
  <2> HIDE DEF q, r
  <2>2. q < n
    <3> SUFFICES ASSUME ~(q < n) PROVE FALSE  OBVIOUS
    <3>1. q - n \in Nat /\ q = n + (q - n)  BY <1>1, <2>1
    <3> PICK d \in Nat : q = n + d  BY <3>1
    <3>2. q * per = n * per + d * per /\ d * per \in Nat  BY <1>1
    <3>. QED  BY <1>1, <2>1, <3>2
  <2>3. q + 1 \in 1 .. n /\ r + 1 \in 1 .. per /\ (q + 1) - 1 = q  BY <1>1, <2>1, <2>2
  <2>4. m = ((q + 1) - 1) * per + (r + 1)  BY <2>1, <2>3
  <2>. QED  BY <2>3, <2>4
<1>3. ASSUME NEW k \in Nat \ {0}, NEW l \in Nat \ {0}, NEW i \in 1 .. per, NEW j \in 1 .. per,
             (k - 1) * per + i = (l - 1) * per + j
      PROVE  k = l /\ i = j
  <2> PICK a \in Nat : a = k - 1  OBVIOUS
  <2> PICK b \in Nat : b = l - 1  OBVIOUS
  <2>1. i - 1 \in 0 .. per - 1 /\ j - 1 \in 0 .. per - 1  OBVIOUS
  <2>2. a * per \in Nat /\ b * per \in Nat  OBVIOUS
  <2>3. a * per + (i - 1) = b * per + (j - 1)  BY <1>3, <2>2
  <2>4. (a * per + (i - 1)) \div per = a /\ (b * per + (j - 1)) \div per = b
        BY <2>1, DivisionUnique
  <2>. QED  BY <2>2, <2>3, <2>4
<1>. QED  BY <1>1, <1>2, <1>3

\* The shards of p: every item is in one of them, once, where `at` says.
Cut(shards, p, at) ==
  /\ IsSequence(shards)
  /\ \A k \in 1 .. Len(shards) :
       /\ IsSequence(shards[k])
       /\ at[k] \in [1 .. Len(shards[k]) -> DOMAIN p.value]
       /\ \A i \in 1 .. Len(shards[k]) :
            shards[k][i] = IF p.type.kind = "map" THEN <<at[k][i], p.value[at[k][i]]>>
                           ELSE p.value[at[k][i]]
  /\ \A k, l \in 1 .. Len(shards) :
       \A i \in 1 .. Len(shards[k]), j \in 1 .. Len(shards[l]) :
         at[k][i] = at[l][j] => k = l /\ i = j
  /\ \A m \in DOMAIN p.value :
       \E k \in 1 .. Len(shards) : \E i \in 1 .. Len(shards[k]) : at[k][i] = m

\* The calls for them.
ShardCalls(p, shards, n) ==
  [k \in 1 .. Len(shards) |-> ShardCall(p.type, shards[k], n, p.config)]

\* Such calls are calls for parts of the object.
LEMMA ShardsCalled ==
  ASSUME NEW obj, NEW p \in Parts(obj), ~InOnePiece(p), p.type.kind \in {"vec", "map"}, NEW n \in Nat,
         NEW shards, NEW at, Cut(shards, p, at)
  PROVE  LET calls == ShardCalls(p, shards, n)
         IN /\ CallsOf(obj, calls, n) /\ Len(calls) = Len(shards)
            /\ \A k \in 1 .. Len(calls) :
                 /\ calls[k] = ShardCall(p.type, shards[k], n, p.config)
                 /\ ShardOf(calls[k], p, at[k])
<1> DEFINE calls == ShardCalls(p, shards, n)
<1>1. Len(shards) \in Nat  BY InSeq DEF Cut
<1>2. calls = [k \in 1 .. Len(shards) |-> ShardCall(p.type, shards[k], n, p.config)]
      BY DEF ShardCalls
<1>3. IsSequence(calls) /\ Len(calls) = Len(shards)  BY <1>1, <1>2 DEF IsSequence
<1>4. ASSUME NEW k \in 1 .. Len(calls)
      PROVE  /\ calls[k] = ShardCall(p.type, shards[k], n, p.config)
             /\ ShardOf(calls[k], p, at[k])
             /\ calls[k].parent = n /\ CallOf(obj, calls[k]) /\ n # None
  <2> PICK c : c = calls[k]  OBVIOUS
  <2>1. c = ShardCall(p.type, shards[k], n, p.config)  BY <1>2, <1>3
  <2>2. /\ c.type = p.type /\ c.config = p.config /\ c.value = shards[k]
        /\ c.parent = n /\ c.call = "shard"
        BY <2>1 DEF ShardCall
  <2> PICK part, f : part = shards[k] /\ f = at[k]  OBVIOUS
  <2>3. /\ IsSequence(part) /\ f \in [1 .. Len(part) -> DOMAIN p.value]
        /\ \A i \in 1 .. Len(part) :
             part[i] = IF p.type.kind = "map" THEN <<f[i], p.value[f[i]]>> ELSE p.value[f[i]]
        BY <1>3 DEF Cut
  <2>4. ASSUME NEW i \in 1 .. Len(part), NEW j \in 1 .. Len(part), f[i] = f[j] PROVE i = j
    <3>1. k \in 1 .. Len(shards)  BY <1>3
    <3>2. i \in 1 .. Len(shards[k]) /\ j \in 1 .. Len(shards[k]) /\ at[k][i] = at[k][j]  BY <2>4
    <3>. QED  BY <3>1, <3>2 DEF Cut
  <2>5. ASSUME NEW i \in 1 .. Len(part)
        PROVE  Item(c, i) = p.value[f[i]] /\ (c.type.kind = "map" => c.value[i][1] = f[i])
    <3>1. c.value[i] = IF p.type.kind = "map" THEN <<f[i], p.value[f[i]]>> ELSE p.value[f[i]]
          BY <2>2, <2>3
    <3>2. CASE p.type.kind = "map"
      <4>1. c.value[i] = <<f[i], p.value[f[i]]>>  BY <3>1, <3>2
      <4>. QED  BY <2>2, <3>2, <4>1 DEF Item
    <3>3. CASE p.type.kind # "map"  BY <2>2, <3>1, <3>3 DEF Item
    <3>. QED  BY <3>2, <3>3
  <2>6. ShardOf(c, p, f)  BY <2>2, <2>3, <2>4, <2>5 DEF ShardOf
  <2>7. CallOf(obj, c)
    <3>1. \E g \in [1 .. Len(c.value) -> DOMAIN p.value] : ShardOf(c, p, g)
          BY <2>2, <2>3, <2>6
    <3>2. c.call = "shard" /\ c.type.kind \in {"vec", "map"} /\ IsSequence(c.value)
          BY <2>2, <2>3
    <3>. QED  BY <3>1, <3>2 DEF CallOf
  <2>. QED  BY <2>1, <2>2, <2>6, <2>7, VisitAssumption
<1> HIDE DEF calls
<1>5. CallsOf(obj, calls, n)  BY <1>3, <1>4 DEF CallsOf
<1>. QED  BY <1>3, <1>4, <1>5 DEF calls

\* A slice of a vector.
Slice(items, k) ==
  SubSeq(items, (k - 1) * ItemsPerShard + 1, Min({k * ItemsPerShard, Len(items)}))

\* What is in a slice.
LEMMA SliceIs ==
  ASSUME NEW items, IsSequence(items), NEW k \in Nat \ {0}
  PROVE  LET slice == Slice(items, k)
         IN /\ IsSequence(slice) /\ Len(slice) \in Nat
            /\ \A i \in 1 .. Len(slice) :
                 /\ i \in 1 .. ItemsPerShard
                 /\ (k - 1) * ItemsPerShard + i \in 1 .. Len(items)
                 /\ slice[i] = items[(k - 1) * ItemsPerShard + i]
            /\ \A i \in 1 .. ItemsPerShard :
                 (k - 1) * ItemsPerShard + i <= Len(items) => i \in 1 .. Len(slice)
<1> DEFINE slice == Slice(items, k)
<1> PICK per \in Nat \ {0} : per = ItemsPerShard  BY VisitAssumption
<1> PICK total \in Nat : total = Len(items)  BY InSeq
<1> PICK start \in Nat : start = (k - 1) * per  OBVIOUS
<1>2. k * per = start + per  OBVIOUS
<1>3. Min({k * per, total}) = IF start + per <= total THEN start + per ELSE total  BY <1>2, OfTwo
<1>4. PICK end \in Nat : end = IF start + per <= total THEN start + per ELSE total
  <2>1. start + per \in Nat  OBVIOUS
  <2>. QED  BY <2>1
<1>5. slice = SubSeq(items, start + 1, end)  BY <1>3, <1>4 DEF Slice
<1>6. /\ IsSequence(slice)
      /\ Len(slice) = IF start + 1 <= end THEN end - (start + 1) + 1 ELSE 0
      /\ \A i \in 1 .. end - (start + 1) + 1 : slice[i] = items[(start + 1) + i - 1]
  <2>1. start + 1 \in Nat \ {0} /\ end <= Len(items)  BY <1>4
  <2>2. /\ IsSequence(SubSeq(items, start + 1, end))
        /\ Len(SubSeq(items, start + 1, end)) = IF start + 1 <= end THEN end - (start + 1) + 1 ELSE 0
        /\ \A i \in 1 .. end - (start + 1) + 1 :
             SubSeq(items, start + 1, end)[i] = items[(start + 1) + i - 1]
        BY <2>1, SubSeqOf
  <2> HIDE DEF slice
  <2>. QED  BY <1>5, <2>2
<1> HIDE DEF slice
<1>7. \A i \in 1 .. Len(slice) :
        i \in 1 .. per /\ start + i \in 1 .. total /\ slice[i] = items[start + i]
  <2> SUFFICES ASSUME NEW i \in 1 .. Len(slice)
               PROVE  i \in 1 .. per /\ start + i \in 1 .. total /\ slice[i] = items[start + i]
      OBVIOUS
  <2>1. i \in 1 .. end - (start + 1) + 1 /\ (start + 1) + i - 1 = start + i  BY <1>4, <1>6
  <2>. QED  BY <1>4, <1>6, <2>1
<1>8. \A i \in 1 .. per : start + i <= total => i \in 1 .. Len(slice)  BY <1>4, <1>6
<1>9. Len(slice) \in Nat  BY <1>4, <1>6
<1>. QED  BY <1>6, <1>7, <1>8, <1>9 DEF slice

\* Where the i-th item of the k-th slice is in the vector.
Place(k, i) == (k - 1) * ItemsPerShard + i
NumSlices(total) == (total + ItemsPerShard - 1) \div ItemsPerShard

\* Every place is in one slice.
LEMMA PlacesCover ==
  ASSUME NEW total \in Nat
  PROVE  /\ NumSlices(total) \in Nat
         /\ \A m \in 1 .. total :
              \E k \in 1 .. NumSlices(total) : \E i \in 1 .. ItemsPerShard : Place(k, i) = m
         /\ \A k, l \in Nat \ {0} : \A i, j \in 1 .. ItemsPerShard :
              Place(k, i) = Place(l, j) => k = l /\ i = j
<1>1. ItemsPerShard \in Nat \ {0}  BY VisitAssumption
<1>2. \A num : num = (total + ItemsPerShard - 1) \div ItemsPerShard =>
        /\ num \in Nat
        /\ \A m \in 1 .. total :
             \E k \in 1 .. num, i \in 1 .. ItemsPerShard : m = (k - 1) * ItemsPerShard + i
        /\ \A k, l \in Nat \ {0}, i, j \in 1 .. ItemsPerShard :
             (k - 1) * ItemsPerShard + i = (l - 1) * ItemsPerShard + j => k = l /\ i = j
      BY <1>1, PlaceInSlice
<1>3. /\ NumSlices(total) \in Nat
      /\ \A m \in 1 .. total :
           \E k \in 1 .. NumSlices(total), i \in 1 .. ItemsPerShard : m = Place(k, i)
      /\ \A k, l \in Nat \ {0}, i, j \in 1 .. ItemsPerShard :
           Place(k, i) = Place(l, j) => k = l /\ i = j
      BY <1>2 DEF NumSlices, Place
<1>. QED  BY <1>3

\* Places of different items differ.
LEMMA PlacesDiffer ==
  ASSUME NEW k \in Nat \ {0}, NEW l \in Nat \ {0},
         NEW i \in 1 .. ItemsPerShard, NEW j \in 1 .. ItemsPerShard, Place(k, i) = Place(l, j)
  PROVE  k = l /\ i = j
<1>1. 0 \in Nat  OBVIOUS
<1>. QED  BY <1>1, PlacesCover

\* Vec::visit cuts the vector.
LEMMA SlicesCut ==
  ASSUME NEW obj \in Objects, NEW p \in Parts(obj), ~InOnePiece(p), p.type.kind = "vec"
  PROVE  /\ \E at : Cut(Slices(p.value), p, at)
         /\ DOMAIN Slices(p.value) = 1 .. Len(Slices(p.value))
<1> PICK items : items = p.value  OBVIOUS
<1>1. IsSequence(items) /\ Len(items) \in Nat /\ DOMAIN items = 1 .. Len(items)  BY PartsAre
<1> PICK num \in Nat : num = NumSlices(Len(items))  BY <1>1, PlacesCover
<1> PICK slices : slices = Slices(items)  OBVIOUS
<1>2. slices = [k \in 1 .. num |-> Slice(items, k)]  BY DEF Slices, Slice, NumSlices
<1>3. IsSequence(slices) /\ Len(slices) = num /\ DOMAIN slices = 1 .. num
      BY <1>2 DEF IsSequence
<1>4. ASSUME NEW k \in 1 .. num
      PROVE  /\ IsSequence(slices[k]) /\ Len(slices[k]) \in Nat
             /\ \A i \in 1 .. Len(slices[k]) :
                  /\ i \in 1 .. ItemsPerShard /\ Place(k, i) \in 1 .. Len(items)
                  /\ slices[k][i] = items[Place(k, i)]
             /\ \A i \in 1 .. ItemsPerShard :
                  Place(k, i) \in 1 .. Len(items) => i \in 1 .. Len(slices[k])
  <2>1. k \in Nat \ {0} /\ slices[k] = Slice(items, k)  BY <1>2
  <2>2. LET slice == Slice(items, k)
        IN /\ IsSequence(slice) /\ Len(slice) \in Nat
           /\ \A i \in 1 .. Len(slice) :
                /\ i \in 1 .. ItemsPerShard
                /\ Place(k, i) \in 1 .. Len(items)
                /\ slice[i] = items[Place(k, i)]
           /\ \A i \in 1 .. ItemsPerShard :
                Place(k, i) <= Len(items) => i \in 1 .. Len(slice)
        BY <1>1, <2>1, SliceIs DEF Place
  <2>. QED  BY <1>1, <2>1, <2>2
<1> DEFINE at == [k \in 1 .. num |-> [i \in 1 .. Len(slices[k]) |-> Place(k, i)]]
<1>5. ASSUME NEW k \in 1 .. num
      PROVE  /\ at[k] \in [1 .. Len(slices[k]) -> DOMAIN items]
             /\ \A i \in 1 .. Len(slices[k]) : at[k][i] = Place(k, i)
      BY <1>1, <1>4
<1> HIDE DEF at
<1>6. ASSUME NEW k \in 1 .. num, NEW l \in 1 .. num,
             NEW i \in 1 .. Len(slices[k]), NEW j \in 1 .. Len(slices[l]), at[k][i] = at[l][j]
      PROVE  k = l /\ i = j
  <2>1. k \in Nat \ {0} /\ l \in Nat \ {0}  OBVIOUS
  <2>2. Place(k, i) = Place(l, j) /\ i \in 1 .. ItemsPerShard /\ j \in 1 .. ItemsPerShard
        BY <1>4, <1>5, <1>6
  <2>. QED  BY <2>1, <2>2, PlacesDiffer
<1>7. ASSUME NEW m \in DOMAIN items
      PROVE  \E k \in 1 .. num : \E i \in 1 .. Len(slices[k]) : at[k][i] = m
  <2>1. m \in 1 .. Len(items)  BY <1>1
  <2>2. \E k \in 1 .. num : \E i \in 1 .. ItemsPerShard : Place(k, i) = m
        BY <1>1, <2>1, PlacesCover
  <2> PICK k \in 1 .. num : \E i \in 1 .. ItemsPerShard : Place(k, i) = m  BY <2>2
  <2>3. PICK i \in 1 .. ItemsPerShard : Place(k, i) = m  OBVIOUS
  <2>4. i \in 1 .. Len(slices[k])  BY <1>4, <2>1, <2>3
  <2>. QED  BY <1>5, <2>3, <2>4
<1>8. Cut(slices, p, at)  BY <1>3, <1>4, <1>5, <1>6, <1>7 DEF Cut
<1>. QED  BY <1>3, <1>8

\* A quotient is no greater than what is divided.
LEMMA QuotientSmall ==
  ASSUME NEW a \in Nat, NEW b \in Nat \ {0}
  PROVE  a \div b \in Nat /\ a \div b <= a
<1>1. \E q \in Nat, r \in 0 .. b - 1 : q = a \div b /\ a = q * b + r  BY DivisionFacts
<1> SUFFICES ASSUME NEW q \in Nat, NEW r \in 0 .. b - 1, a = q * b + r PROVE q <= a  BY <1>1
<1>2. b - 1 \in Nat /\ b = (b - 1) + 1  OBVIOUS
<1> PICK c \in Nat : b = c + 1  BY <1>2
<1>3. q * b = q * c + q /\ q * c \in Nat  OBVIOUS
<1>. QED  BY <1>3

\* HashMap::visit: as many shards as there are, and one if there is an item.
LEMMA NumShardsIs ==
  ASSUME NEW v, IsSequence(v)
  PROVE  /\ NumShards(v) \in Nat /\ NumShards(v) <= Len(v)
         /\ v # <<>> => NumShards(v) > 0
<1>1. Len(v) \in Nat  BY InSeq
<1>2. CASE v = <<>>  BY <1>1, <1>2 DEF NumShards
<1>3. CASE v # <<>>
  <2>1. Len(v) > 0  BY <1>3, TailIs
  <2> PICK total \in Nat : total = Len(v) /\ total > 0  BY <1>1, <2>1
  <2> DEFINE d == total \div ITEMS_PER_BUCKET
  <2>2. d \in Nat /\ d <= total  BY VisitAssumption, QuotientSmall
  <2> HIDE DEF d
  <2>3. Max({d, 1}) = IF d >= 1 THEN d ELSE 1
    <3>1. \A a, b \in Int : Max({a, b}) = IF a >= b THEN a ELSE b  BY OfTwo
    <3>. QED  BY <2>2, <3>1
  <2>4. PICK m \in 1 .. total : m = Max({d, 1})  BY <2>2, <2>3
  <2>5. Min({m, MAX_SHARDS}) = IF m <= MAX_SHARDS THEN m ELSE MAX_SHARDS  BY VisitAssumption, OfTwo
  <2>6. NumShards(v) = Min({m, MAX_SHARDS})  BY <1>3, <2>4 DEF NumShards, d
  <2>. QED  BY <2>5, <2>6, VisitAssumption
<1>. QED  BY <1>2, <1>3

\* A remainder is the number of a bucket.
LEMMA BucketOf ==
  ASSUME NEW n \in Nat \ {0}, NEW k \in Nat
  PROVE  (k % n) + 1 \in 1 .. n /\ \A b \in 1 .. n : k % n = b - 1 <=> b = (k % n) + 1
<1>1. k % n \in 0 .. n - 1  BY DivisionFacts
<1> PICK r \in 0 .. n - 1 : r = k % n  BY <1>1
<1>. QED  OBVIOUS

\* The buckets of a map, and the places of their items.
Buckets(v) == [b \in 1 .. NumShards(v) |-> Bucket(v, b)]
KeysOf(v, b) == {k \in DOMAIN v : k % NumShards(v) = b - 1}

\* HashMap::visit cuts the map.
LEMMA BucketsCut ==
  ASSUME NEW obj \in Objects, NEW p \in Parts(obj), ~InOnePiece(p), p.type.kind = "map"
  PROVE  /\ \E at : Cut(Buckets(p.value), p, at)
         /\ Len(Buckets(p.value)) = NumShards(p.value)
<1> PICK v : v = p.value  OBVIOUS
<1>1. IsSequence(v) /\ Len(v) \in Nat /\ DOMAIN v = 1 .. Len(v)  BY PartsAre
<1> PICK n \in Nat : n = NumShards(v)  BY <1>1, NumShardsIs
<1>2. DOMAIN v # {} => n \in Nat \ {0}
  <2>1. DOMAIN v # {} => v # <<>>  OBVIOUS
  <2>. QED  BY <1>1, <2>1, NumShardsIs
<1> PICK shards : shards = Buckets(v)  OBVIOUS
<1>3. shards = [b \in 1 .. n |-> Bucket(v, b)]  BY DEF Buckets
<1>4. IsSequence(shards) /\ Len(shards) = n  BY <1>3 DEF IsSequence
<1> DEFINE at == [b \in 1 .. n |-> InOrder(KeysOf(v, b))]
<1>5. ASSUME NEW b \in 1 .. n
      PROVE  /\ at[b] = InOrder(KeysOf(v, b)) /\ Lists(at[b], KeysOf(v, b))
             /\ shards[b] = [i \in DOMAIN at[b] |-> <<at[b][i], v[at[b][i]]>>]
  <2>1. at[b] = InOrder(KeysOf(v, b))  OBVIOUS
  <2>2. KeysOf(v, b) \in SUBSET (1 .. Len(v))  BY <1>1 DEF KeysOf
  <2>3. Lists(InOrder(KeysOf(v, b)), KeysOf(v, b))  BY <1>1, <2>2, ListInOrder
  <2>4. shards[b] = Bucket(v, b)  BY <1>3
  <2>5. Bucket(v, b) = [i \in DOMAIN InOrder(KeysOf(v, b)) |->
                          <<InOrder(KeysOf(v, b))[i], v[InOrder(KeysOf(v, b))[i]]>>]
        BY DEF Bucket, KeysOf
  <2> HIDE DEF at
  <2>. QED  BY <2>1, <2>3, <2>4, <2>5
<1> HIDE DEF at
<1>6. ASSUME NEW b \in 1 .. n
      PROVE  /\ IsSequence(shards[b]) /\ Len(shards[b]) = Len(at[b])
             /\ at[b] \in [1 .. Len(shards[b]) -> DOMAIN v]
             /\ \A i \in 1 .. Len(shards[b]) :
                  at[b][i] \in KeysOf(v, b) /\ shards[b][i] = <<at[b][i], v[at[b][i]]>>
  <2> PICK keys : keys = at[b]  OBVIOUS
  <2>1. /\ IsSequence(keys) /\ Len(keys) \in Nat /\ DOMAIN keys = 1 .. Len(keys)
        /\ \A k \in 1 .. Len(keys) : keys[k] \in KeysOf(v, b)
        BY <1>5 DEF Lists
  <2>2. shards[b] = [i \in 1 .. Len(keys) |-> <<keys[i], v[keys[i]]>>]  BY <1>5, <2>1
  <2>3. IsSequence(shards[b]) /\ Len(shards[b]) = Len(keys)  BY <2>1, <2>2 DEF IsSequence
  <2>4. keys \in [1 .. Len(keys) -> DOMAIN v]
    <3>1. keys = [k \in 1 .. Len(keys) |-> keys[k]]  BY <2>1 DEF IsSequence
    <3>2. \A k \in 1 .. Len(keys) : keys[k] \in DOMAIN v  BY <2>1 DEF KeysOf
    <3>. QED  BY <3>1, <3>2
  <2>5. \A i \in 1 .. Len(keys) : shards[b][i] = <<keys[i], v[keys[i]]>>  BY <2>2
  <2>. QED  BY <2>1, <2>3, <2>4, <2>5
<1>7. ASSUME NEW b \in 1 .. n, NEW c \in 1 .. n,
             NEW i \in 1 .. Len(shards[b]), NEW j \in 1 .. Len(shards[c]), at[b][i] = at[c][j]
      PROVE  b = c /\ i = j
  <2>1. at[b][i] \in KeysOf(v, b) /\ at[c][j] \in KeysOf(v, c)  BY <1>6
  <2>2. PICK m : m = at[b][i]  OBVIOUS
  <2>3. m % n = b - 1 /\ m % n = c - 1  BY <1>7, <2>1, <2>2 DEF KeysOf
  <2>4. b = c
    <3>1. m \in Nat /\ n \in Nat \ {0}  BY <1>1, <2>1, <2>2 DEF KeysOf
    <3>. QED  BY <2>3, <3>1, BucketOf
  <2>5. i \in 1 .. Len(at[b]) /\ j \in 1 .. Len(at[b]) /\ at[b][i] = at[b][j]  BY <1>6, <1>7, <2>4
  <2>. QED  BY <1>5, <2>4, <2>5 DEF Lists
<1>8. ASSUME NEW m \in DOMAIN v
      PROVE  \E b \in 1 .. n : \E i \in 1 .. Len(shards[b]) : at[b][i] = m
  <2>1. n \in Nat \ {0} /\ m \in Nat  BY <1>1, <1>2
  <2>2. PICK b \in 1 .. n : m % n = b - 1
    <3>1. (m % n) + 1 \in 1 .. n /\ m % n = ((m % n) + 1) - 1  BY <2>1, BucketOf
    <3>. QED  BY <3>1
  <2>3. m \in KeysOf(v, b)  BY <2>2 DEF KeysOf
  <2>4. \E i \in 1 .. Len(at[b]) : at[b][i] = m  BY <1>5, <2>3 DEF Lists
  <2>. QED  BY <1>6, <2>4
<1>9. Cut(shards, p, at)
  <2>1. \A k \in 1 .. Len(shards) :
          /\ IsSequence(shards[k])
          /\ at[k] \in [1 .. Len(shards[k]) -> DOMAIN p.value]
          /\ \A i \in 1 .. Len(shards[k]) :
               shards[k][i] = IF p.type.kind = "map" THEN <<at[k][i], p.value[at[k][i]]>>
                              ELSE p.value[at[k][i]]
        BY <1>4, <1>6
  <2>2. \A m \in DOMAIN p.value :
          \E k \in 1 .. Len(shards) : \E i \in 1 .. Len(shards[k]) : at[k][i] = m
        BY <1>4, <1>8
  <2>3. \A k, l \in 1 .. Len(shards) :
          \A i \in 1 .. Len(shards[k]), j \in 1 .. Len(shards[l]) :
            at[k][i] = at[l][j] => k = l /\ i = j
        BY <1>4, <1>7
  <2>. QED  BY <1>4, <2>1, <2>2, <2>3 DEF Cut
<1>. QED  BY <1>4, <1>9

\* The items of a shard, as they are inlined, are parts of the object too.
LEMMA ItemsCalled ==
  ASSUME NEW obj \in Objects, NEW c, CallOf(obj, c), c.call = "shard", NEW n \in Nat, NEW calls,
         calls = [i \in DOMAIN c.value |-> VisitInlined(c.type.item, Item(c, i), n)]
  PROVE  /\ IsSequence(c.value) /\ DOMAIN c.value = 1 .. Len(c.value)
         /\ CallsOf(obj, calls, n) /\ Len(calls) = Len(c.value)
<1>1. /\ IsSequence(c.value) /\ c.type.kind \in {"vec", "map"}
      /\ \E p \in Parts(obj) :
           ~InOnePiece(p) /\ \E at \in [1 .. Len(c.value) -> DOMAIN p.value] : ShardOf(c, p, at)
      BY DEF CallOf
<1>2. PICK p \in Parts(obj) :
        ~InOnePiece(p) /\ \E at \in [1 .. Len(c.value) -> DOMAIN p.value] : ShardOf(c, p, at)
      BY <1>1
<1>3. PICK at : at \in [1 .. Len(c.value) -> DOMAIN p.value] /\ ShardOf(c, p, at)  BY <1>2
<1>4. Len(c.value) \in Nat /\ DOMAIN c.value = 1 .. Len(c.value)  BY <1>1, InSeq
<1>5. IsSequence(calls) /\ Len(calls) = Len(c.value)  BY <1>4 DEF IsSequence
<1>6. ASSUME NEW i \in 1 .. Len(calls)
      PROVE  calls[i].parent = n /\ CallOf(obj, calls[i]) /\ n # None
  <2>1. calls[i] = VisitInlined(c.type.item, Item(c, i), n)  BY <1>4, <1>5
  <2>2. p.type = c.type /\ Item(c, i) = p.value[at[i]] /\ at[i] \in DOMAIN p.value
        BY <1>3, <1>5 DEF ShardOf
  <2>3. ItemPart(p, at[i]) \in Parts(obj)
    <3>1. DOMAIN p.value = 1 .. Len(p.value)  BY <1>2, PartsAre
    <3>2. p.type.kind # "struct"  BY <1>1, <2>2
    <3>. QED  BY <1>2, <2>2, <3>1, <3>2, PartsAre
  <2>4. /\ ItemPart(p, at[i]).type = c.type.item /\ ItemPart(p, at[i]).value = Item(c, i)
        /\ ItemPart(p, at[i]).whole = (c.type.item.kind # "struct")
        BY <2>2 DEF ItemPart, Part
  <2> PICK d : d = calls[i]  OBVIOUS
  <2>5. /\ d.call = "visit_inlined" /\ d.type = c.type.item /\ d.value = Item(c, i) /\ d.parent = n
        BY <2>1 DEF VisitInlined
  <2>6. CallOf(obj, d)  BY <2>3, <2>4, <2>5 DEF CallOf
  <2>. QED  BY <2>5, <2>6, VisitAssumption
<1> HIDE DEF VisitInlined
<1>7. CallsOf(obj, calls, n)  BY <1>5, <1>6 DEF CallsOf
<1>. QED  BY <1>1, <1>4, <1>5, <1>7
-----------------------------------------------------------------------------
(***************************************************************************)
(* The stack of visits.                                                    *)
(***************************************************************************)
\* write starts with the call for the object.
LEMMA StackStarts == Init => StackInv
<1> SUFFICES ASSUME Init PROVE StackInv  OBVIOUS
<1>1. RootPart(object) \in Parts(object)  BY RootIsPart DEF Init
<1> PICK c : c = VisitCall(object.type, object.value, None, None)  OBVIOUS
<1>2. stack = <<Frame(None, <<c>>, Return)>>  BY DEF Init
<1>3. c.call = "visit" /\ c.parent = None /\ Visited(c) = RootPart(object)
      BY DEF VisitCall, Visited, RootPart
<1>4. CallOf(object, c)  BY <1>1, <1>3 DEF CallOf
<1>5. IsSequence(<<c>>) /\ Len(<<c>>) = 1 /\ <<c>>[1] = c  BY DEF IsSequence
<1>6. CallsOf(object, <<c>>, None)  BY <1>3, <1>4, <1>5 DEF CallsOf
<1>7. IsSequence(stack) /\ Len(stack) = 1 /\ stack[1] = Frame(None, <<c>>, Return)
      BY <1>2 DEF IsSequence
<1>8. stack[1].node = None /\ stack[1].calls = <<c>>  BY <1>7 DEF Frame
<1>9. count = 0 /\ job = [n \in 0 .. N - 1 |-> "none"]
      BY DEF Init, Graph!GraphInit, Graph!ChunkId
<1>. QED  BY <1>5, <1>6, <1>7, <1>8, <1>9, VisitAssumption DEF Init, StackInv

\* The call that is made next is for the node of the visit that makes it.
LEMMA TopCall ==
  ASSUME StackInv, Top.calls # <<>>
  PROVE  /\ object \in Objects /\ IsSequence(Top.calls) /\ Call = Top.calls[1] /\ Len(Top.calls) > 0
         /\ Call.parent = Top.node /\ CallOf(object, Call)
         /\ CallsOf(object, Tail(Top.calls), Top.node)
         /\ Len(Tail(Top.calls)) = Len(Top.calls) - 1
         /\ \A i \in 1 .. Len(Top.calls) - 1 : Tail(Top.calls)[i] = Top.calls[i + 1]
         /\ IF Len(stack) = 1
              THEN count = 0 /\ Top.node = None /\ Tail(Top.calls) = <<>> /\ Call.call = "visit"
              ELSE count > 0 /\ Top.node \in 0 .. count - 1 /\ Top.node # None
<1>1. Len(stack) \in Nat /\ Len(stack) > 0  BY InSeq DEF StackInv
<1> DEFINE calls == Top.calls
           node == Top.node
           rest == Tail(calls)
<1>2. CallsOf(object, calls, node)  BY <1>1 DEF StackInv, Top
<1>3. IsSequence(calls) /\ calls # <<>>  BY <1>2 DEF CallsOf
<1> HIDE DEF calls, node
<1>4. /\ IsSequence(rest) /\ Len(calls) > 0 /\ Len(rest) = Len(calls) - 1
      /\ Head(calls) = calls[1] /\ Len(calls) \in Nat
      /\ \A i \in 1 .. Len(calls) - 1 : rest[i] = calls[i + 1]
      BY <1>3, TailIs, InSeq
<1> HIDE DEF rest
<1>5. 1 \in 1 .. Len(calls) /\ \A i \in 1 .. Len(calls) - 1 : i + 1 \in 1 .. Len(calls)
      BY <1>4
<1>6. /\ calls[1].parent = node /\ CallOf(object, calls[1])
      /\ node = None => calls[1].call = "visit"
  <2>1. \A i \in 1 .. Len(calls) :
          calls[i].parent = node /\ CallOf(object, calls[i]) /\ (node = None => calls[i].call = "visit")
        BY <1>2 DEF CallsOf
  <2>. QED  BY <1>5, <2>1
<1>7. CallsOf(object, rest, node)
  <2>1. \A i \in 1 .. Len(rest) : rest[i] = calls[i + 1] /\ i + 1 \in 1 .. Len(calls)
        BY <1>4, <1>5
  <2>. QED  BY <1>2, <1>4, <2>1 DEF CallsOf
<1>10. Top.calls = calls /\ Top.node = node /\ Tail(Top.calls) = rest /\ Call = Head(calls)
       BY DEF calls, node, rest, Call
<1>8. CASE Len(stack) = 1
  <2>1. Top = stack[1]  BY <1>8 DEF Top
  <2>2. count = 0 /\ Len(calls) = 1 /\ node = None
        BY <1>3, <2>1 DEF StackInv, calls, node
  <2>3. rest = <<>>
    <3>1. Len(rest) = 0  BY <1>4, <2>2
    <3>. QED  BY <1>4, <3>1, EmptyIs
  <2>. QED  BY <1>3, <1>4, <1>6, <1>7, <1>8, <1>10, <2>2, <2>3 DEF StackInv
<1>9. CASE Len(stack) # 1
  <2>1. Len(stack) \in 2 .. Len(stack)  BY <1>1, <1>9
  <2>2. FrameTrue(Top, count, job)  BY <2>1 DEF StackInv, Top
  <2>3. count > 0 /\ node \in 0 .. count - 1 /\ node # None
        BY <1>9, <2>2, VisitAssumption DEF FrameTrue, StackInv, node
  <2>. QED  BY <1>3, <1>4, <1>6, <1>7, <1>9, <1>10, <2>3 DEF StackInv
<1>. QED  BY <1>8, <1>9

\* The frame of the visit in progress once it has made its next call.
Rest == Frame(Top.node, Tail(Top.calls), Top.after)

\* The frame in progress changed, and another above it.
LEMMA PushIs ==
  ASSUME NEW s, NEW n, NEW rest, NEW frame, NEW made, NEW t,
         Updated(made, s, n, rest), Appended(t, made, frame),
         IsSequence(s), n \in Nat, n = Len(s), n > 0
  PROVE  /\ IsSequence(t) /\ Len(t) = n + 1
         /\ \A k \in 1 .. n - 1 : t[k] = s[k]
         /\ t[n] = rest /\ t[n + 1] = frame
<1>1. n \in 1 .. Len(s)  OBVIOUS
<1>2. /\ IsSequence(made) /\ Len(made) = Len(s)
      /\ \A k \in 1 .. Len(s) : made[k] = IF k = n THEN rest ELSE s[k]
      BY <1>1, UpdateIs
<1>3. /\ IsSequence(t) /\ Len(t) = Len(made) + 1
      /\ \A k \in 1 .. Len(made) : t[k] = made[k]
      /\ t[Len(made) + 1] = frame
      BY <1>2, AppendIs
<1>. QED  BY <1>2, <1>3

\* A call that adds a node is a frame above the one that made it.
LEMMA StackGrows ==
  ASSUME StackInv, Top.calls # <<>>, NEW frame, Appended(stack', Inlined(<<>>), frame)
  PROVE  /\ Len(stack) \in Nat /\ Len(stack) > 0
         /\ IsSequence(stack') /\ Len(stack') = Len(stack) + 1
         /\ \A k \in 1 .. Len(stack) - 1 : stack'[k] = stack[k]
         /\ stack'[Len(stack)] = Rest /\ stack'[Len(stack) + 1] = frame
<1> PICK n : n = Len(stack)  OBVIOUS
<1>1. n \in Nat /\ n > 0 /\ IsSequence(stack)  BY InSeq DEF StackInv
<1> DEFINE rest == Tail(Top.calls)
<1>2. IsSequence(rest)  BY TopCall DEF CallsOf
<1> HIDE DEF rest
<1>3. <<>> \o rest = rest
  <2>1. rest \in Seq(ToSet(rest))  BY <1>2, InSeq
  <2>. QED  BY <2>1, ConcatEmptySeq
<1>4. Inlined(<<>>) = [stack EXCEPT ![n] = Rest]
  <2>1. Rest = Frame(Top.node, <<>> \o rest, Top.after)  BY <1>3 DEF Rest, rest
  <2>2. Inlined(<<>>) = [stack EXCEPT ![n] = Frame(Top.node, <<>> \o rest, Top.after)]
        BY DEF Inlined, rest
  <2>. QED  BY <2>1, <2>2
<1>5. Updated(Inlined(<<>>), stack, n, Rest)  BY <1>4 DEF Updated
<1> PICK made, new, old, top : made = Inlined(<<>>) /\ new = stack' /\ old = stack /\ top = Rest
    OBVIOUS
<1>6. Updated(made, old, n, top) /\ Appended(new, made, frame) /\ IsSequence(old) /\ n = Len(old)
      BY <1>1, <1>5
<1>7. /\ IsSequence(new) /\ Len(new) = n + 1
      /\ \A k \in 1 .. n - 1 : new[k] = old[k]
      /\ new[n] = top /\ new[n + 1] = frame
      BY <1>1, <1>6, PushIs
<1>. QED  BY <1>1, <1>7

\* Two sequences with the same elements.
LEMMA SameIs ==
  ASSUME NEW s, NEW t, IsSequence(s), IsSequence(t), Len(s) = Len(t),
         \A i \in 1 .. Len(s) : s[i] = t[i]
  PROVE  s = t
BY DEF IsSequence

\* The nodes of the frames above the first, see Visiting.
NodesOf(frames) == [k \in 1 .. Len(frames) - 1 |-> frames[k + 1].node]

\* They are a path.
LEMMA NodesAre ==
  ASSUME NEW s, IsSequence(s), Len(s) > 0
  PROVE  /\ IsSequence(NodesOf(s)) /\ Len(NodesOf(s)) = Len(s) - 1 /\ Len(s) - 1 \in Nat
         /\ \A k \in 1 .. Len(s) - 1 : NodesOf(s)[k] = s[k + 1].node
<1> PICK n \in Nat : n = Len(s) - 1
  <2>1. Len(s) \in Nat  BY InSeq
  <2>. QED  BY <2>1
<1>1. NodesOf(s) = [k \in 1 .. n |-> s[k + 1].node]  BY DEF NodesOf
<1> HIDE DEF NodesOf
<1>. QED  BY <1>1 DEF IsSequence

\* A visit in a visit makes it longer.
LEMMA NodesPushed ==
  ASSUME NEW s, NEW t, IsSequence(s), IsSequence(t), Len(s) > 0, Len(t) = Len(s) + 1,
         \A k \in 1 .. Len(s) : t[k].node = s[k].node
  PROVE  NodesOf(t) = Append(NodesOf(s), t[Len(t)].node)
<1> PICK v, w : v = NodesOf(s) /\ w = NodesOf(t)  OBVIOUS
<1> PICK n : n = Len(s) - 1  OBVIOUS
<1>1. IsSequence(v) /\ Len(v) = n /\ n \in Nat /\ \A k \in 1 .. n : v[k] = s[k + 1].node
      BY NodesAre
<1>2. IsSequence(w) /\ Len(w) = n + 1 /\ \A k \in 1 .. n + 1 : w[k] = t[k + 1].node
  <2>1. Len(s) \in Nat  BY InSeq
  <2>2. Len(t) > 0 /\ Len(t) - 1 = n + 1  BY <2>1
  <2>3. IsSequence(w) /\ Len(w) = Len(t) - 1 /\ \A k \in 1 .. Len(t) - 1 : w[k] = t[k + 1].node
        BY <2>2, NodesAre
  <2>. QED  BY <2>2, <2>3
<1>3. ASSUME NEW e, NEW u, Appended(u, v, e)
      PROVE  IsSequence(u) /\ Len(u) = n + 1 /\ (\A k \in 1 .. n : u[k] = v[k]) /\ u[n + 1] = e
  <2>1. IsSequence(v)  BY <1>1
  <2>2. /\ IsSequence(u) /\ Len(u) = Len(v) + 1
        /\ \A i \in 1 .. Len(v) : u[i] = v[i]
        /\ u[Len(v) + 1] = e
        BY <1>3, <2>1, AppendIs
  <2>. QED  BY <1>1, <2>2
<1>4. \A u : Appended(u, v, t[n + 2].node) => u = w
  <2> SUFFICES ASSUME NEW u, Appended(u, v, t[n + 2].node) PROVE u = w  OBVIOUS
  <2>1. IsSequence(u) /\ Len(u) = n + 1 /\ (\A k \in 1 .. n : u[k] = v[k]) /\ u[n + 1] = t[n + 2].node
        BY <1>3
  <2>2. ASSUME NEW k \in 1 .. n + 1 PROVE u[k] = w[k]
    <3>1. CASE k = n + 1
      <4>1. k + 1 = n + 2  BY <1>1, <3>1
      <4>. QED  BY <1>2, <2>1, <3>1, <4>1
    <3>2. CASE k # n + 1
      <4>1. k \in 1 .. n /\ k + 1 \in 1 .. Len(s)  BY <1>1, <3>2, InSeq
      <4>2. t[k + 1].node = s[k + 1].node  BY <4>1
      <4>. QED  BY <1>1, <1>2, <2>1, <4>1, <4>2
    <3>. QED  BY <3>1, <3>2
  <2>. QED  BY <1>2, <2>1, <2>2, SameIs
<1>5. Len(t) = n + 2  BY <1>1, InSeq
<1>. QED  BY <1>4, <1>5 DEF Appended

\* A visit that returns makes it shorter.
LEMMA NodesPopped ==
  ASSUME NEW s, NEW t, IsSequence(s), IsSequence(t), Len(t) > 0, Len(s) = Len(t) + 1,
         \A k \in 1 .. Len(t) : t[k] = s[k]
  PROVE  NodesOf(t) = SubSeq(NodesOf(s), 1, Len(NodesOf(s)) - 1)
<1> PICK v, w : v = NodesOf(s) /\ w = NodesOf(t)  OBVIOUS
<1> PICK n : n = Len(t)  OBVIOUS
<1>1. n \in Nat /\ n > 0 /\ Len(s) > 0 /\ Len(s) - 1 = n  BY InSeq
<1>2. IsSequence(v) /\ Len(v) = n /\ \A k \in 1 .. n : v[k] = s[k + 1].node
  <2>1. /\ IsSequence(v) /\ Len(v) = Len(s) - 1
        /\ \A k \in 1 .. Len(s) - 1 : v[k] = s[k + 1].node
        BY <1>1, NodesAre
  <2>. QED  BY <1>1, <2>1
<1>3. IsSequence(w) /\ Len(w) = n - 1 /\ \A k \in 1 .. n - 1 : w[k] = t[k + 1].node
      BY NodesAre
<1>4. /\ IsSequence(SubSeq(v, 1, n - 1)) /\ Len(SubSeq(v, 1, n - 1)) = n - 1
      /\ \A k \in 1 .. n - 1 : SubSeq(v, 1, n - 1)[k] = v[k]
  <2>1. 1 \in Nat \ {0} /\ n - 1 \in Nat /\ n - 1 <= Len(v)  BY <1>1, <1>2
  <2>2. /\ IsSequence(SubSeq(v, 1, n - 1))
        /\ Len(SubSeq(v, 1, n - 1)) = IF 1 <= n - 1 THEN (n - 1) - 1 + 1 ELSE 0
        /\ \A i \in 1 .. (n - 1) - 1 + 1 : SubSeq(v, 1, n - 1)[i] = v[1 + i - 1]
        BY <1>2, <2>1, SubSeqOf
  <2>3. \A i \in 1 .. n - 1 : 1 + i - 1 = i /\ i \in 1 .. (n - 1) - 1 + 1  BY <1>1
  <2>. QED  BY <1>1, <2>2, <2>3
<1>5. \A k \in 1 .. n - 1 : k \in 1 .. n /\ k + 1 \in 1 .. n  BY <1>1
<1>6. \A u : /\ IsSequence(u) /\ Len(u) = n - 1
             /\ \A k \in 1 .. n - 1 : u[k] = v[k]
             => u = w
  <2> SUFFICES ASSUME NEW u, IsSequence(u), Len(u) = n - 1, \A k \in 1 .. n - 1 : u[k] = v[k]
               PROVE  u = w
      OBVIOUS
  <2>1. \A k \in 1 .. n - 1 : u[k] = w[k]  BY <1>2, <1>3, <1>5
  <2>. QED  BY <1>3, <2>1, SameIs
<1>. QED  BY <1>2, <1>4, <1>6

\* The call of a visitor that adds a node, whatever the visitor.
LEMMA CallPushed ==
  ASSUME StackInv, Top.calls # <<>>,
         NEW kind, NEW what, NEW conf, NEW calls, NEW after, AddNode(kind, what, conf, calls, after),
         CallsOf(object, calls, count),
         \/ kind = "final" /\ after.then = "return"
         \/ kind = "placeholder" /\ after.then = "replace" /\ Call.call # "visit"
  PROVE  StackInv' /\ Graph!Visit
<1> DEFINE n == Len(stack)
           frame == Frame(count, calls, after)
<1>1. /\ count < N /\ count' = count + 1 /\ job' = [job EXCEPT ![count] = kind]
      /\ object' = object /\ Appended(stack', Inlined(<<>>), frame)
      BY DEF AddNode, AddLinked, Graph!AddNode, Appended
<1>2. /\ n \in Nat /\ n > 0 /\ IsSequence(stack') /\ Len(stack') = n + 1
      /\ \A k \in 1 .. n - 1 : stack'[k] = stack[k]
      /\ stack'[n] = Rest /\ stack'[n + 1] = frame
      BY <1>1, StackGrows
<1>3. /\ object \in Objects /\ count \in 0 .. N
      /\ job \in [0 .. N - 1 -> {"none", "final", "placeholder"}]
      /\ \A k \in 1 .. n : CallsOf(object, stack[k].calls, stack[k].node)
      /\ stack[1].node = None
      /\ \A k \in 2 .. n : FrameTrue(stack[k], count, job)
      /\ \A k, l \in 2 .. n : k < l => stack[k].node < stack[l].node
      BY DEF StackInv
<1>4. /\ CallsOf(object, Tail(Top.calls), Top.node)
      /\ IF n = 1 THEN count = 0 /\ Top.node = None /\ Tail(Top.calls) = <<>> /\ Call.call = "visit"
                  ELSE count > 0 /\ Top.node \in 0 .. count - 1 /\ Top.node # None
      /\ Call.parent = Top.node
      BY TopCall
<1>5. /\ Rest.node = Top.node /\ Rest.calls = Tail(Top.calls) /\ Rest.after = Top.after
      /\ frame.node = count /\ frame.calls = calls /\ frame.after = after
      BY DEF Rest, Frame
<1>6. \A k \in 1 .. n : stack'[k].node = stack[k].node /\ stack'[k].after = stack[k].after
  <2>1. Top = stack[n]  BY DEF Top
  <2>2. \A k \in 1 .. n : k = n \/ k \in 1 .. n - 1  BY <1>2
  <2> HIDE DEF n, frame
  <2>. QED  BY <1>2, <1>5, <2>1, <2>2
<1> HIDE DEF n, frame
<1>7. \A k \in 1 .. n + 1 : CallsOf(object', stack'[k].calls, stack'[k].node)
  <2>1. \A k \in 1 .. n + 1 : k \in 1 .. n - 1 \/ k = n \/ k = n + 1  BY <1>2
  <2>2. \A k \in 1 .. n - 1 : k \in 1 .. n  BY <1>2
  <2>. QED  BY <1>1, <1>2, <1>3, <1>4, <1>5, <2>1, <2>2
<1>8. count \in 0 .. N - 1 /\ N \in Nat  BY <1>1, <1>3, VisitAssumption
<1>9. job' \in [0 .. N - 1 -> {"none", "final", "placeholder"}] /\ job'[count] = kind
      /\ \A m \in 0 .. count - 1 : job'[m] = job[m]
      BY <1>1, <1>3, <1>8
<1>15. ASSUME NEW f, f.node = count, f.after = after PROVE FrameTrue(f, count + 1, job')
  <2>1. f.node \in 0 .. (count + 1) - 1 /\ job'[f.node] = kind  BY <1>8, <1>9, <1>15
  <2>2. \/ kind = "final" /\ f.after.then = "return"
        \/ kind = "placeholder" /\ f.after.then = "replace"
        BY <1>15
  <2>. QED  BY <2>1, <2>2 DEF FrameTrue
<1>16. ASSUME NEW f, NEW g, FrameTrue(f, count, job), g.node = f.node, g.after = f.after
       PROVE  FrameTrue(g, count + 1, job')
  <2>1. f.node \in 0 .. count - 1  BY <1>16 DEF FrameTrue
  <2>2. job'[f.node] = job[f.node] /\ g.node \in 0 .. (count + 1) - 1  BY <1>8, <1>9, <1>16, <2>1
  <2>. QED  BY <1>16, <2>2 DEF FrameTrue
<1>10. \A k \in 2 .. n + 1 : FrameTrue(stack'[k], count + 1, job')
  <2> SUFFICES ASSUME NEW k \in 2 .. n + 1 PROVE FrameTrue(stack'[k], count + 1, job')  OBVIOUS
  <2>1. CASE k = n + 1
    <3>1. stack'[k].node = count /\ stack'[k].after = after  BY <1>2, <1>5, <2>1
    <3>. QED  BY <1>15, <3>1
  <2>2. CASE k # n + 1
    <3>1. k \in 2 .. n /\ k \in 1 .. n  BY <1>2, <2>2
    <3>2. FrameTrue(stack[k], count, job) /\ stack'[k].node = stack[k].node
          /\ stack'[k].after = stack[k].after
          BY <1>3, <1>6, <3>1
    <3>. QED  BY <1>16, <3>2
  <2>. QED  BY <2>1, <2>2
<1>11. \A k, l \in 2 .. n + 1 : k < l => stack'[k].node < stack'[l].node
  <2> SUFFICES ASSUME NEW k \in 2 .. n + 1, NEW l \in 2 .. n + 1, k < l
               PROVE  stack'[k].node < stack'[l].node
      OBVIOUS
  <2>1. k \in 2 .. n /\ k \in 1 .. n  BY <1>2
  <2>2. FrameTrue(stack[k], count, job) /\ stack'[k].node = stack[k].node  BY <1>3, <1>6, <2>1
  <2>3. CASE l = n + 1
    <3>1. stack'[l].node = count  BY <1>2, <1>5, <2>3
    <3>. QED  BY <1>8, <2>2, <3>1 DEF FrameTrue
  <2>4. CASE l # n + 1
    <3>1. l \in 2 .. n /\ l \in 1 .. n  BY <1>2, <2>4
    <3>. QED  BY <1>3, <1>6, <2>1, <3>1
  <2>. QED  BY <2>3, <2>4
<1>12. stack'[1].node = None /\ stack'[1].calls = <<>>
  <2>1. CASE n = 1  BY <1>2, <1>4, <1>5, <2>1
  <2>2. CASE n # 1
    <3>1. 1 \in 1 .. n - 1  BY <1>2, <2>2
    <3>2. stack[1].calls = <<>>  BY <1>4, <2>2 DEF StackInv, n
    <3>. QED  BY <1>2, <1>3, <3>1, <3>2
  <2>. QED  BY <2>1, <2>2
<1>13. StackInv'
  <2>1. object' \in Objects /\ count' \in 0 .. N /\ count' # 0 /\ count' = count + 1
        BY <1>1, <1>3, <1>8
  <2>2. IsSequence(stack') /\ Len(stack') > 0 /\ Len(stack') = n + 1  BY <1>2
  <2>. QED  BY <1>7, <1>9, <1>10, <1>11, <1>12, <2>1, <2>2 DEF StackInv
<1>14. Graph!Visit
  <2>1. /\ Visiting = NodesOf(stack) /\ Visiting' = NodesOf(stack')
        BY DEF Visiting, NodesOf
  <2>2. Visiting' = Append(Visiting, count)
    <3>1. IsSequence(stack) /\ Len(stack) = n /\ Len(stack') = Len(stack) + 1
          BY <1>2 DEF StackInv, n
    <3> PICK s, t : s = stack /\ t = stack'  OBVIOUS
    <3>2. /\ IsSequence(s) /\ IsSequence(t) /\ Len(s) > 0 /\ Len(t) = Len(s) + 1
          /\ \A k \in 1 .. Len(s) : t[k].node = s[k].node
          BY <1>2, <1>6, <3>1
    <3>3. NodesOf(t) = Append(NodesOf(s), t[Len(t)].node)  BY <3>2, NodesPushed
    <3>4. t[Len(t)].node = count  BY <1>2, <1>5
    <3>. QED  BY <2>1, <3>3, <3>4
  <2>3. CASE n = 1
    <3>1. Visiting = <<>>
      <4>1. IsSequence(stack) /\ Len(stack) = 1  BY <2>3 DEF StackInv, n
      <4>2. IsSequence(NodesOf(stack)) /\ Len(NodesOf(stack)) = 0  BY <4>1, NodesAre
      <4>. QED  BY <2>1, <4>2, EmptyIs
    <3>2. Visiting' = <<0>>  BY <1>4, <2>2, <2>3, <3>1
    <3>3. kind = "final" /\ Call.parent = None  BY <1>4, <2>3
    <3>4. Graph!AddNode("final") /\ UNCHANGED <<parent, parent_slot, atomic_deps, completed>>
          BY <3>3 DEF AddNode, AddLinked
    <3>. QED  BY <1>4, <2>3, <3>2, <3>4 DEF Graph!Visit, Graph!VisitRoot, Graph!Root
  <2>4. CASE n # 1
    <3>1. n - 1 \in Nat /\ n - 1 > 0 /\ n - 1 \in 1 .. n - 1 /\ (n - 1) + 1 = n  BY <1>2, <2>4
    <3>2. /\ Len(Visiting) = n - 1 /\ Visiting # <<>> /\ Visiting[n - 1] = stack[n].node
      <4>1. IsSequence(stack) /\ Len(stack) = n  BY DEF StackInv, n
      <4>2. /\ Len(NodesOf(stack)) = n - 1
            /\ \A k \in 1 .. n - 1 : NodesOf(stack)[k] = stack[k + 1].node
            BY <1>2, <4>1, NodesAre
      <4>. QED  BY <2>1, <3>1, <4>2
    <3>3. Visiting[Len(Visiting)] = Call.parent /\ Call.parent # None
      <4>1. Top = stack[n]  BY DEF Top, n
      <4>. QED  BY <1>4, <2>4, <3>2, <4>1
    <3>4. Graph!AddNode(kind) /\ Graph!LinkParentChild(Call.parent, count)
          BY <3>3 DEF AddNode, AddLinked
    <3>5. kind = "final" \/ kind = "placeholder"  OBVIOUS
    <3> HIDE DEF Visiting
    <3>. QED  BY <2>2, <3>2, <3>3, <3>4, <3>5 DEF Graph!Visit, Graph!VisitChild
  <2>. QED  BY <2>3, <2>4
<1>. QED  BY <1>13, <1>14

\* A visitor that makes no calls.
LEMMA NoCalls == ASSUME NEW obj, NEW n PROVE CallsOf(obj, <<>>, n)
BY DEF CallsOf, IsSequence

\* The call for a part with a chunk of its own.
LEMMA VisitedPart ==
  ASSUME StackInv, Top.calls # <<>>, Call.call = "visit"
  PROVE  /\ object \in Objects /\ Visited(Call) \in Parts(object) /\ count \in Nat
         /\ Visited(Call).type = Call.type /\ Visited(Call).value = Call.value
         /\ Visited(Call).config = Call.config /\ Visited(Call).whole = FALSE
<1> PICK c : c = Call  OBVIOUS
<1>1. CallOf(object, c) /\ c.call = "visit"  BY TopCall
<1>2. Visited(c) \in Parts(object)  BY <1>1 DEF CallOf
<1>3. object \in Objects /\ count \in 0 .. N  BY DEF StackInv
<1>4. count \in Nat  BY <1>3, VisitAssumption
<1>. QED  BY <1>2, <1>3, <1>4 DEF Visited, Part

\* The visitors of primitives and of maps in one piece.
LEMMA PrimitiveStep == ASSUME StackInv, VisitPrimitive \/ VisitPlainMap PROVE StackInv' /\ Graph!Visit
<1>1. Top.calls # <<>>  BY DEF VisitPrimitive, VisitPlainMap, Called
<1>2. \E what, conf : AddNode("final", what, conf, <<>>, Return)
      BY DEF VisitPrimitive, VisitPlainMap
<1>3. Return.then = "return"  BY DEF Return
<1>. QED  BY <1>1, <1>2, <1>3, NoCalls, CallPushed

\* The macro's visitor of a structure.
LEMMA StructStep == ASSUME StackInv, VisitStruct PROVE StackInv' /\ Graph!Visit
<1>1. Top.calls # <<>> /\ Call.call = "visit" /\ Call.type.kind = "struct"
      BY DEF VisitStruct, Called
<1> PICK p : p = Visited(Call)  OBVIOUS
<1>2. /\ object \in Objects /\ p \in Parts(object) /\ count \in Nat
      /\ p.type = Call.type /\ p.value = Call.value /\ ~p.whole
      BY <1>1, VisitedPart
<1>3. ~InOnePiece(p)  BY <1>1, <1>2 DEF InOnePiece
<1> PICK calls : calls = VisitRemotes(Call.type, Call.value, count)  OBVIOUS
<1>4. CallsOf(object, calls, count)  BY <1>1, <1>2, <1>3, RemotesCalled
<1>5. \E what, conf : AddNode("final", what, conf, calls, Return)  BY DEF VisitStruct
<1>6. Return.then = "return"  BY DEF Return
<1>. QED  BY <1>1, <1>4, <1>5, <1>6, CallPushed

\* Vec::visit.
LEMMA VecStep == ASSUME StackInv, VisitVec PROVE StackInv' /\ Graph!Visit
<1>1. Top.calls # <<>> /\ Call.call = "visit" /\ Call.type.kind = "vec"
      BY DEF VisitVec, Called
<1> PICK p : p = Visited(Call)  OBVIOUS
<1>2. /\ object \in Objects /\ p \in Parts(object) /\ count \in Nat
      /\ p.type = Call.type /\ p.value = Call.value /\ p.config = Call.config /\ ~p.whole
      BY <1>1, VisitedPart
<1>3. ~InOnePiece(p)  BY <1>1, <1>2 DEF InOnePiece
<1> PICK slices : slices = Slices(Call.value)  OBVIOUS
<1>4. (\E at : Cut(slices, p, at)) /\ DOMAIN slices = 1 .. Len(slices)
      BY <1>1, <1>2, <1>3, SlicesCut
<1> PICK calls : calls = ShardCalls(p, slices, count)  OBVIOUS
<1>5. CallsOf(object, calls, count)  BY <1>1, <1>2, <1>3, <1>4, ShardsCalled
<1>6. calls = [k \in DOMAIN slices |-> ShardCall(Call.type, slices[k], count, Call.config)]
      BY <1>2, <1>4 DEF ShardCalls
<1>7. \E what, conf : AddNode("final", what, conf, calls, Return)  BY <1>6 DEF VisitVec
<1>8. Return.then = "return"  BY DEF Return
<1>. QED  BY <1>1, <1>5, <1>7, <1>8, CallPushed

\* HashMap's visitor, with the map in shards.
LEMMA MapStep == ASSUME StackInv, VisitMap PROVE StackInv' /\ Graph!Visit
<1>1. /\ Top.calls # <<>> /\ Call.call = "visit" /\ Call.type.kind = "map"
      /\ IsMapOptimized(Call.config)
      BY DEF VisitMap, Called
<1> PICK p : p = Visited(Call)  OBVIOUS
<1>2. /\ object \in Objects /\ p \in Parts(object) /\ count \in Nat
      /\ p.type = Call.type /\ p.value = Call.value /\ p.config = Call.config /\ ~p.whole
      BY <1>1, VisitedPart
<1>3. ~InOnePiece(p)  BY <1>1, <1>2 DEF InOnePiece
<1> PICK shards : shards = Buckets(Call.value)  OBVIOUS
<1>4. (\E at : Cut(shards, p, at)) /\ Len(shards) = NumShards(Call.value)
      BY <1>1, <1>2, <1>3, BucketsCut
<1> PICK calls : calls = ShardCalls(p, shards, count)  OBVIOUS
<1>5. CallsOf(object, calls, count)  BY <1>1, <1>2, <1>3, <1>4, ShardsCalled
<1>6. calls = [b \in 1 .. NumShards(Call.value) |->
                 ShardCall(Call.type, Bucket(Call.value, b), count, Call.config)]
      BY <1>2, <1>4 DEF ShardCalls, Buckets
<1>7. \E what, conf : AddNode("final", what, conf, calls, Return)  BY <1>6 DEF VisitMap
<1>8. Return.then = "return"  BY DEF Return
<1>. QED  BY <1>1, <1>5, <1>7, <1>8, CallPushed

\* The nodes of shards.
LEMMA ShardStep == ASSUME StackInv, AddVecShard \/ AddMapShard PROVE StackInv' /\ Graph!Visit
<1>1. Top.calls # <<>> /\ Call.call = "shard"  BY DEF AddVecShard, AddMapShard, Called
<1>2. object \in Objects /\ CallOf(object, Call) /\ count \in Nat
  <2>1. count \in 0 .. N  BY DEF StackInv
  <2>. QED  BY <1>1, <2>1, TopCall, VisitAssumption
<1> PICK calls : calls = [i \in DOMAIN Call.value |-> VisitInlined(Call.type.item, Item(Call, i), count)]
    OBVIOUS
<1>3. CallsOf(object, calls, count)  BY <1>1, <1>2, ItemsCalled
<1>4. CASE AddVecShard
  <2>1. \A i : Item(Call, i) = Call.value[i]  BY <1>4 DEF AddVecShard, Called, Item
  <2>2. \E what, conf : AddNode("final", what, conf, calls, Return)
        BY <1>4, <2>1 DEF AddVecShard
  <2>3. Return.then = "return"  BY DEF Return
  <2>. QED  BY <1>1, <1>3, <2>2, <2>3, CallPushed
<1>5. CASE AddMapShard
  <2>1. \A i : Item(Call, i) = Call.value[i][2]  BY <1>5 DEF AddMapShard, Called, Item
  <2>2. \E what, new, conf : AddNode("placeholder", what, None, calls, Replace(new, conf))
        BY <1>5, <2>1 DEF AddMapShard
  <2>3. \A new, conf : Replace(new, conf).then = "replace"  BY DEF Replace
  <2>. QED  BY <1>1, <1>3, <2>2, <2>3, CallPushed
<1>. QED  BY <1>4, <1>5

\* The calls of an inlined visit, before those still to be made.
LEMMA CallsJoined ==
  ASSUME NEW obj, NEW a, NEW b, NEW n, CallsOf(obj, a, n), CallsOf(obj, b, n)
  PROVE  CallsOf(obj, a \o b, n)
<1>1. IsSequence(a) /\ IsSequence(b) /\ Len(a) \in Nat /\ Len(b) \in Nat  BY InSeq DEF CallsOf
<1> PICK c : c = a \o b  OBVIOUS
<1>2. /\ IsSequence(c) /\ Len(c) = Len(a) + Len(b)
      /\ \A i \in 1 .. Len(a) : c[i] = a[i]
      /\ \A i \in 1 .. Len(b) : c[Len(a) + i] = b[i]
      BY <1>1, ConcatIs
<1>3. ASSUME NEW i \in 1 .. Len(c)
      PROVE  c[i].parent = n /\ CallOf(obj, c[i]) /\ (n = None => c[i].call = "visit")
  <2>1. CASE i <= Len(a)
    <3>1. i \in 1 .. Len(a)  BY <1>1, <1>2, <2>1
    <3>. QED  BY <1>2, <3>1 DEF CallsOf
  <2>2. CASE ~(i <= Len(a))
    <3>1. i - Len(a) \in 1 .. Len(b) /\ i = Len(a) + (i - Len(a))  BY <1>1, <1>2, <2>2
    <3>2. PICK j \in 1 .. Len(b) : i = Len(a) + j  BY <3>1
    <3>3. c[i] = b[j]  BY <1>2, <3>2
    <3>. QED  BY <3>3 DEF CallsOf
  <2>. QED  BY <2>1, <2>2
<1>. QED  BY <1>2, <1>3 DEF CallsOf

\* An inlined visit: the frame has other calls, and the graph is as it was.
LEMMA InlinedStep == ASSUME StackInv, VisitsInlined PROVE StackInv' /\ UNCHANGED Graph!graphVars
<1>1. /\ Top.calls # <<>> /\ Call.call = "visit_inlined"
      /\ UNCHANGED <<object, graph, contents>>
      BY DEF VisitsInlined
<1> DEFINE n == Len(stack)
           made == IF Call.type.kind = "struct"
                     THEN VisitRemotes(Call.type, Call.value, InlinedParent(Call.parent)) ELSE <<>>
           frame == Frame(Top.node, made \o Tail(Top.calls), Top.after)
<1>2. /\ object \in Objects /\ Call.parent = Top.node /\ CallOf(object, Call)
      /\ CallsOf(object, Tail(Top.calls), Top.node)
      /\ n # 1 /\ count > 0 /\ Top.node \in 0 .. count - 1
      BY <1>1, TopCall
<1>3. n \in Nat /\ n > 1 /\ IsSequence(stack) /\ n \in 1 .. Len(stack)
  <2>1. IsSequence(stack) /\ n > 0  BY DEF StackInv
  <2>2. n \in Nat  BY <2>1, InSeq
  <2>3. n # 1  BY <1>2
  <2>. QED  BY <2>1, <2>2, <2>3
<1>4. CallsOf(object, made, Top.node)
  <2>1. CASE Call.type.kind # "struct"  BY <2>1, NoCalls
  <2>2. CASE Call.type.kind = "struct"
    <3>1. PICK p \in Parts(object) :
            p.type = Call.type /\ p.value = Call.value /\ p.whole = (Call.type.kind # "struct")
          BY <1>1, <1>2 DEF CallOf
    <3>2. ~InOnePiece(p)  BY <2>2, <3>1 DEF InOnePiece
    <3>3. count \in Nat /\ Top.node \in Nat
      <4>1. count \in 0 .. N  BY DEF StackInv
      <4>. QED  BY <1>2, <4>1, VisitAssumption
    <3>4. CallsOf(object, VisitRemotes(p.type, p.value, Top.node), Top.node)
          BY <1>2, <2>2, <3>1, <3>2, <3>3, RemotesCalled
    <3>. QED  BY <1>2, <2>2, <3>1, <3>4 DEF InlinedParent
  <2>. QED  BY <2>1, <2>2
<1>5. CallsOf(object, frame.calls, Top.node) /\ frame.node = Top.node /\ frame.after = Top.after
  <2> HIDE DEF made
  <2>1. CallsOf(object, made \o Tail(Top.calls), Top.node)  BY <1>2, <1>4, CallsJoined
  <2>. QED  BY <2>1 DEF Frame
<1>6. Updated(stack', stack, n, frame)  BY DEF VisitsInlined, Inlined, Updated
<1> HIDE DEF frame
<1>7. /\ IsSequence(stack') /\ Len(stack') = n
      /\ \A k \in 1 .. n : stack'[k] = IF k = n THEN frame ELSE stack[k]
  <2> PICK new, old, place, top : new = stack' /\ old = stack /\ place = n /\ top = frame  OBVIOUS
  <2>1. Updated(new, old, place, top) /\ IsSequence(old) /\ place \in 1 .. Len(old)  BY <1>3, <1>6
  <2>2. /\ IsSequence(new) /\ Len(new) = Len(old)
        /\ \A k \in 1 .. Len(old) : new[k] = IF k = place THEN top ELSE old[k]
        BY <2>1, UpdateIs
  <2>. QED  BY <2>2
<1>8. Top = stack[n]  BY DEF Top
<1> HIDE DEF n
<1>9. \A k \in 1 .. n : stack'[k].node = stack[k].node /\ stack'[k].after = stack[k].after
      BY <1>5, <1>7, <1>8
<1>10. /\ count \in 0 .. N /\ job \in [0 .. N - 1 -> {"none", "final", "placeholder"}]
       /\ \A k \in 1 .. n : CallsOf(object, stack[k].calls, stack[k].node)
       /\ stack[1].node = None
       /\ \A k \in 2 .. n : FrameTrue(stack[k], count, job)
       /\ \A k, l \in 2 .. n : k < l => stack[k].node < stack[l].node
       /\ IF count = 0 THEN n = 1 /\ Len(stack[1].calls) = 1 ELSE stack[1].calls = <<>>
       BY DEF StackInv, n
<1>11. object' = object /\ count' = count /\ job' = job  BY <1>1 DEF graph
<1>12. \A k \in 1 .. n : CallsOf(object', stack'[k].calls, stack'[k].node)
       BY <1>5, <1>7, <1>10, <1>11
<1>13. \A k \in 2 .. n : FrameTrue(stack'[k], count', job')
  <2> SUFFICES ASSUME NEW k \in 2 .. n PROVE FrameTrue(stack'[k], count, job)  BY <1>11
  <2>1. stack'[k].node = stack[k].node /\ stack'[k].after = stack[k].after  BY <1>3, <1>9
  <2>2. FrameTrue(stack[k], count, job)  BY <1>10
  <2>. QED  BY <2>1, <2>2 DEF FrameTrue
<1>14. \A k, l \in 2 .. n : k < l => stack'[k].node < stack'[l].node
  <2>1. \A k \in 2 .. n : stack'[k].node = stack[k].node  BY <1>3, <1>9
  <2>. QED  BY <1>10, <2>1
<1>15. stack'[1] = stack[1] /\ count # 0  BY <1>2, <1>3, <1>7, <1>10
<1>16. StackInv'
       BY <1>2, <1>3, <1>7, <1>10, <1>11, <1>12, <1>13, <1>14, <1>15 DEF StackInv
<1>17. Visiting' = Visiting
  <2> PICK s, t : s = stack /\ t = stack'  OBVIOUS
  <2>1. \A k \in 1 .. n - 1 : k + 1 \in 1 .. n  BY <1>3
  <2>2. \A k \in 1 .. n - 1 : t[k + 1].node = s[k + 1].node  BY <1>9, <2>1
  <2>3. NodesOf(t) = NodesOf(s)  BY <1>7, <2>2 DEF NodesOf, n
  <2>. QED  BY <2>3 DEF Visiting, NodesOf
<1>. QED  BY <1>1, <1>16, <1>17 DEF graph, Graph!graphVars

\* A visit that has made its calls is taken from the stack.
LEMMA StackShrinks ==
  ASSUME StackInv, Len(stack) > 1, stack' = Front(stack), UNCHANGED <<object, count>>,
         job' \in [0 .. N - 1 -> {"none", "final", "placeholder"}],
         \A m \in 0 .. count - 1 : m # Top.node => job'[m] = job[m]
  PROVE  /\ StackInv' /\ count # 0 /\ FrameTrue(Top, count, job)
         /\ Visiting # <<>> /\ Visiting[Len(Visiting)] = Top.node
         /\ Visiting' = SubSeq(Visiting, 1, Len(Visiting) - 1)
<1> PICK n : n = Len(stack)  OBVIOUS
<1>1. IsSequence(stack) /\ n \in Nat /\ n > 1 /\ stack # <<>>
  <2>1. IsSequence(stack)  BY DEF StackInv
  <2>2. n \in Nat  BY <2>1, InSeq
  <2>3. stack # <<>>
    <3>1. Len(<<>>) = 0  OBVIOUS
    <3>. QED  BY <3>1
  <2>. QED  BY <2>1, <2>2, <2>3
<1>2. /\ object \in Objects /\ count \in 0 .. N
      /\ \A k \in 1 .. n : CallsOf(object, stack[k].calls, stack[k].node)
      /\ stack[1].node = None
      /\ \A k \in 2 .. n : FrameTrue(stack[k], count, job)
      /\ \A k, l \in 2 .. n : k < l => stack[k].node < stack[l].node
      /\ IF count = 0 THEN n = 1 /\ Len(stack[1].calls) = 1 ELSE stack[1].calls = <<>>
      BY DEF StackInv
<1>3. Top = stack[n]  BY DEF Top
<1> PICK s, t : s = stack /\ t = stack'  OBVIOUS
<1>4. IsSequence(t) /\ Len(t) = n - 1 /\ \A k \in 1 .. n - 1 : t[k] = s[k]
  <2>1. /\ IsSequence(Front(s)) /\ Len(Front(s)) = Len(s) - 1
        /\ \A k \in 1 .. Len(s) - 1 : Front(s)[k] = s[k]
        BY <1>1, FrontIs
  <2>. QED  BY <2>1
<1>5. /\ \A k \in 1 .. n - 1 : k \in 1 .. n
      /\ \A k \in 2 .. n - 1 : k \in 2 .. n /\ k \in 1 .. n - 1 /\ k < n
      /\ n \in 2 .. n /\ n - 1 > 0 /\ 1 \in 1 .. n - 1
      BY <1>1
<1>6. \A k \in 1 .. n - 1 : CallsOf(object', t[k].calls, t[k].node)  BY <1>2, <1>4, <1>5
<1>7. \A k \in 2 .. n - 1 : FrameTrue(t[k], count', job')
  <2> SUFFICES ASSUME NEW k \in 2 .. n - 1 PROVE FrameTrue(t[k], count, job')  OBVIOUS
  <2>1. t[k] = s[k] /\ FrameTrue(s[k], count, job) /\ s[k].node < Top.node
        BY <1>2, <1>3, <1>4, <1>5
  <2>2. s[k].node \in 0 .. count - 1 /\ s[k].node # Top.node
    <3>1. s[k].node \in 0 .. count - 1  BY <2>1 DEF FrameTrue
    <3>2. FrameTrue(Top, count, job)  BY <1>2, <1>3, <1>5
    <3>3. Top.node \in 0 .. count - 1  BY <3>2 DEF FrameTrue
    <3>. QED  BY <1>2, <2>1, <3>1, <3>3
  <2>3. job'[s[k].node] = job[s[k].node]  BY <2>2
  <2>. QED  BY <2>1, <2>3 DEF FrameTrue
<1>8. ASSUME NEW k \in 2 .. n - 1, NEW l \in 2 .. n - 1, k < l PROVE t[k].node < t[l].node
  <2>1. k \in 2 .. n /\ l \in 2 .. n  BY <1>5
  <2>2. t[k] = s[k] /\ t[l] = s[l]  BY <1>4, <1>5
  <2>3. stack[k].node < stack[l].node  BY <1>2, <1>8, <2>1
  <2>. QED  BY <2>2, <2>3
<1>9. t[1] = s[1] /\ count # 0  BY <1>1, <1>2, <1>4, <1>5
<1>10. StackInv'
  <2>1. /\ object' \in Objects /\ count' \in 0 .. N /\ IsSequence(stack') /\ Len(stack') = n - 1
        /\ stack'[1].node = None /\ stack'[1].calls = <<>> /\ count' # 0
        BY <1>2, <1>4, <1>9
  <2>2. /\ \A k \in 1 .. Len(stack') : CallsOf(object', stack'[k].calls, stack'[k].node)
        /\ \A k \in 2 .. Len(stack') : FrameTrue(stack'[k], count', job')
        /\ \A k, l \in 2 .. Len(stack') : k < l => stack'[k].node < stack'[l].node
        BY <1>4, <1>6, <1>7, <1>8
  <2>. QED  BY <1>5, <2>1, <2>2 DEF StackInv
<1>11. Visiting = NodesOf(s) /\ Visiting' = NodesOf(t)  BY DEF Visiting, NodesOf
<1>12. NodesOf(t) = SubSeq(NodesOf(s), 1, Len(NodesOf(s)) - 1)
  <2>1. IsSequence(s) /\ IsSequence(t) /\ Len(t) > 0 /\ Len(s) = Len(t) + 1  BY <1>1, <1>4, <1>5
  <2>2. \A k \in 1 .. Len(t) : t[k] = s[k]  BY <1>4
  <2>. QED  BY <2>1, <2>2, NodesPopped
<1>13. NodesOf(s) # <<>> /\ NodesOf(s)[Len(NodesOf(s))] = Top.node
  <2>1. Len(NodesOf(s)) = n - 1 /\ \A k \in 1 .. n - 1 : NodesOf(s)[k] = s[k + 1].node
        BY <1>1, NodesAre
  <2>2. n - 1 \in 1 .. n - 1 /\ (n - 1) + 1 = n  BY <1>1
  <2>3. Len(<<>>) = 0  OBVIOUS
  <2>. QED  BY <1>3, <1>5, <2>1, <2>2, <2>3
<1>14. FrameTrue(Top, count, job)  BY <1>2, <1>3, <1>5
<1>. QED  BY <1>9, <1>10, <1>11, <1>12, <1>13, <1>14

\* The end of a visit; a placeholder is replaced first.
LEMMA ReturnStep == ASSUME StackInv, Returns \/ ReplaceJob PROVE StackInv' /\ Graph!Visit
<1>1. /\ Len(stack) > 1 /\ stack' = Front(stack)
      /\ UNCHANGED <<object, parent, count, parent_slot, atomic_deps, completed>>
      BY DEF Returns, ReplaceJob, Finished, graph
<1>2. FrameTrue(Top, count, job) /\ count \in 0 .. N
      /\ job \in [0 .. N - 1 -> {"none", "final", "placeholder"}]
  <2>1. IsSequence(stack)  BY DEF StackInv
  <2>2. Len(stack) \in Nat  BY <2>1, InSeq
  <2>3. Len(stack) \in 2 .. Len(stack)  BY <1>1, <2>2
  <2>. QED  BY <2>3 DEF StackInv, Top
<1>3. Top.node \in 0 .. N - 1 /\ \A m \in 0 .. count - 1 : m \in 0 .. N - 1
  <2>1. Top.node \in 0 .. count - 1  BY <1>2 DEF FrameTrue
  <2>. QED  BY <1>2, <2>1, VisitAssumption
<1>4. job' = [job EXCEPT ![Top.node] = Graph!FinalJob(Top.node)]
  <2>1. CASE Returns
    <3>1. job' = job /\ Top.after.then = "return"  BY <2>1 DEF Returns, Finished, graph
    <3>2. job[Top.node] = "final"  BY <1>2, <3>1 DEF FrameTrue
    <3>3. Graph!FinalJob(Top.node) = job[Top.node]  BY <3>2 DEF Graph!FinalJob
    <3>. QED  BY <1>2, <1>3, <3>1, <3>3
  <2>2. CASE ReplaceJob
    <3>1. /\ job' = [job EXCEPT ![Top.node] = "final"] /\ Top.after.then = "replace"
          BY <2>2 DEF ReplaceJob, Finished
    <3>2. job[Top.node] = "placeholder"  BY <1>2, <3>1 DEF FrameTrue
    <3>. QED  BY <3>1, <3>2 DEF Graph!FinalJob
  <2>. QED  BY <2>1, <2>2
<1>5. /\ job' \in [0 .. N - 1 -> {"none", "final", "placeholder"}]
      /\ \A m \in 0 .. count - 1 : m # Top.node => job'[m] = job[m]
      BY <1>2, <1>3, <1>4 DEF Graph!FinalJob
<1>6. /\ StackInv' /\ Visiting # <<>> /\ Visiting[Len(Visiting)] = Top.node
      /\ Visiting' = SubSeq(Visiting, 1, Len(Visiting) - 1)
      BY <1>1, <1>5, StackShrinks
<1> HIDE DEF Visiting
<1>. QED  BY <1>1, <1>4, <1>6 DEF Graph!Visit, Graph!Leave

\* Every step of the visitors is one of the graph's, or changes nothing of it.
LEMMA VisitStep == ASSUME StackInv, [Next]_vars PROVE StackInv' /\ [Graph!Visit]_Graph!graphVars
<1>1. CASE VisitPrimitive \/ VisitPlainMap  BY <1>1, PrimitiveStep
<1>2. CASE VisitStruct  BY <1>2, StructStep
<1>3. CASE VisitVec  BY <1>3, VecStep
<1>4. CASE VisitMap  BY <1>4, MapStep
<1>5. CASE AddVecShard \/ AddMapShard  BY <1>5, ShardStep
<1>6. CASE VisitsInlined  BY <1>6, InlinedStep
<1>7. CASE Returns \/ ReplaceJob  BY <1>7, ReturnStep
<1>8. CASE HandedOver \/ UNCHANGED vars
  <2>1. UNCHANGED vars  BY <1>8 DEF HandedOver
  <2>2. UNCHANGED <<object, stack, parent, count, parent_slot, atomic_deps, completed, job>>
        BY <2>1 DEF vars, graph
  <2>3. Visiting' = Visiting  BY <2>2 DEF Visiting
  <2>4. StackInv'  BY <2>2 DEF StackInv
  <2>. QED  BY <2>2, <2>3, <2>4 DEF Graph!graphVars
<1>. QED  BY <1>1, <1>2, <1>3, <1>4, <1>5, <1>6, <1>7, <1>8 DEF Next

\* The initial states are the graph's: nothing is in it.
LEMMA VisitStarts == Init => Graph!GraphInit
<1> SUFFICES ASSUME Init PROVE Graph!GraphInit  OBVIOUS
<1>. QED  BY DEF Init

\* Whatever the object is, its visitors fill the arena the way TaskGraph says: each node
\* under the visit in progress, linked to it at once, one replacement for one placeholder.
\* So what is proved of the graphs TaskGraph builds is true of theirs.
THEOREM VisitorsFillGraph == Spec => FillsGraph
<1>1. Init => StackInv  BY StackStarts
<1>2. StackInv /\ [Next]_vars => StackInv' /\ [Graph!Visit]_Graph!graphVars  BY VisitStep
<1>. QED  BY <1>1, <1>2, VisitStarts, PTL DEF Spec, FillsGraph, Graph!GraphSpec
-----------------------------------------------------------------------------
(***************************************************************************)
(* Where the primitives are.                                               *)
(***************************************************************************)
\* It is in one of them.
LEMMA InAnyOf == ASSUME NEW F, NEW m, NEW x PROVE x \in AnyOf(F, m) <=> \E i \in 1 .. m : x \in F[i]
BY DEF AnyOf

\* H in three; another set in a row; the last of a row changed and another put after it.
Parted(H, X, Y, R) == H = X \cup Y \cup R /\ X \cap Y = {} /\ X \cap R = {} /\ Y \cap R = {}
Added(F2, F, m, X) == (\A i \in 1 .. m : F2[i] = F[i]) /\ F2[m + 1] = X
Pushed(G2, G, n, R, Y) == (\A k \in 1 .. n - 1 : G2[k] = G[k]) /\ G2[n] = R /\ G2[n + 1] = Y

\* A call stores some of what it owes, its own calls will store the rest.
LEMMA DividedCall ==
  ASSUME NEW W, NEW F, NEW m, NEW G, NEW n, NEW F2, NEW G2, NEW X, NEW Y, NEW R,
         Divided(W, F, m, G, n), m \in Nat, n \in Nat, n > 0,
         Parted(G[n], X, Y, R), Added(F2, F, m, X), Pushed(G2, G, n, R, Y)
  PROVE  Divided(W, F2, m + 1, G2, n + 1)
<1> USE DEF Parted, Added, Pushed
<1>1. /\ \A i \in 1 .. m + 1 : i \in 1 .. m \/ i = m + 1
      /\ \A k \in 1 .. n + 1 : k \in 1 .. n - 1 \/ k = n \/ k = n + 1
      /\ \A i \in 1 .. m : i \in 1 .. m + 1
      /\ \A k \in 1 .. n - 1 : k \in 1 .. n /\ k \in 1 .. n + 1 /\ k # n
      /\ \A k \in 1 .. n : k \in 1 .. n - 1 \/ k = n
      /\ n \in 1 .. n /\ n \in 1 .. n + 1 /\ n + 1 \in 1 .. n + 1 /\ m + 1 \in 1 .. m + 1
      OBVIOUS
<1>2. AnyOf(F2, m + 1) \cup AnyOf(G2, n + 1) = W
  <2>1. ASSUME NEW x \in W PROVE x \in AnyOf(F2, m + 1) \cup AnyOf(G2, n + 1)
    <3>1. x \in AnyOf(F, m) \/ x \in AnyOf(G, n)  BY DEF Divided
    <3>2. (\E i \in 1 .. m : x \in F[i]) \/ (\E k \in 1 .. n : x \in G[k])  BY <3>1, InAnyOf
    <3>3. (\E i \in 1 .. m + 1 : x \in F2[i]) \/ (\E k \in 1 .. n + 1 : x \in G2[k])
          BY <1>1, <3>2
    <3>. QED  BY <3>3, InAnyOf
  <2>2. ASSUME NEW x, x \in AnyOf(F2, m + 1) \/ x \in AnyOf(G2, n + 1) PROVE x \in W
    <3>1. (\E i \in 1 .. m + 1 : x \in F2[i]) \/ (\E k \in 1 .. n + 1 : x \in G2[k])
          BY <2>2, InAnyOf
    <3>2. (\E i \in 1 .. m : x \in F[i]) \/ (\E k \in 1 .. n : x \in G[k])  BY <1>1, <3>1
    <3>3. x \in AnyOf(F, m) \/ x \in AnyOf(G, n)  BY <3>2, InAnyOf
    <3>. QED  BY <3>3 DEF Divided
  <2>. QED  BY <2>1, <2>2
<1>3. \A i \in 1 .. m : F[i] \cap X = {} /\ F[i] \cap Y = {} /\ F[i] \cap R = {}
  <2>1. \A i \in 1 .. m : F[i] \cap G[n] = {}  BY <1>1 DEF Divided
  <2>. QED  BY <2>1
<1>4. \A k \in 1 .. n - 1 : G[k] \cap X = {} /\ G[k] \cap Y = {} /\ G[k] \cap R = {}
  <2>1. \A k \in 1 .. n - 1 : G[k] \cap G[n] = {}  BY <1>1 DEF Divided
  <2>. QED  BY <2>1
<1>5. ASSUME NEW i \in 1 .. m + 1, NEW j \in 1 .. m + 1, i # j PROVE F2[i] \cap F2[j] = {}
  <2>1. CASE i \in 1 .. m /\ j \in 1 .. m  BY <1>5, <2>1 DEF Divided
  <2>2. CASE i = m + 1 /\ j \in 1 .. m  BY <1>3, <2>2
  <2>3. CASE i \in 1 .. m /\ j = m + 1  BY <1>3, <2>3
  <2>. QED  BY <1>1, <1>5, <2>1, <2>2, <2>3
<1>6. ASSUME NEW i \in 1 .. m + 1, NEW k \in 1 .. n + 1 PROVE F2[i] \cap G2[k] = {}
  <2>1. CASE i \in 1 .. m /\ k \in 1 .. n - 1  BY <1>1, <2>1 DEF Divided
  <2>2. CASE i \in 1 .. m /\ k \in {n, n + 1}  BY <1>3, <2>2
  <2>3. CASE i = m + 1 /\ k \in 1 .. n - 1  BY <1>4, <2>3
  <2>4. CASE i = m + 1 /\ k \in {n, n + 1}  BY <2>4
  <2>. QED  BY <1>1, <2>1, <2>2, <2>3, <2>4
<1>7. ASSUME NEW k \in 1 .. n + 1, NEW l \in 1 .. n + 1, k # l PROVE G2[k] \cap G2[l] = {}
  <2>1. CASE k \in 1 .. n - 1 /\ l \in 1 .. n - 1  BY <1>1, <1>7, <2>1 DEF Divided
  <2>2. CASE k \in 1 .. n - 1 /\ l \in {n, n + 1}  BY <1>4, <2>2
  <2>3. CASE k \in {n, n + 1} /\ l \in 1 .. n - 1  BY <1>4, <2>3
  <2>4. CASE k \in {n, n + 1} /\ l \in {n, n + 1}  BY <1>7, <2>4
  <2>. QED  BY <1>1, <2>1, <2>2, <2>3, <2>4
<1>. QED  BY <1>2, <1>5, <1>6, <1>7 DEF Divided

\* A set of a row has more; the last of a row is gone.
Given(F2, F, m, p, H) == \A i \in 1 .. m : F2[i] = IF i = p THEN F[p] \cup H ELSE F[i]
Popped(G2, G, n) == \A k \in 1 .. n - 1 : G2[k] = G[k]

\* A visit that has made its calls owes nothing but the job it still has to put in.
LEMMA DividedReturn ==
  ASSUME NEW W, NEW F, NEW m, NEW G, NEW n, NEW F2, NEW G2, NEW p,
         Divided(W, F, m, G, n), m \in Nat, n \in Nat, n > 0, p \in 1 .. m,
         Given(F2, F, m, p, G[n]), Popped(G2, G, n)
  PROVE  Divided(W, F2, m, G2, n - 1)
<1> USE DEF Given, Popped
<1>1. /\ \A k \in 1 .. n - 1 : k \in 1 .. n /\ k # n
      /\ \A k \in 1 .. n : k \in 1 .. n - 1 \/ k = n
      /\ n \in 1 .. n
      OBVIOUS
<1>2. AnyOf(F2, m) \cup AnyOf(G2, n - 1) = W
  <2>1. ASSUME NEW x \in W PROVE x \in AnyOf(F2, m) \cup AnyOf(G2, n - 1)
    <3>1. x \in AnyOf(F, m) \/ x \in AnyOf(G, n)  BY DEF Divided
    <3>2. (\E i \in 1 .. m : x \in F[i]) \/ (\E k \in 1 .. n : x \in G[k])  BY <3>1, InAnyOf
    <3>3. (\E i \in 1 .. m : x \in F2[i]) \/ (\E k \in 1 .. n - 1 : x \in G2[k])
          BY <1>1, <3>2
    <3>. QED  BY <3>3, InAnyOf
  <2>2. ASSUME NEW x, x \in AnyOf(F2, m) \/ x \in AnyOf(G2, n - 1) PROVE x \in W
    <3>1. (\E i \in 1 .. m : x \in F2[i]) \/ (\E k \in 1 .. n - 1 : x \in G2[k])
          BY <2>2, InAnyOf
    <3>2. (\E i \in 1 .. m : x \in F[i]) \/ (\E k \in 1 .. n : x \in G[k])  BY <1>1, <3>1
    <3>3. x \in AnyOf(F, m) \/ x \in AnyOf(G, n)  BY <3>2, InAnyOf
    <3>. QED  BY <3>3 DEF Divided
  <2>. QED  BY <2>1, <2>2
<1>3. ASSUME NEW i \in 1 .. m, NEW j \in 1 .. m, i # j PROVE F2[i] \cap F2[j] = {}
  <2>1. F[i] \cap F[j] = {} /\ F[i] \cap G[n] = {} /\ F[j] \cap G[n] = {}
        BY <1>1, <1>3 DEF Divided
  <2>2. /\ F2[i] = IF i = p THEN F[i] \cup G[n] ELSE F[i]
        /\ F2[j] = IF j = p THEN F[j] \cup G[n] ELSE F[j]
        OBVIOUS
  <2>3. CASE i = p  BY <1>3, <2>1, <2>2, <2>3
  <2>4. CASE i # p  BY <1>3, <2>1, <2>2, <2>4
  <2>. QED  BY <2>3, <2>4
<1>4. ASSUME NEW i \in 1 .. m, NEW k \in 1 .. n - 1 PROVE F2[i] \cap G2[k] = {}
  <2>1. F[i] \cap G[k] = {} /\ G[n] \cap G[k] = {} /\ G2[k] = G[k]  BY <1>1 DEF Divided
  <2>2. F2[i] = F[i] \/ F2[i] = F[i] \cup G[n]  OBVIOUS
  <2>. QED  BY <2>1, <2>2
<1>5. \A k, l \in 1 .. n - 1 : k # l => G2[k] \cap G2[l] = {}  BY <1>1 DEF Divided
<1>. QED  BY <1>2, <1>3, <1>4, <1>5 DEF Divided

\* What the visit in progress owes is what its next call does, and what it does after it.
LEMMA TopOwes ==
  ASSUME StackInv, StoredInv, Top.calls # <<>>
  PROVE  /\ OwedBy(Top) = Owed(Call) \cup OwedBy(Rest) /\ Owed(Call) \cap OwedBy(Rest) = {}
         /\ Apart(Rest) /\ Apart(Top)
<1>1. /\ IsSequence(Top.calls) /\ Call = Top.calls[1] /\ Len(Top.calls) > 0
      /\ Len(Tail(Top.calls)) = Len(Top.calls) - 1
      /\ \A i \in 1 .. Len(Top.calls) - 1 : Tail(Top.calls)[i] = Top.calls[i + 1]
      BY TopCall
<1> PICK calls, rest, n : calls = Top.calls /\ rest = Tail(Top.calls) /\ n = Len(Top.calls)  OBVIOUS
<1>2. n \in Nat /\ n > 0 /\ Len(rest) = n - 1 /\ Call = calls[1]
      /\ \A i \in 1 .. n - 1 : rest[i] = calls[i + 1]
  <2>1. n \in Nat  BY <1>1, InSeq
  <2>. QED  BY <1>1, <2>1
<1>3. Rest.calls = rest /\ Rest.after = Top.after  BY DEF Rest, Frame
<1>4. Apart(Top)
  <2>1. Len(stack) \in Nat /\ Len(stack) > 0  BY InSeq DEF StackInv
  <2>. QED  BY <2>1 DEF StoredInv, Top
<1>5. Later(Rest) = Later(Top)  BY <1>3 DEF Later
<1>6. /\ \A i, j \in 1 .. n : i # j => Owed(calls[i]) \cap Owed(calls[j]) = {}
      /\ \A i \in 1 .. n : Owed(calls[i]) \cap Later(Top) = {}
      BY <1>4 DEF Apart, AllApart, AllOwed
<1>7. /\ \A i \in 1 .. n - 1 : i + 1 \in 1 .. n /\ i + 1 # 1
      /\ \A i \in 1 .. n : i # 1 => i - 1 \in 1 .. n - 1 /\ (i - 1) + 1 = i
      /\ 1 \in 1 .. n
      BY <1>2
<1>8. /\ OwedBy(Top) = Later(Top) \cup UNION {Owed(calls[i]) : i \in 1 .. n}
      /\ OwedBy(Rest) = Later(Top) \cup UNION {Owed(rest[i]) : i \in 1 .. n - 1}
      BY <1>2, <1>3, <1>5 DEF OwedBy, AllOwed
<1>9. UNION {Owed(calls[i]) : i \in 1 .. n}
        = Owed(Call) \cup UNION {Owed(rest[i]) : i \in 1 .. n - 1}
  <2>1. \A i \in 1 .. n : i = 1 \/ \E j \in 1 .. n - 1 : i = j + 1  BY <1>7
  <2>2. ASSUME NEW x, NEW i \in 1 .. n, x \in Owed(calls[i])
        PROVE  x \in Owed(Call) \/ \E j \in 1 .. n - 1 : x \in Owed(rest[j])
        BY <1>2, <2>1, <2>2
  <2>3. ASSUME NEW x, x \in Owed(Call) \/ \E j \in 1 .. n - 1 : x \in Owed(rest[j])
        PROVE  \E i \in 1 .. n : x \in Owed(calls[i])
        BY <1>2, <1>7, <2>3
  <2>. QED  BY <2>2, <2>3
<1>10. Owed(Call) \cap OwedBy(Rest) = {}
  <2>1. \A i \in 1 .. n - 1 : Owed(Call) \cap Owed(rest[i]) = {}  BY <1>2, <1>6, <1>7
  <2>2. Owed(Call) \cap Later(Top) = {}  BY <1>2, <1>6, <1>7
  <2>. QED  BY <1>8, <2>1, <2>2
<1>11. Apart(Rest)
  <2>1. \A i, j \in 1 .. n - 1 : i # j => Owed(rest[i]) \cap Owed(rest[j]) = {}
    <3> SUFFICES ASSUME NEW i \in 1 .. n - 1, NEW j \in 1 .. n - 1, i # j
                 PROVE  Owed(rest[i]) \cap Owed(rest[j]) = {}
        OBVIOUS
    <3>1. i + 1 \in 1 .. n /\ j + 1 \in 1 .. n /\ i + 1 # j + 1  BY <1>2, <1>7
    <3>. QED  BY <1>2, <1>6, <3>1
  <2>2. \A i \in 1 .. n - 1 : Owed(rest[i]) \cap Later(Top) = {}  BY <1>2, <1>6, <1>7
  <2>. QED  BY <1>2, <1>3, <1>5, <2>1, <2>2 DEF Apart, AllApart, AllOwed
<1>. QED  BY <1>4, <1>8, <1>9, <1>10, <1>11

\* A visitor stores some primitives in its node and leaves the rest to its calls.
LEMMA StoredGrows ==
  ASSUME StackInv, StoredInv, Top.calls # <<>>,
         NEW kind, NEW what, NEW conf, NEW calls, NEW after, AddNode(kind, what, conf, calls, after),
         StoredAs(what, conf) \cup OwedBy(Frame(count, calls, after)) = Owed(Call),
         StoredAs(what, conf) \cap OwedBy(Frame(count, calls, after)) = {},
         Apart(Frame(count, calls, after)),
         after.then = "replace" => StoredAs(what, conf) = {}
  PROVE  StoredInv'
<1> PICK frame, X, n : /\ frame = Frame(count, calls, after) /\ X = StoredAs(what, conf)
                       /\ n = Len(stack)
    OBVIOUS
<1>1. /\ count' = count + 1 /\ object' = object /\ Appended(stack', Inlined(<<>>), frame)
      /\ Appended(payload', payload, what) /\ Appended(config', config, conf)
      BY DEF AddNode, AddLinked, Graph!AddNode, Appended
<1>2. /\ n \in Nat /\ n > 0 /\ IsSequence(stack') /\ Len(stack') = n + 1
      /\ \A k \in 1 .. n - 1 : stack'[k] = stack[k]
      /\ stack'[n] = Rest /\ stack'[n + 1] = frame
      BY <1>1, StackGrows
<1>3. /\ count \in Nat /\ IsSequence(payload) /\ Len(payload) = count
      /\ IsSequence(config) /\ Len(config) = count
  <2>1. count \in 0 .. N  BY DEF StackInv
  <2>. QED  BY <2>1, VisitAssumption DEF StoredInv
<1>4. /\ IsSequence(payload') /\ Len(payload') = count + 1 /\ payload'[count + 1] = what
      /\ \A i \in 1 .. count : payload'[i] = payload[i]
  <2> PICK new, old : new = payload' /\ old = payload  OBVIOUS
  <2>1. Appended(new, old, what) /\ IsSequence(old)  BY <1>1, <1>3
  <2>2. /\ IsSequence(new) /\ Len(new) = Len(old) + 1
        /\ \A i \in 1 .. Len(old) : new[i] = old[i]
        /\ new[Len(old) + 1] = what
        BY <2>1, AppendIs
  <2>. QED  BY <1>3, <2>2
<1>5. /\ IsSequence(config') /\ Len(config') = count + 1 /\ config'[count + 1] = conf
      /\ \A i \in 1 .. count : config'[i] = config[i]
  <2> PICK new, old : new = config' /\ old = config  OBVIOUS
  <2>1. Appended(new, old, conf) /\ IsSequence(old)  BY <1>1, <1>3
  <2>2. /\ IsSequence(new) /\ Len(new) = Len(old) + 1
        /\ \A i \in 1 .. Len(old) : new[i] = old[i]
        /\ new[Len(old) + 1] = conf
        BY <2>1, AppendIs
  <2>. QED  BY <1>3, <2>2
<1>6. /\ \A i \in 1 .. count : StoredAt(payload', config', i) = StoredAt(payload, config, i)
      /\ StoredAt(payload', config', count + 1) = X
      BY <1>4, <1>5 DEF StoredAt
<1>7. /\ OwedBy(Top) = Owed(Call) \cup OwedBy(Rest) /\ Owed(Call) \cap OwedBy(Rest) = {}
      /\ Apart(Rest) /\ Top = stack[n]
      BY TopOwes DEF Top
<1>8. Divided(Declared(RootPart(object)), StoredIn', count + 1, OwedIn', n + 1)
  <2> DEFINE Y == OwedBy(frame)
             R == OwedBy(Rest)
             W == Declared(RootPart(object))
  <2>1. X \cup Y = Owed(Call) /\ X \cap Y = {}  OBVIOUS
  <2>2. Divided(W, StoredIn, count, OwedIn, n)  BY DEF StoredInv
  <2>3. \A i \in 1 .. count : i \in 1 .. count + 1  BY <1>3
  <2>4. /\ \A i \in 1 .. count : StoredIn'[i] = StoredIn[i]
        /\ StoredIn'[count + 1] = X
    <3>1. StoredIn' = [i \in 1 .. count + 1 |-> StoredAt(payload', config', i)]  BY <1>1 DEF StoredIn
    <3>2. StoredIn = [i \in 1 .. count |-> StoredAt(payload, config, i)]  BY DEF StoredIn
    <3>3. count + 1 \in 1 .. count + 1  BY <1>3
    <3>. QED  BY <1>6, <2>3, <3>1, <3>2, <3>3
  <2>5. /\ \A k \in 1 .. n - 1 : OwedIn'[k] = OwedIn[k]
        /\ OwedIn'[n] = R /\ OwedIn'[n + 1] = Y /\ OwedIn[n] = OwedBy(Top)
    <3>1. OwedIn' = [k \in 1 .. n + 1 |-> OwedBy(stack'[k])]  BY <1>2 DEF OwedIn
    <3>2. OwedIn = [k \in 1 .. n |-> OwedBy(stack[k])]  BY DEF OwedIn
    <3>3. /\ \A k \in 1 .. n - 1 : k \in 1 .. n /\ k \in 1 .. n + 1
          /\ n \in 1 .. n /\ n \in 1 .. n + 1 /\ n + 1 \in 1 .. n + 1
          BY <1>2
    <3>. QED  BY <1>2, <1>7, <3>1, <3>2, <3>3
  <2> HIDE DEF Y, R, W
  <2>6. OwedIn[n] = X \cup Y \cup R /\ X \cap R = {} /\ Y \cap R = {}
    <3>1. OwedBy(Top) = Owed(Call) \cup R /\ Owed(Call) \cap R = {}  BY <1>7 DEF R
    <3>. QED  BY <2>1, <2>5, <3>1
  <2>7. ASSUME NEW F, NEW F2, NEW G, NEW G2, NEW m,
               F = StoredIn, F2 = StoredIn', G = OwedIn, G2 = OwedIn', m = count
        PROVE  Divided(W, F2, m + 1, G2, n + 1)
    <3>1. Divided(W, F, m, G, n) /\ m \in Nat  BY <1>3, <2>2, <2>7
    <3>2. Added(F2, F, m, X)  BY <2>4, <2>7 DEF Added
    <3>3. Pushed(G2, G, n, R, Y)  BY <2>5, <2>7 DEF Pushed
    <3>4. Parted(G[n], X, Y, R)  BY <2>1, <2>6, <2>7 DEF Parted
    <3> HIDE <2>7
    <3>. QED  BY <1>2, <3>1, <3>2, <3>3, <3>4, DividedCall
  <2>. QED  BY <2>7 DEF W
<1>9. \A k \in 1 .. n + 1 : Apart(stack'[k])
  <2>1. \A k \in 1 .. n + 1 : k \in 1 .. n - 1 \/ k = n \/ k = n + 1  BY <1>2
  <2>2. \A k \in 1 .. n - 1 : k \in 1 .. n  BY <1>2
  <2>3. \A k \in 1 .. n : Apart(stack[k])  BY DEF StoredInv
  <2>. QED  BY <1>2, <1>7, <2>1, <2>2, <2>3
<1>10. ASSUME NEW k \in 2 .. n + 1, stack'[k].after.then = "replace"
       PROVE  StoredAt(payload', config', stack'[k].node + 1) = {}
  <2>1. CASE k = n + 1
    <3>1. stack'[k].node = count /\ stack'[k].after = after  BY <1>2, <2>1 DEF Frame
    <3>. QED  BY <1>6, <1>10, <3>1
  <2>2. CASE k # n + 1
    <3>1. k \in 2 .. n /\ (k \in 1 .. n - 1 \/ k = n)  BY <1>2, <2>2
    <3>2. stack'[k].node = stack[k].node /\ stack'[k].after = stack[k].after
          BY <1>2, <1>7, <3>1 DEF Rest, Frame
    <3>3. FrameTrue(stack[k], count, job)  BY <3>1 DEF StackInv
    <3>4. stack[k].node + 1 \in 1 .. count  BY <1>3, <3>3 DEF FrameTrue
    <3>5. StoredAt(payload, config, stack[k].node + 1) = {}
          BY <1>10, <3>1, <3>2 DEF StoredInv
    <3>. QED  BY <1>6, <3>2, <3>4, <3>5
  <2>. QED  BY <2>1, <2>2
<1>11. /\ IsSequence(payload') /\ IsSequence(config') /\ Len(payload') = count'
       /\ Len(config') = count' /\ Len(stack') = n + 1
       BY <1>1, <1>2, <1>4, <1>5
<1>12. Divided(Declared(RootPart(object')), StoredIn', count', OwedIn', Len(stack'))
       BY <1>1, <1>2, <1>8
<1>. QED  BY <1>9, <1>10, <1>11, <1>12 DEF StoredInv

\* What some calls owe and what others do.
LEMMA AllOwedJoined ==
  ASSUME NEW a, NEW b, IsSequence(a), IsSequence(b), AllApart(a), AllApart(b),
         AllOwed(a) \cap AllOwed(b) = {}
  PROVE  AllOwed(a \o b) = AllOwed(a) \cup AllOwed(b) /\ AllApart(a \o b)
<1> PICK c, m, n : c = a \o b /\ m = Len(a) /\ n = Len(b)  OBVIOUS
<1>1. m \in Nat /\ n \in Nat  BY InSeq
<1>2. /\ Len(c) = m + n
      /\ \A i \in 1 .. m : c[i] = a[i]
      /\ \A i \in 1 .. n : c[m + i] = b[i]
      BY ConcatIs
<1>3. ASSUME NEW i \in 1 .. m + n
      PROVE  \/ i \in 1 .. m /\ c[i] = a[i]
             \/ \E j \in 1 .. n : i = m + j /\ c[i] = b[j]
  <2>1. CASE i <= m  BY <1>1, <1>2, <2>1
  <2>2. CASE ~(i <= m)
    <3>1. i - m \in 1 .. n /\ i = m + (i - m)  BY <1>1, <2>2
    <3>. QED  BY <1>2, <3>1
  <2>. QED  BY <2>1, <2>2
<1>4. /\ \A i \in 1 .. m : i \in 1 .. m + n
      /\ \A i \in 1 .. n : m + i \in 1 .. m + n
      BY <1>1
<1>5. AllOwed(c) = AllOwed(a) \cup AllOwed(b)
  <2>1. ASSUME NEW x, x \in AllOwed(c) PROVE x \in AllOwed(a) \cup AllOwed(b)
    <3>1. PICK i \in 1 .. m + n : x \in Owed(c[i])  BY <1>2, <2>1 DEF AllOwed
    <3>2. (\E k \in 1 .. m : x \in Owed(a[k])) \/ \E k \in 1 .. n : x \in Owed(b[k])
          BY <1>3, <3>1
    <3>. QED  BY <3>2 DEF AllOwed
  <2>2. ASSUME NEW x, x \in AllOwed(a) \/ x \in AllOwed(b) PROVE x \in AllOwed(c)
    <3>1. (\E k \in 1 .. m : x \in Owed(a[k])) \/ \E k \in 1 .. n : x \in Owed(b[k])
          BY <2>2 DEF AllOwed
    <3>2. \E i \in 1 .. m + n : x \in Owed(c[i])  BY <1>2, <1>4, <3>1
    <3>. QED  BY <1>2, <3>2 DEF AllOwed
  <2>. QED  BY <2>1, <2>2
<1>6. /\ \A i \in 1 .. m : Owed(a[i]) \subseteq AllOwed(a)
      /\ \A i \in 1 .. n : Owed(b[i]) \subseteq AllOwed(b)
      BY DEF AllOwed
<1>7. ASSUME NEW i \in 1 .. m + n, NEW j \in 1 .. m + n, i # j
      PROVE  Owed(c[i]) \cap Owed(c[j]) = {}
  <2>1. CASE i \in 1 .. m /\ j \in 1 .. m  BY <1>2, <1>7, <2>1 DEF AllApart
  <2>2. CASE i \in 1 .. m /\ j \notin 1 .. m
    <3>1. PICK l \in 1 .. n : c[j] = b[l]  BY <1>3, <2>2
    <3>. QED  BY <1>2, <1>6, <2>2, <3>1
  <2>3. CASE i \notin 1 .. m /\ j \in 1 .. m
    <3>1. PICK k \in 1 .. n : c[i] = b[k]  BY <1>3, <2>3
    <3>. QED  BY <1>2, <1>6, <2>3, <3>1
  <2>4. CASE i \notin 1 .. m /\ j \notin 1 .. m
    <3>1. PICK k \in 1 .. n : i = m + k /\ c[i] = b[k]  BY <1>3, <2>4
    <3>2. PICK l \in 1 .. n : j = m + l /\ c[j] = b[l]  BY <1>3, <2>4
    <3>3. k # l  BY <1>7, <3>1, <3>2
    <3>. QED  BY <3>1, <3>2, <3>3 DEF AllApart
  <2>. QED  BY <2>1, <2>2, <2>3, <2>4
<1>. QED  BY <1>2, <1>5, <1>7 DEF AllApart

\* A visit that is inlined owes what its calls do.
LEMMA StoredInlined ==
  ASSUME StackInv, StoredInv, VisitsInlined, NEW made, IsSequence(made),
         made = (IF Call.type.kind = "struct"
                   THEN VisitRemotes(Call.type, Call.value, InlinedParent(Call.parent)) ELSE <<>>),
         AllOwed(made) = Owed(Call), AllApart(made)
  PROVE  StoredInv'
<1> PICK n, rest, frame : /\ n = Len(stack) /\ rest = Tail(Top.calls)
                          /\ frame = Frame(Top.node, made \o rest, Top.after)
    OBVIOUS
<1>1. /\ Top.calls # <<>> /\ UNCHANGED <<object, count, payload, config>>
      /\ Updated(stack', stack, n, frame)
      BY DEF VisitsInlined, Inlined, graph, contents, Updated
<1>2. n \in Nat /\ n > 0 /\ IsSequence(stack) /\ n \in 1 .. n
  <2>1. IsSequence(stack) /\ n > 0  BY DEF StackInv
  <2>2. n \in Nat  BY <2>1, InSeq
  <2>. QED  BY <2>1, <2>2
<1>3. /\ Len(stack') = n
      /\ \A k \in 1 .. n : stack'[k] = IF k = n THEN frame ELSE stack[k]
  <2> PICK new, old : new = stack' /\ old = stack  OBVIOUS
  <2>1. Updated(new, old, n, frame) /\ IsSequence(old) /\ n \in 1 .. Len(old)  BY <1>1, <1>2
  <2>2. /\ IsSequence(new) /\ Len(new) = Len(old)
        /\ \A k \in 1 .. Len(old) : new[k] = IF k = n THEN frame ELSE old[k]
        BY <2>1, UpdateIs
  <2>. QED  BY <2>2
<1>4. /\ OwedBy(Top) = Owed(Call) \cup OwedBy(Rest) /\ Owed(Call) \cap OwedBy(Rest) = {}
      /\ Apart(Rest) /\ Top = stack[n]
      BY <1>1, TopOwes DEF Top
<1>5. Rest.calls = rest /\ Rest.after = Top.after /\ frame.calls = made \o rest
      /\ frame.after = Top.after /\ frame.node = Top.node
      BY DEF Rest, Frame
<1>6. IsSequence(rest)  BY <1>1, TopCall DEF CallsOf
<1>7. AllOwed(made \o rest) = AllOwed(made) \cup AllOwed(rest) /\ AllApart(made \o rest)
  <2>1. AllApart(rest) /\ AllOwed(rest) \subseteq OwedBy(Rest)  BY <1>4, <1>5 DEF Apart, OwedBy
  <2>2. AllOwed(made) \cap AllOwed(rest) = {}  BY <1>4, <2>1
  <2>. QED  BY <1>6, <2>1, <2>2, AllOwedJoined
<1>8. OwedBy(frame) = OwedBy(Top) /\ Apart(frame)
  <2>1. Later(frame) = Later(Rest)  BY <1>5 DEF Later
  <2>2. OwedBy(Rest) = Later(Rest) \cup AllOwed(rest)  BY <1>5 DEF OwedBy
  <2>3. OwedBy(frame) = Later(Rest) \cup AllOwed(made) \cup AllOwed(rest)
        BY <1>5, <1>7, <2>1 DEF OwedBy
  <2>4. AllOwed(rest) \cap Later(Rest) = {}  BY <1>4, <1>5 DEF Apart
  <2>5. AllOwed(frame.calls) \cap Later(frame) = {}
    <3>1. AllOwed(frame.calls) = Owed(Call) \cup AllOwed(rest)  BY <1>5, <1>7
    <3>. QED  BY <1>4, <2>1, <2>2, <2>4, <3>1
  <2>6. Apart(frame)  BY <1>5, <1>7, <2>5 DEF Apart
  <2>. QED  BY <1>4, <2>2, <2>3, <2>6
<1>9. OwedIn' = OwedIn /\ StoredIn' = StoredIn
  <2>1. \A k \in 1 .. n : OwedBy(stack'[k]) = OwedBy(stack[k])  BY <1>3, <1>4, <1>8
  <2>2. OwedIn' = [k \in 1 .. n |-> OwedBy(stack'[k])]  BY <1>3 DEF OwedIn
  <2>3. OwedIn = [k \in 1 .. n |-> OwedBy(stack[k])]  BY DEF OwedIn
  <2>. QED  BY <1>1, <2>1, <2>2, <2>3 DEF StoredIn
<1>10. \A k \in 1 .. n : Apart(stack'[k])
  <2>1. \A k \in 1 .. n : Apart(stack[k])  BY DEF StoredInv
  <2>. QED  BY <1>3, <1>8, <2>1
<1>11. \A k \in 2 .. n : stack'[k].after.then = "replace" =>
                           StoredAt(payload', config', stack'[k].node + 1) = {}
  <2> SUFFICES ASSUME NEW k \in 2 .. n, stack'[k].after.then = "replace"
               PROVE  StoredAt(payload, config, stack'[k].node + 1) = {}
      BY <1>1
  <2>1. stack'[k].node = stack[k].node /\ stack'[k].after = stack[k].after
    <3>1. k \in 1 .. n  BY <1>2
    <3>2. CASE k = n  BY <1>3, <1>4, <1>5, <3>1, <3>2
    <3>3. CASE k # n  BY <1>3, <3>1, <3>3
    <3>. QED  BY <3>2, <3>3
  <2>. QED  BY <2>1 DEF StoredInv
<1>. QED  BY <1>1, <1>3, <1>9, <1>10, <1>11 DEF StoredInv

\* A visit that returns owes no more, once the placeholder it may have added is replaced.
LEMMA StoredReturns == ASSUME StackInv, StoredInv, Returns \/ ReplaceJob PROVE StoredInv'
<1> PICK n, p : n = Len(stack) /\ p = Top.node + 1  OBVIOUS
<1>1. /\ n > 1 /\ Top.calls = <<>> /\ stack' = Front(stack) /\ UNCHANGED <<object, count>>
      BY DEF Returns, ReplaceJob, Finished, graph
<1>2. IsSequence(stack) /\ n \in Nat /\ stack # <<>> /\ Top = stack[n]
  <2>1. IsSequence(stack)  BY DEF StackInv
  <2>2. n \in Nat  BY <2>1, InSeq
  <2>3. Len(<<>>) = 0  OBVIOUS
  <2>. QED  BY <1>1, <2>1, <2>2, <2>3 DEF Top
<1>3. Len(stack') = n - 1 /\ \A k \in 1 .. n - 1 : stack'[k] = stack[k]
  <2> PICK new, old : new = stack' /\ old = stack  OBVIOUS
  <2>1. /\ Len(Front(old)) = Len(old) - 1
        /\ \A k \in 1 .. Len(old) - 1 : Front(old)[k] = old[k]
        BY <1>2, FrontIs
  <2>. QED  BY <1>1, <2>1
<1>4. count \in Nat /\ p \in 1 .. count /\ FrameTrue(Top, count, job)
      /\ \A k \in 2 .. n - 1 : stack[k].node + 1 \in 1 .. count /\ stack[k].node + 1 # p
  <2>1. count \in Nat
    <3>1. count \in 0 .. N  BY DEF StackInv
    <3>. QED  BY <3>1, VisitAssumption
  <2>2. n \in 2 .. n  BY <1>1, <1>2
  <2>3. FrameTrue(Top, count, job)  BY <1>2, <2>2 DEF StackInv
  <2>4. Top.node \in 0 .. count - 1  BY <2>3 DEF FrameTrue
  <2>5. ASSUME NEW k \in 2 .. n - 1 PROVE stack[k].node + 1 \in 1 .. count /\ stack[k].node + 1 # p
    <3>1. k \in 2 .. n /\ k < n  BY <1>2
    <3>2. FrameTrue(stack[k], count, job) /\ stack[k].node < Top.node
          BY <1>2, <2>2, <3>1 DEF StackInv
    <3>3. stack[k].node \in 0 .. count - 1  BY <3>2 DEF FrameTrue
    <3>. QED  BY <2>1, <2>4, <3>2, <3>3
  <2>. QED  BY <2>1, <2>3, <2>4, <2>5
<1>5. OwedBy(Top) = Later(Top)
  <2>1. AllOwed(<<>>) = {}  BY DEF AllOwed
  <2>. QED  BY <1>1, <2>1 DEF OwedBy
<1>6. /\ IsSequence(payload) /\ Len(payload) = count /\ IsSequence(config) /\ Len(config) = count
      BY DEF StoredInv
<1>7. /\ IsSequence(payload') /\ Len(payload') = count /\ IsSequence(config') /\ Len(config') = count
      /\ \A i \in 1 .. count : i # p => StoredAt(payload', config', i) = StoredAt(payload, config, i)
      /\ StoredAt(payload', config', p) = StoredAt(payload, config, p) \cup OwedBy(Top)
  <2>1. CASE Returns
    <3>1. payload' = payload /\ config' = config /\ Top.after.then = "return"
          BY <2>1 DEF Returns, Finished, contents
    <3>2. OwedBy(Top) = {}  BY <1>5, <3>1 DEF Later
    <3>. QED  BY <1>6, <3>1, <3>2
  <2>2. CASE ReplaceJob
    <3>1. /\ Updated(payload', payload, p, Top.after.job) /\ Updated(config', config, p, Top.after.config)
          /\ Top.after.then = "replace"
          BY <2>2 DEF ReplaceJob, Finished, Updated
    <3>2. OwedBy(Top) = StoredAs(Top.after.job, Top.after.config)  BY <1>5, <3>1 DEF Later
    <3>3. StoredAt(payload, config, p) = {}
      <4>1. n \in 2 .. n /\ stack[n].after.then = "replace" /\ p = stack[n].node + 1
            BY <1>1, <1>2, <3>1
      <4>. QED  BY <4>1 DEF StoredInv
    <3>4. ASSUME NEW new, NEW old, NEW e, Updated(new, old, p, e), IsSequence(old), Len(old) = count
          PROVE  /\ IsSequence(new) /\ Len(new) = count /\ new[p] = e
                 /\ \A i \in 1 .. count : i # p => new[i] = old[i]
      <4>1. p \in 1 .. Len(old)  BY <1>4, <3>4
      <4>2. /\ IsSequence(new) /\ Len(new) = Len(old)
            /\ \A i \in 1 .. Len(old) : new[i] = IF i = p THEN e ELSE old[i]
            BY <3>4, <4>1, UpdateIs
      <4>. QED  BY <3>4, <4>1, <4>2
    <3>5. /\ IsSequence(payload') /\ Len(payload') = count /\ payload'[p] = Top.after.job
          /\ \A i \in 1 .. count : i # p => payload'[i] = payload[i]
          BY <1>6, <3>1, <3>4
    <3>6. /\ IsSequence(config') /\ Len(config') = count /\ config'[p] = Top.after.config
          /\ \A i \in 1 .. count : i # p => config'[i] = config[i]
          BY <1>6, <3>1, <3>4
    <3>. QED  BY <3>2, <3>3, <3>5, <3>6 DEF StoredAt
  <2>. QED  BY <2>1, <2>2
<1>8. Divided(Declared(RootPart(object)), StoredIn', count, OwedIn', n - 1)
  <2> PICK W : W = Declared(RootPart(object))  OBVIOUS
  <2>1. Divided(W, StoredIn, count, OwedIn, n)  BY DEF StoredInv
  <2>2. OwedIn[n] = OwedBy(Top)
    <3>1. n \in 1 .. n  BY <1>1, <1>2
    <3>. QED  BY <1>2, <3>1 DEF OwedIn
  <2>3. Given(StoredIn', StoredIn, count, p, OwedIn[n])
    <3>1. StoredIn' = [i \in 1 .. count |-> StoredAt(payload', config', i)]  BY <1>1 DEF StoredIn
    <3>2. StoredIn = [i \in 1 .. count |-> StoredAt(payload, config, i)]  BY DEF StoredIn
    <3>. QED  BY <1>4, <1>7, <2>2, <3>1, <3>2 DEF Given
  <2>4. Popped(OwedIn', OwedIn, n)
    <3>1. OwedIn' = [k \in 1 .. n - 1 |-> OwedBy(stack'[k])]  BY <1>3 DEF OwedIn
    <3>2. OwedIn = [k \in 1 .. n |-> OwedBy(stack[k])]  BY DEF OwedIn
    <3>3. \A k \in 1 .. n - 1 : k \in 1 .. n  BY <1>2
    <3>. QED  BY <1>3, <3>1, <3>2, <3>3 DEF Popped
  <2>5. n > 0  BY <1>1, <1>2
  <2>6. ASSUME NEW F, NEW F2, NEW G, NEW G2, NEW m,
               F = StoredIn, F2 = StoredIn', G = OwedIn, G2 = OwedIn', m = count
        PROVE  Divided(W, F2, m, G2, n - 1)
    <3>1. Divided(W, F, m, G, n) /\ m \in Nat /\ p \in 1 .. m  BY <1>4, <2>1, <2>6
    <3>2. Given(F2, F, m, p, G[n]) /\ Popped(G2, G, n)  BY <2>3, <2>4, <2>6
    <3> HIDE <2>6
    <3>. QED  BY <1>2, <2>5, <3>1, <3>2, DividedReturn
  <2>. QED  BY <2>6
<1>9. \A k \in 1 .. n - 1 : Apart(stack'[k])
  <2>1. \A k \in 1 .. n - 1 : k \in 1 .. n  BY <1>2
  <2>. QED  BY <1>3, <2>1 DEF StoredInv
<1>10. ASSUME NEW k \in 2 .. n - 1, stack'[k].after.then = "replace"
       PROVE  StoredAt(payload', config', stack'[k].node + 1) = {}
  <2>1. k \in 1 .. n - 1 /\ k \in 2 .. n  BY <1>2
  <2>2. stack'[k] = stack[k]  BY <1>3, <2>1
  <2>3. StoredAt(payload, config, stack[k].node + 1) = {}  BY <1>10, <2>1, <2>2 DEF StoredInv
  <2>. QED  BY <1>4, <1>7, <2>2, <2>3
<1>11. Divided(Declared(RootPart(object')), StoredIn', count', OwedIn', Len(stack'))
       BY <1>1, <1>3, <1>8
<1>. QED  BY <1>1, <1>3, <1>7, <1>9, <1>10, <1>11 DEF StoredInv

\* At first nothing is stored and everything is owed by the call for the object.
LEMMA StoredStarts == Init => StoredInv
<1> SUFFICES ASSUME Init PROVE StoredInv  OBVIOUS
<1> PICK c : c = VisitCall(object.type, object.value, None, None)  OBVIOUS
<1> PICK W : W = Declared(RootPart(object))  OBVIOUS
<1>1. c.call = "visit" /\ Visited(c) = RootPart(object)  BY DEF VisitCall, Visited, RootPart
<1>2. Owed(c) = W  BY <1>1 DEF Owed
<1>3. /\ Len(stack) = 1 /\ stack[1].calls = <<c>> /\ stack[1].after = Return
      BY DEF Init, Frame
<1>4. Later(stack[1]) = {}  BY <1>3 DEF Later, Return
<1>5. AllOwed(<<c>>) = W
  <2>1. Len(<<c>>) = 1 /\ <<c>>[1] = c  OBVIOUS
  <2>2. 1 .. 1 = {1}  OBVIOUS
  <2>. QED  BY <1>2, <2>1, <2>2 DEF AllOwed
<1>6. AllApart(<<c>>)
  <2>1. Len(<<c>>) = 1  OBVIOUS
  <2>2. \A i, j \in 1 .. 1 : i = j  OBVIOUS
  <2>. QED  BY <2>1, <2>2 DEF AllApart
<1>7. OwedBy(stack[1]) = W /\ Apart(stack[1])  BY <1>3, <1>4, <1>5, <1>6 DEF OwedBy, Apart
<1>8. OwedIn[1] = W /\ count = 0 /\ payload = <<>> /\ config = <<>>
  <2>1. 1 \in 1 .. Len(stack)  BY <1>3
  <2>. QED  BY <1>7, <2>1 DEF OwedIn, Init, Graph!GraphInit
<1>9. Divided(W, StoredIn, 0, OwedIn, 1)
  <2>1. 1 .. 0 = {} /\ 1 .. 1 = {1}  OBVIOUS
  <2>2. AnyOf(StoredIn, 0) = {} /\ AnyOf(OwedIn, 1) = W  BY <1>8, <2>1 DEF AnyOf
  <2>3. \A k, l \in 1 .. 1 : k = l  OBVIOUS
  <2>. QED  BY <2>1, <2>2, <2>3 DEF Divided
<1>10. IsSequence(<<>>) /\ Len(<<>>) = 0  BY DEF IsSequence
<1>11. \A k \in 1 .. 1 : k = 1  OBVIOUS
<1>12. 2 .. 1 = {}  OBVIOUS
<1>. QED  BY <1>3, <1>7, <1>8, <1>9, <1>10, <1>11, <1>12 DEF StoredInv
-----------------------------------------------------------------------------
(***************************************************************************)
(* What is declared for a part.                                            *)
(***************************************************************************)
\* Induction on the level.
LEMMA AllLevels ==
  ASSUME NEW T \in SUBSET Nat, 0 \in T, \A d \in 0 .. MaxNesting : d \in T => d + 1 \in T
  PROVE  \A d \in 0 .. MaxNesting + 1 : d \in T
<1> PICK M \in Nat : M = MaxNesting  BY ObjectAssumption
<1> PICK U : U = {d \in Nat : d <= M + 1 => d \in T}  OBVIOUS
<1>1. 0 \in U /\ U \in SUBSET Nat  OBVIOUS
<1>2. ASSUME NEW d \in U PROVE d + 1 \in U
  <2>1. d \in Nat /\ (d <= M + 1 => d \in T)  OBVIOUS
  <2>2. d + 1 <= M + 1 => d \in 0 .. M /\ d <= M + 1  BY <2>1
  <2>3. d + 1 <= M + 1 => d + 1 \in T  BY <2>1, <2>2
  <2>. QED  BY <2>1, <2>3
<1>3. U = Nat  BY <1>1, <1>2, AllNumbers
<1>. QED  BY <1>3

\* A level below several parts is what is below each.
LEMMA LevelUnion ==
  ASSUME NEW S, NEW d \in 0 .. MaxNesting + 1, NEW x
  PROVE  x \in Level(S)[d] <=> \E p \in S : x \in Level({p})[d]
<1> DEFINE T == {e \in Nat : \A y : y \in Level(S)[e] <=> \E p \in S : y \in Level({p})[e]}
<1>1. 0 \in T
  <2>1. ASSUME NEW y PROVE y \in Level(S)[0] <=> \E p \in S : y \in Level({p})[0]
    <3>1. Level(S)[0] = S  BY LevelSteps
    <3>2. ASSUME NEW p PROVE y \in Level({p})[0] <=> y = p
      <4>1. Level({p})[0] = {p}  BY LevelSteps
      <4>. QED  BY <4>1
    <3>. QED  BY <3>1, <3>2
  <2>. QED  BY <2>1
<1>2. ASSUME NEW e \in 0 .. MaxNesting, e \in T PROVE e + 1 \in T
  <2>1. /\ Level(S)[e + 1] = Below(Level(S)[e])
        /\ \A p \in S : Level({p})[e + 1] = Below(Level({p})[e])
        BY LevelSteps
  <2>2. \A y : y \in Level(S)[e] <=> \E p \in S : y \in Level({p})[e]  BY <1>2
  <2>3. ASSUME NEW y, y \in Level(S)[e + 1] PROVE \E p \in S : y \in Level({p})[e + 1]
    <3>1. PICK q \in Level(S)[e] : y \in ToSet(PartsOf(q))  BY <2>1, <2>3 DEF Below
    <3>2. PICK p \in S : q \in Level({p})[e]  BY <2>2
    <3>3. y \in Below(Level({p})[e])  BY <3>1, <3>2 DEF Below
    <3>. QED  BY <2>1, <3>3
  <2>4. ASSUME NEW y, NEW p \in S, y \in Level({p})[e + 1] PROVE y \in Level(S)[e + 1]
    <3>0. Level({p})[e + 1] = Below(Level({p})[e])  BY <2>1
    <3>1. PICK q \in Level({p})[e] : y \in ToSet(PartsOf(q))  BY <2>4, <3>0 DEF Below
    <3>2. q \in Level(S)[e]  BY <2>2, <3>1
    <3>. QED  BY <2>1, <3>1, <3>2 DEF Below
  <2>5. e + 1 \in Nat  OBVIOUS
  <2>. QED  BY <2>3, <2>4, <2>5
<1> HIDE DEF T
<1>3. T \in SUBSET Nat  BY DEF T
<1>4. d \in T  BY <1>1, <1>2, <1>3, AllLevels
<1>. QED  BY <1>4 DEF T

\* The parts of a part are one level lower.
LEMMA LevelBelow ==
  ASSUME NEW p, NEW d \in 0 .. MaxNesting, NEW x
  PROVE  x \in Level({p})[d + 1] <=> \E q \in ToSet(PartsOf(p)) : x \in Level({q})[d]
<1> DEFINE S == ToSet(PartsOf(p))
           T == {e \in Nat : e <= MaxNesting => Level({p})[e + 1] = Level(S)[e]}
<1>0. MaxNesting \in Nat  BY ObjectAssumption
<1>1. 0 \in T
  <2>1. Level({p})[0] = {p} /\ Level({p})[0 + 1] = Below(Level({p})[0]) /\ Level(S)[0] = S
    <3>1. 0 \in 0 .. MaxNesting  BY <1>0
    <3>. QED  BY <3>1, LevelSteps
  <2>2. Below({p}) = S  BY DEF Below
  <2> HIDE DEF S
  <2>. QED  BY <2>1, <2>2
<1>2. ASSUME NEW e \in 0 .. MaxNesting, e \in T PROVE e + 1 \in T
  <2>1. e + 1 <= MaxNesting => e + 1 \in 0 .. MaxNesting  BY <1>0
  <2>2. /\ Level(S)[e + 1] = Below(Level(S)[e])
        /\ e + 1 <= MaxNesting => Level({p})[(e + 1) + 1] = Below(Level({p})[e + 1])
        BY <2>1, LevelSteps
  <2>3. Level({p})[e + 1] = Level(S)[e]  BY <1>0, <1>2
  <2> HIDE DEF S
  <2>. QED  BY <1>0, <2>2, <2>3
<1> HIDE DEF T
<1>3. T \in SUBSET Nat  BY DEF T
<1>4. d \in T /\ d <= MaxNesting  BY <1>0, <1>1, <1>2, <1>3, AllLevels
<1>5. Level({p})[d + 1] = Level(S)[d]  BY <1>4 DEF T
<1>6. d \in 0 .. MaxNesting + 1  BY <1>0
<1> HIDE DEF S
<1>7. x \in Level(S)[d] <=> \E q \in S : x \in Level({q})[d]  BY <1>6, LevelUnion
<1>. QED  BY <1>5, <1>7 DEF S

\* No part of the object is nested deeper than MaxNesting.
LEMMA LevelsEnd ==
  ASSUME NEW obj \in Objects, NEW p \in Parts(obj)
  PROVE  Level({p})[MaxNesting + 1] = {}
<1> DEFINE root == RootPart(obj)
           T == {e \in Nat : \A q \in Level({root})[e] : Level({q})[MaxNesting + 1] = {}}
<1>0. MaxNesting \in Nat /\ Level({root})[MaxNesting + 1] = {}  BY ObjectAssumption
<1>1. 0 \in T
  <2>1. Level({root})[0] = {root}  BY LevelSteps
  <2>. QED  BY <1>0, <2>1
<1>2. ASSUME NEW e \in 0 .. MaxNesting, e \in T PROVE e + 1 \in T
  <2>1. Level({root})[e + 1] = Below(Level({root})[e])  BY LevelSteps
  <2>2. ASSUME NEW q \in Level({root})[e + 1] PROVE Level({q})[MaxNesting + 1] = {}
    <3>1. PICK r \in Level({root})[e] : q \in ToSet(PartsOf(r))  BY <2>1 DEF Below
    <3>2. Level({r})[MaxNesting + 1] = {}  BY <1>2
    <3>3. MaxNesting \in 0 .. MaxNesting  BY <1>0
    <3>4. \A x : x \notin Level({q})[MaxNesting]  BY <3>1, <3>2, <3>3, LevelBelow
    <3>5. Level({q})[MaxNesting + 1] = Below(Level({q})[MaxNesting])  BY <3>3, LevelSteps
    <3>. QED  BY <3>4, <3>5 DEF Below
  <2>3. e + 1 \in Nat  OBVIOUS
  <2>. QED  BY <2>2, <2>3
<1> HIDE DEF T
<1>3. T \in SUBSET Nat  BY DEF T
<1>4. PICK d \in 0 .. MaxNesting : p \in Level({root})[d]  BY DEF Parts, PartsWithin
<1>5. d \in T
  <2>1. d \in 0 .. MaxNesting + 1  BY <1>0
  <2>. QED  BY <1>1, <1>2, <1>3, <2>1, AllLevels
<1>. QED  BY <1>4, <1>5 DEF T

\* A part and what is within its own parts.
LEMMA PartsWithinIs ==
  ASSUME NEW obj \in Objects, NEW p \in Parts(obj), NEW x
  PROVE  x \in PartsWithin(p) <=> x = p \/ \E q \in ToSet(PartsOf(p)) : x \in PartsWithin(q)
<1> PICK M \in Nat : M = MaxNesting  BY ObjectAssumption
<1>1. Level({p})[0] = {p} /\ Level({p})[M + 1] = {}  BY LevelsEnd, LevelSteps
<1>2. \A q : x \in PartsWithin(q) <=> \E d \in 0 .. M : x \in Level({q})[d]  BY DEF PartsWithin
<1>3. \A d \in 0 .. M : x \in Level({p})[d + 1] <=> \E q \in ToSet(PartsOf(p)) : x \in Level({q})[d]
      BY LevelBelow
<1>4. ASSUME NEW d \in 0 .. M, x \in Level({p})[d]
      PROVE  x = p \/ \E q \in ToSet(PartsOf(p)) : x \in PartsWithin(q)
  <2>1. CASE d = 0  BY <1>1, <1>4, <2>1
  <2>2. CASE d # 0
    <3>1. d - 1 \in 0 .. M /\ (d - 1) + 1 = d  BY <2>2
    <3>2. \E q \in ToSet(PartsOf(p)) : x \in Level({q})[d - 1]  BY <1>3, <1>4, <3>1
    <3>. QED  BY <1>2, <3>1, <3>2
  <2>. QED  BY <2>1, <2>2
<1>5. ASSUME NEW q \in ToSet(PartsOf(p)), NEW d \in 0 .. M, x \in Level({q})[d]
      PROVE  \E e \in 0 .. M : x \in Level({p})[e]
  <2>1. x \in Level({p})[d + 1]  BY <1>3, <1>5
  <2>2. d + 1 \in 0 .. M  BY <1>1, <2>1
  <2>. QED  BY <2>1, <2>2
<1>6. 0 \in 0 .. M  OBVIOUS
<1>. QED  BY <1>1, <1>2, <1>4, <1>5, <1>6

\* What a part written in one piece has of its own.
Direct(p) == Primitives(<<Whole(p.type, p.value)>>) \X {p.config}

\* Declared, in steps: for a part in one piece, and for one that has parts.
LEMMA DeclaredIs ==
  ASSUME NEW obj \in Objects, NEW p \in Parts(obj)
  PROVE  /\ InOnePiece(p) => Declared(p) = Direct(p)
         /\ ~InOnePiece(p) =>
              \A x : x \in Declared(p) <=> \E i \in DOMAIN PartsOf(p) : x \in Declared(PartsOf(p)[i])
<1>1. \A q, x : x \in Declared(q) <=> \E r \in PartsWithin(q) : InOnePiece(r) /\ x \in Direct(r)
      BY DEF Declared, Direct
<1>2. \A r : r \in PartsWithin(p) <=> r = p \/ \E q \in ToSet(PartsOf(p)) : r \in PartsWithin(q)
      BY PartsWithinIs
<1>3. CASE InOnePiece(p)
  <2>1. ToSet(PartsOf(p)) = {}  BY <1>3 DEF PartsOf, ToSet
  <2>2. \A r : r \in PartsWithin(p) <=> r = p  BY <1>2, <2>1
  <2>3. \A x : x \in Declared(p) <=> x \in Direct(p)  BY <1>1, <1>3, <2>2
  <2>. QED  BY <1>3, <2>3 DEF Declared, Direct
<1>4. CASE ~InOnePiece(p)
  <2>1. \A q : q \in ToSet(PartsOf(p)) <=> \E i \in DOMAIN PartsOf(p) : q = PartsOf(p)[i]
        BY DEF ToSet
  <2>2. ASSUME NEW x, x \in Declared(p) PROVE \E i \in DOMAIN PartsOf(p) : x \in Declared(PartsOf(p)[i])
    <3>1. PICK r \in PartsWithin(p) : InOnePiece(r) /\ x \in Direct(r)  BY <1>1, <2>2
    <3>2. PICK q \in ToSet(PartsOf(p)) : r \in PartsWithin(q)  BY <1>2, <1>4, <3>1
    <3>3. x \in Declared(q)  BY <1>1, <3>1, <3>2
    <3>. QED  BY <2>1, <3>3
  <2>3. ASSUME NEW x, NEW i \in DOMAIN PartsOf(p), x \in Declared(PartsOf(p)[i])
        PROVE  x \in Declared(p)
    <3>1. PICK r \in PartsWithin(PartsOf(p)[i]) : InOnePiece(r) /\ x \in Direct(r)  BY <1>1, <2>3
    <3>2. PartsOf(p)[i] \in ToSet(PartsOf(p))  BY <2>1
    <3>3. r \in PartsWithin(p)  BY <1>2, <3>1, <3>2
    <3>. QED  BY <1>1, <3>1, <3>3
  <2>. QED  BY <1>4, <2>2, <2>3
<1>. QED  BY <1>3, <1>4
-----------------------------------------------------------------------------
(***************************************************************************)
(* The primitives among the tokens of a job.                               *)
(***************************************************************************)
PrimitivesOf(piece) == {x \in ToSet(piece) : x >= FirstId}

\* Piece by piece.
LEMMA PrimitivesAre ==
  /\ \A pieces, x : x \in Primitives(pieces) <=> \E i \in DOMAIN pieces : x \in PrimitivesOf(pieces[i])
  /\ \A piece : Primitives(<<piece>>) = PrimitivesOf(piece)
<1>1. ASSUME NEW pieces, NEW x
      PROVE  x \in Primitives(pieces) <=> \E i \in DOMAIN pieces : x \in PrimitivesOf(pieces[i])
  <2>1. \A q : q \in ToSet(pieces) <=> \E i \in DOMAIN pieces : q = pieces[i]  BY DEF ToSet
  <2>2. x \in Primitives(pieces) <=> \E q \in ToSet(pieces) : x \in ToSet(q) /\ x >= FirstId
        BY DEF Primitives
  <2>3. \A q : x \in PrimitivesOf(q) <=> x \in ToSet(q) /\ x >= FirstId  BY DEF PrimitivesOf
  <2>. QED  BY <2>1, <2>2, <2>3
<1>2. ASSUME NEW piece PROVE Primitives(<<piece>>) = PrimitivesOf(piece)
  <2>1. DOMAIN <<piece>> = {1} /\ <<piece>>[1] = piece  OBVIOUS
  <2>2. \A x : x \in Primitives(<<piece>>) <=> x \in PrimitivesOf(piece)
    <3> PICK one : one = <<piece>>  OBVIOUS
    <3>1. DOMAIN one = {1} /\ one[1] = piece  BY <2>1
    <3>. QED  BY <1>1, <3>1
  <2>. QED  BY <2>2 DEF Primitives, PrimitivesOf
<1>. QED  BY <1>1, <1>2

\* A length or a key is none.
LEMMA NoPrimitive == ASSUME NEW m \in Nat, m < FirstId PROVE PrimitivesOf(<<m>>) = {}
<1>1. FirstId \in Nat  BY PrimitivesAssumption
<1>2. ToSet(<<m>>) = {m}
  <2>1. DOMAIN <<m>> = {1} /\ <<m>>[1] = m  OBVIOUS
  <2>. QED  BY <2>1 DEF ToSet
<1>3. ~(m >= FirstId)  BY <1>1
<1>. QED  BY <1>2, <1>3 DEF PrimitivesOf

\* Tokens after tokens.
LEMMA PrimitivesJoined ==
  ASSUME NEW a, NEW b, IsSequence(a), IsSequence(b)
  PROVE  /\ \A x : x \in ToSet(a \o b) <=> x \in ToSet(a) \/ x \in ToSet(b)
         /\ Primitives(a \o b) = Primitives(a) \cup Primitives(b)
<1> PICK c, m, n : c = a \o b /\ m = Len(a) /\ n = Len(b)  OBVIOUS
<1>1. m \in Nat /\ n \in Nat /\ DOMAIN a = 1 .. m /\ DOMAIN b = 1 .. n  BY InSeq
<1>2. /\ IsSequence(c) /\ Len(c) = m + n
      /\ \A i \in 1 .. m : c[i] = a[i]
      /\ \A i \in 1 .. n : c[m + i] = b[i]
      BY ConcatIs
<1>3. DOMAIN c = 1 .. m + n  BY <1>2, InSeq
<1>4. ASSUME NEW i \in 1 .. m + n
      PROVE  (i \in 1 .. m /\ c[i] = a[i]) \/ \E j \in 1 .. n : c[i] = b[j]
  <2>1. CASE i <= m  BY <1>1, <1>2, <2>1
  <2>2. CASE ~(i <= m)
    <3>1. i - m \in 1 .. n /\ i = m + (i - m)  BY <1>1, <2>2
    <3>. QED  BY <1>2, <3>1
  <2>. QED  BY <2>1, <2>2
<1>5. /\ \A i \in 1 .. m : i \in 1 .. m + n
      /\ \A i \in 1 .. n : m + i \in 1 .. m + n
      BY <1>1
<1>6. ASSUME NEW x PROVE x \in ToSet(c) <=> x \in ToSet(a) \/ x \in ToSet(b)
  <2>1. /\ x \in ToSet(c) <=> \E i \in 1 .. m + n : x = c[i]
        /\ x \in ToSet(a) <=> \E i \in 1 .. m : x = a[i]
        /\ x \in ToSet(b) <=> \E i \in 1 .. n : x = b[i]
        BY <1>1, <1>3 DEF ToSet
  <2>. QED  BY <1>2, <1>4, <1>5, <2>1
<1>7. ASSUME NEW x PROVE x \in Primitives(c) <=> x \in Primitives(a) \/ x \in Primitives(b)
  <2>1. /\ x \in Primitives(c) <=> \E i \in 1 .. m + n : x \in PrimitivesOf(c[i])
        /\ x \in Primitives(a) <=> \E i \in 1 .. m : x \in PrimitivesOf(a[i])
        /\ x \in Primitives(b) <=> \E i \in 1 .. n : x \in PrimitivesOf(b[i])
        BY <1>1, <1>3, PrimitivesAre
  <2>. QED  BY <1>2, <1>4, <1>5, <2>1
<1>8. Primitives(c) = Primitives(a) \cup Primitives(b)
  <2> PICK A, B, C : A = Primitives(a) /\ B = Primitives(b) /\ C = Primitives(c)  OBVIOUS
  <2>1. \A x : x \in C <=> x \in A \/ x \in B  BY <1>7
  <2>2. C = A \cup B
    <3>1. C \subseteq A \cup B /\ A \cup B \subseteq C  BY <2>1
    <3>. QED  BY <3>1
  <2>. QED  BY <2>2
<1>. QED  BY <1>6, <1>8

\* The first m sequences of seqs, one after the other.
Flat(seqs, m, f) == f = [i \in 1 .. m |-> IF i = 1 THEN seqs[i] ELSE f[i - 1] \o seqs[i]]

\* There is such a function, step by step.
LEMMA FlatExists ==
  ASSUME NEW seqs, NEW n \in Nat \ {0}
  PROVE  \E f : Flat(seqs, n, f)
<1> DEFINE T == {m \in Nat : \E f : Flat(seqs, m + 1, f)}
<1>1. 0 \in T
  <2> DEFINE f == [i \in 1 .. 1 |-> seqs[1]]
  <2>1. Flat(seqs, 0 + 1, f)  BY DEF Flat
  <2>. QED  BY <2>1
<1>2. ASSUME NEW m \in T PROVE m + 1 \in T
  <2>1. m \in Nat  OBVIOUS
  <2>2. PICK f : Flat(seqs, m + 1, f)  OBVIOUS
  <2> DEFINE g == [i \in 1 .. (m + 1) + 1 |->
                     IF i <= m + 1 THEN f[i] ELSE f[m + 1] \o seqs[i]]
  <2>3. ASSUME NEW i \in 1 .. (m + 1) + 1
        PROVE  g[i] = IF i = 1 THEN seqs[i] ELSE g[i - 1] \o seqs[i]
    <3>1. CASE i <= m + 1
      <4>1. i \in 1 .. m + 1  BY <2>1, <3>1
      <4>2. f[i] = IF i = 1 THEN seqs[i] ELSE f[i - 1] \o seqs[i]  BY <2>2, <4>1 DEF Flat
      <4>3. i # 1 => i - 1 \in 1 .. (m + 1) + 1 /\ i - 1 <= m + 1  BY <2>1, <4>1
      <4>. QED  BY <3>1, <4>2, <4>3
    <3>2. CASE ~(i <= m + 1)
      <4>1. i # 1 /\ i - 1 = m + 1 /\ m + 1 \in 1 .. (m + 1) + 1 /\ m + 1 <= m + 1
            BY <2>1, <3>2
      <4>. QED  BY <3>2, <4>1
    <3>. QED  BY <3>1, <3>2
  <2>4. g = [i \in 1 .. (m + 1) + 1 |-> g[i]]  OBVIOUS
  <2> HIDE DEF g
  <2>5. Flat(seqs, (m + 1) + 1, g)  BY <2>3, <2>4 DEF Flat
  <2>. QED  BY <2>1, <2>5
<1>3. T \in SUBSET Nat  OBVIOUS
<1> HIDE DEF T
<1>4. T = Nat  BY <1>1, <1>2, <1>3, AllNumbers
<1>5. n - 1 \in T /\ (n - 1) + 1 = n  BY <1>4
<1>. QED  BY <1>5 DEF T

\* The pieces of several sequences of pieces, one after another.
LEMMA FlatHolds ==
  ASSUME NEW seqs, IsSequence(seqs), \A i \in 1 .. Len(seqs) : IsSequence(seqs[i])
  PROVE  /\ IsSequence(FlattenSeq(seqs))
         /\ \A x : x \in Primitives(FlattenSeq(seqs))
                     <=> \E i \in 1 .. Len(seqs) : x \in Primitives(seqs[i])
<1> PICK n \in Nat : n = Len(seqs)  BY InSeq
<1>1. CASE n = 0
  <2>1. seqs = <<>> /\ FlattenSeq(seqs) = seqs  BY <1>1, EmptyIs DEF FlattenSeq
  <2>2. DOMAIN seqs = {}  BY <2>1
  <2>3. \A x : x \notin Primitives(seqs)  BY <2>2, PrimitivesAre
  <2>. QED  BY <1>1, <2>1, <2>3
<1>2. CASE n # 0
  <2>1. FlattenSeq(seqs) = (CHOOSE f : Flat(seqs, n, f))[n]  BY <1>2 DEF FlattenSeq, Flat
  <2>2. n \in Nat \ {0}  BY <1>2
  <2>3. \E f : Flat(seqs, n, f)  BY <2>2, FlatExists
  <2>4. PICK f : Flat(seqs, n, f) /\ FlattenSeq(seqs) = f[n]  BY <2>1, <2>3
  <2> DEFINE Holds(m) == /\ IsSequence(f[m])
                         /\ \A x : x \in Primitives(f[m]) <=> \E i \in 1 .. m : x \in Primitives(seqs[i])
             T == {m \in Nat : m + 1 <= n => Holds(m + 1)}
  <2>5. \A i \in 1 .. n : f[i] = IF i = 1 THEN seqs[i] ELSE f[i - 1] \o seqs[i]
        BY <2>4 DEF Flat
  <2>6. 0 \in T
    <3>1. f[1] = seqs[1] /\ 1 \in 1 .. n  BY <2>2, <2>5
    <3>2. \A x : x \in Primitives(f[1]) <=> \E i \in 1 .. 1 : x \in Primitives(seqs[i])
          BY <3>1
    <3>3. IsSequence(f[1])  BY <3>1
    <3>4. Holds(1)  BY <3>2, <3>3
    <3> HIDE DEF Holds
    <3>. QED  BY <3>4
  <2>7. ASSUME NEW m \in T PROVE m + 1 \in T
    <3>1. m \in Nat /\ (m + 1 <= n => Holds(m + 1))  OBVIOUS
    <3> SUFFICES ASSUME (m + 1) + 1 <= n PROVE Holds((m + 1) + 1)  BY <3>1
    <3> PICK k \in Nat : k = m + 1  BY <3>1
    <3>2. k + 1 \in 1 .. n /\ k + 1 # 1 /\ (k + 1) - 1 = k /\ Holds(k)  BY <3>1
    <3>3. f[k + 1] = f[k] \o seqs[k + 1] /\ IsSequence(seqs[k + 1])  BY <2>5, <3>2
    <3> PICK a, b : a = f[k] /\ b = seqs[k + 1]  OBVIOUS
    <3>4. IsSequence(a) /\ IsSequence(b)  BY <3>2, <3>3
    <3>5. IsSequence(a \o b) /\ Primitives(a \o b) = Primitives(a) \cup Primitives(b)
          BY <3>4, ConcatIs, PrimitivesJoined
    <3>6. \A i : i \in 1 .. k + 1 <=> i \in 1 .. k \/ i = k + 1  OBVIOUS
    <3>7. \A x : x \in Primitives(f[k + 1]) <=> \E i \in 1 .. k + 1 : x \in Primitives(seqs[i])
          BY <3>2, <3>3, <3>5, <3>6
    <3>8. IsSequence(f[k + 1])  BY <3>3, <3>5
    <3>. QED  BY <3>7, <3>8
  <2> HIDE DEF T
  <2>8. T \in SUBSET Nat  BY DEF T
  <2>9. T = Nat  BY <2>6, <2>7, <2>8, AllNumbers
  <2>10. n - 1 \in T /\ (n - 1) + 1 = n  BY <2>2, <2>9
  <2>11. n <= n  OBVIOUS
  <2>12. Holds(n)
    <3> HIDE DEF Holds
    <3>. QED  BY <2>10, <2>11 DEF T
  <2>. QED  BY <2>4, <2>12
<1>. QED  BY <1>1, <1>2

\* Different parts of a part have no primitive in common.
LEMMA PartsApart ==
  ASSUME NEW obj \in Objects, NEW p \in Parts(obj), NEW i \in DOMAIN PartsOf(p),
         NEW j \in DOMAIN PartsOf(p), NEW x, x \in Declared(PartsOf(p)[i]), x \in Declared(PartsOf(p)[j])
  PROVE  i = j
<1>1. \A k, l \in DOMAIN PartsOf(p) : k # l => Declared(PartsOf(p)[k]) \cap Declared(PartsOf(p)[l]) = {}
      BY PrimitivesAssumption DEF Parts
<1>. QED  BY <1>1

\* Where a structure's primitives are: those of its local fields in its own piece, the
\* others in the chunks of its remote fields, whatever its own configuration is.
LEMMA FieldsDeclared ==
  ASSUME NEW obj \in Objects, NEW p \in Parts(obj), ~InOnePiece(p), p.type.kind = "struct"
  PROVE  /\ \A x : x \in Declared(p) <=> \E i \in 1 .. Len(p.value) : x \in Declared(FieldPart(p, i))
         /\ \A i, j \in 1 .. Len(p.value) : \A x :
              x \in Declared(FieldPart(p, i)) /\ x \in Declared(FieldPart(p, j)) => i = j
         /\ \A i \in 1 .. Len(p.value) :
              /\ ~IsRemote(p.type.fields[i]) =>
                   Declared(FieldPart(p, i))
                     = PrimitivesOf(Whole(p.type.fields[i].type, p.value[i])) \X {p.config}
              /\ IsRemote(p.type.fields[i]) =>
                   FieldPart(Part(p.type, p.value, None, FALSE), i) = FieldPart(p, i)
<1>1. /\ DOMAIN PartsOf(p) = 1 .. Len(p.value)
      /\ \A i \in 1 .. Len(p.value) : FieldPart(p, i) \in Parts(obj) /\ PartsOf(p)[i] = FieldPart(p, i)
      BY PartsAre
<1>2. \A x : x \in Declared(p) <=> \E i \in DOMAIN PartsOf(p) : x \in Declared(PartsOf(p)[i])
      BY DeclaredIs
<1>3. ASSUME NEW i \in 1 .. Len(p.value), NEW j \in 1 .. Len(p.value), NEW x,
             x \in Declared(FieldPart(p, i)), x \in Declared(FieldPart(p, j))
      PROVE  i = j
  <2>1. /\ i \in DOMAIN PartsOf(p) /\ j \in DOMAIN PartsOf(p)
        /\ x \in Declared(PartsOf(p)[i]) /\ x \in Declared(PartsOf(p)[j])
        BY <1>1, <1>3
  <2>. QED  BY <2>1, PartsApart
<1>4. ASSUME NEW i \in 1 .. Len(p.value), ~IsRemote(p.type.fields[i])
      PROVE  Declared(FieldPart(p, i))
               = PrimitivesOf(Whole(p.type.fields[i].type, p.value[i])) \X {p.config}
  <2> PICK q : q = FieldPart(p, i)  OBVIOUS
  <2>1. /\ q.type = p.type.fields[i].type /\ q.value = p.value[i] /\ q.config = p.config /\ q.whole
        BY <1>4 DEF FieldPart, Part
  <2>2. q \in Parts(obj) /\ InOnePiece(q)  BY <1>1, <2>1 DEF InOnePiece
  <2>3. Declared(q) = Direct(q)  BY <2>2, DeclaredIs
  <2>4. Primitives(<<Whole(q.type, q.value)>>) = PrimitivesOf(Whole(q.type, q.value))
        BY PrimitivesAre
  <2>. QED  BY <2>1, <2>3, <2>4 DEF Direct
<1>5. ASSUME NEW i \in 1 .. Len(p.value), IsRemote(p.type.fields[i])
      PROVE  FieldPart(Part(p.type, p.value, None, FALSE), i) = FieldPart(p, i)
      BY <1>5 DEF FieldPart, Part
<1>. QED  BY <1>1, <1>2, <1>3, <1>4, <1>5

\* The local fields, as the macro writes them.
LEMMA LocalsWritten ==
  ASSUME NEW obj \in Objects, NEW p \in Parts(obj), ~InOnePiece(p), p.type.kind = "struct"
  PROVE  /\ IsSequence(WriteLocals(p.type, p.value))
         /\ \A x : x \in Primitives(WriteLocals(p.type, p.value)) <=>
              \E i \in 1 .. Len(p.value) :
                ~IsRemote(p.type.fields[i]) /\ x \in PrimitivesOf(Whole(p.type.fields[i].type, p.value[i]))
<1> DEFINE local == Locals(p.type.fields)
           written == WriteLocals(p.type, p.value)
<1>1. Lists(local, {i \in 1 .. Len(p.value) : ~IsRemote(p.type.fields[i])})  BY RemotesListed
<1>2. written = [k \in DOMAIN local |-> Whole(p.type.fields[local[k]].type, p.value[local[k]])]
      BY DEF WriteLocals
<1> HIDE DEF local, written
<1>3. /\ Len(local) \in Nat /\ DOMAIN local = 1 .. Len(local)
      /\ \A k \in 1 .. Len(local) : local[k] \in 1 .. Len(p.value) /\ ~IsRemote(p.type.fields[local[k]])
      /\ \A i \in 1 .. Len(p.value) :
           ~IsRemote(p.type.fields[i]) => \E k \in 1 .. Len(local) : local[k] = i
      BY <1>1 DEF Lists
<1>4. DOMAIN written = 1 .. Len(local)  BY <1>2, <1>3
<1>5. IsSequence(written)
  <2>1. written = [k \in 1 .. Len(local) |-> written[k]]  BY <1>2, <1>3
  <2>. QED  BY <1>3, <2>1, FunctionIs
<1>6. \A k \in 1 .. Len(local) : written[k] = Whole(p.type.fields[local[k]].type, p.value[local[k]])
      BY <1>2, <1>3
<1>7. ASSUME NEW x
      PROVE  x \in Primitives(written) <=>
               \E i \in 1 .. Len(p.value) :
                 ~IsRemote(p.type.fields[i]) /\ x \in PrimitivesOf(Whole(p.type.fields[i].type, p.value[i]))
  <2>1. x \in Primitives(written) <=> \E k \in 1 .. Len(local) : x \in PrimitivesOf(written[k])
        BY <1>4, PrimitivesAre
  <2>. QED  BY <1>3, <1>6, <2>1
<1>. QED  BY <1>5, <1>7 DEF written

\* What its remote fields are to store, whatever its own configuration is.
LEMMA RemotesAre ==
  ASSUME NEW obj \in Objects, NEW p \in Parts(obj), ~InOnePiece(p), p.type.kind = "struct", NEW x
  PROVE  x \in OwedRemotes(p.type, p.value) <=>
           \E i \in 1 .. Len(p.value) : IsRemote(p.type.fields[i]) /\ x \in Declared(FieldPart(p, i))
<1>1. \A i \in 1 .. Len(p.value) :
        IsRemote(p.type.fields[i]) => FieldPart(Part(p.type, p.value, None, FALSE), i) = FieldPart(p, i)
      BY FieldsDeclared
<1>2. DOMAIN p.value = 1 .. Len(p.value)  BY PartsAre
<1> PICK q : q = Part(p.type, p.value, None, FALSE)  OBVIOUS
<1>3. OwedRemotes(p.type, p.value)
        = UNION {Declared(FieldPart(q, i)) : i \in {j \in DOMAIN p.value : IsRemote(p.type.fields[j])}}
      BY DEF OwedRemotes
<1>4. x \in OwedRemotes(p.type, p.value) <=>
        \E i \in 1 .. Len(p.value) : IsRemote(p.type.fields[i]) /\ x \in Declared(FieldPart(q, i))
      BY <1>2, <1>3
<1>. QED  BY <1>1, <1>4

\* A structure's primitives: its own piece's, and those its remote fields are to store.
LEMMA StructIs ==
  ASSUME NEW obj \in Objects, NEW p \in Parts(obj), ~InOnePiece(p), p.type.kind = "struct"
  PROVE  LET own == Primitives(WriteLocals(p.type, p.value)) \X {p.config}
             remotes == OwedRemotes(p.type, p.value)
         IN Declared(p) = own \cup remotes /\ own \cap remotes = {}
<1> PICK own : own = Primitives(WriteLocals(p.type, p.value)) \X {p.config}  OBVIOUS
<1> PICK remotes : remotes = OwedRemotes(p.type, p.value)  OBVIOUS
<1> DEFINE F(i) == Declared(FieldPart(p, i))
<1>1. ASSUME NEW x
      PROVE  x \in own <=> \E i \in 1 .. Len(p.value) : ~IsRemote(p.type.fields[i]) /\ x \in F(i)
  <2>1. \A y : y \in Primitives(WriteLocals(p.type, p.value)) <=>
          \E i \in 1 .. Len(p.value) :
            ~IsRemote(p.type.fields[i]) /\ y \in PrimitivesOf(Whole(p.type.fields[i].type, p.value[i]))
        BY LocalsWritten
  <2>2. \A i \in 1 .. Len(p.value) : ~IsRemote(p.type.fields[i]) =>
          F(i) = PrimitivesOf(Whole(p.type.fields[i].type, p.value[i])) \X {p.config}
        BY FieldsDeclared
  <2>3. ASSUME x \in own
        PROVE  \E i \in 1 .. Len(p.value) : ~IsRemote(p.type.fields[i]) /\ x \in F(i)
    <3>1. PICK y \in Primitives(WriteLocals(p.type, p.value)) : x = <<y, p.config>>  BY <2>3
    <3>2. PICK i \in 1 .. Len(p.value) :
            ~IsRemote(p.type.fields[i]) /\ y \in PrimitivesOf(Whole(p.type.fields[i].type, p.value[i]))
          BY <2>1, <3>1
    <3>3. F(i) = PrimitivesOf(Whole(p.type.fields[i].type, p.value[i])) \X {p.config}  BY <2>2, <3>2
    <3> HIDE DEF F
    <3>. QED  BY <3>1, <3>2, <3>3
  <2>4. ASSUME NEW i \in 1 .. Len(p.value), ~IsRemote(p.type.fields[i]), x \in F(i)
        PROVE  x \in own
    <3>1. F(i) = PrimitivesOf(Whole(p.type.fields[i].type, p.value[i])) \X {p.config}  BY <2>2, <2>4
    <3>2. PICK y \in PrimitivesOf(Whole(p.type.fields[i].type, p.value[i])) : x = <<y, p.config>>
          BY <2>4, <3>1
    <3>3. y \in Primitives(WriteLocals(p.type, p.value))  BY <2>1, <2>4, <3>2
    <3>. QED  BY <3>2, <3>3
  <2>. QED  BY <2>3, <2>4
<1>2. \A x : x \in remotes <=> \E i \in 1 .. Len(p.value) : IsRemote(p.type.fields[i]) /\ x \in F(i)
      BY RemotesAre
<1>3. /\ \A x : x \in Declared(p) <=> \E i \in 1 .. Len(p.value) : x \in F(i)
      /\ \A i, j \in 1 .. Len(p.value) : \A x : x \in F(i) /\ x \in F(j) => i = j
      BY FieldsDeclared
<1> HIDE DEF F
<1> PICK all : all = Declared(p)  OBVIOUS
<1>4. \A x : x \in all <=> x \in own \/ x \in remotes  BY <1>1, <1>2, <1>3
<1>5. \A x : ~(x \in own /\ x \in remotes)  BY <1>1, <1>2, <1>3
<1>6. all = own \cup remotes  BY <1>4
<1>7. own \cap remotes = {}  BY <1>5
<1>. QED  BY <1>6, <1>7

\* The calls for them owe that.
LEMMA RemotesOwed ==
  ASSUME NEW obj \in Objects, NEW p \in Parts(obj), ~InOnePiece(p), p.type.kind = "struct", NEW n \in Nat
  PROVE  LET calls == VisitRemotes(p.type, p.value, n)
         IN AllOwed(calls) = OwedRemotes(p.type, p.value) /\ AllApart(calls)
<1> PICK calls : calls = VisitRemotes(p.type, p.value, n)  OBVIOUS
<1> PICK remote : remote = Remotes(p.type.fields)  OBVIOUS
<1>1. /\ Len(calls) = Len(remote)
      /\ \A k \in 1 .. Len(calls) : calls[k].call = "visit" /\ Visited(calls[k]) = FieldPart(p, remote[k])
      BY RemotesCalled
<1>2. Lists(remote, {i \in 1 .. Len(p.value) : IsRemote(p.type.fields[i])})  BY RemotesListed
<1>3. /\ \A k \in 1 .. Len(calls) : remote[k] \in 1 .. Len(p.value) /\ IsRemote(p.type.fields[remote[k]])
      /\ \A k, l \in 1 .. Len(calls) : remote[k] = remote[l] => k = l
      /\ \A i \in 1 .. Len(p.value) :
           IsRemote(p.type.fields[i]) => \E k \in 1 .. Len(calls) : remote[k] = i
      BY <1>1, <1>2 DEF Lists
<1>4. \A k \in 1 .. Len(calls) : Owed(calls[k]) = Declared(FieldPart(p, remote[k]))
      BY <1>1 DEF Owed
<1>5. \A x : x \in OwedRemotes(p.type, p.value) <=>
        \E i \in 1 .. Len(p.value) : IsRemote(p.type.fields[i]) /\ x \in Declared(FieldPart(p, i))
      BY RemotesAre
<1>6. \A x : x \in AllOwed(calls) <=> \E k \in 1 .. Len(calls) : x \in Owed(calls[k])
      BY DEF AllOwed
<1> PICK all, owed : all = AllOwed(calls) /\ owed = OwedRemotes(p.type, p.value)  OBVIOUS
<1>7. \A x : x \in all <=> x \in owed  BY <1>3, <1>4, <1>5, <1>6
<1>8. all = owed
  <2>1. all = AllOwed(calls)  OBVIOUS
  <2>2. \A x \in owed : x \in all  BY <1>7
  <2>3. \A x \in all : x \in owed  BY <1>7
  <2>. QED  BY <2>2, <2>3
<1>9. ASSUME NEW k \in 1 .. Len(calls), NEW l \in 1 .. Len(calls), k # l
      PROVE  Owed(calls[k]) \cap Owed(calls[l]) = {}
  <2>1. remote[k] \in 1 .. Len(p.value) /\ remote[l] \in 1 .. Len(p.value) /\ remote[k] # remote[l]
        BY <1>3, <1>9
  <2>2. \A x : ~(x \in Declared(FieldPart(p, remote[k])) /\ x \in Declared(FieldPart(p, remote[l])))
        BY <2>1, FieldsDeclared
  <2>. QED  BY <1>4, <2>2
<1>. QED  BY <1>8, <1>9 DEF AllApart

\* As many numbers as are told apart are no more than there are.
LEMMA NoMore ==
  ASSUME NEW m, NEW n, NEW f, m \in Nat, n \in Nat, f \in [1 .. m -> 1 .. n],
         \A i, j \in 1 .. m : f[i] = f[j] => i = j
  PROVE  m <= n
<1>1. f \in Injection(1 .. m, 1 .. n)  BY DEF Injection, IsInjective
<1>2. /\ IsFiniteSet(1 .. n) /\ Cardinality(1 .. n) = n
      /\ Cardinality(1 .. m) = m
  <2>1. 1 \in Int /\ m \in Int /\ n \in Int  OBVIOUS
  <2>2. IsFiniteSet(1 .. n) /\ Cardinality(1 .. n) = IF 1 > n THEN 0 ELSE n - 1 + 1
        BY <2>1, FS_Interval
  <2>3. Cardinality(1 .. m) = IF 1 > m THEN 0 ELSE m - 1 + 1  BY <2>1, FS_Interval
  <2>4. (IF 1 > n THEN 0 ELSE n - 1 + 1) = n /\ (IF 1 > m THEN 0 ELSE m - 1 + 1) = m  OBVIOUS
  <2>. QED  BY <2>2, <2>3, <2>4
<1>3. Cardinality(1 .. m) <= Cardinality(1 .. n)  BY <1>1, <1>2, FS_Injection
<1>. QED  BY <1>2, <1>3

\* The parts of a collection, in whatever order they are.
LEMMA ItemsDeclared ==
  ASSUME NEW obj \in Objects, NEW p \in Parts(obj), ~InOnePiece(p), p.type.kind \in {"vec", "map"}
  PROVE  /\ Len(p.value) \in Nat /\ DOMAIN p.value = 1 .. Len(p.value) /\ Len(p.value) < FirstId
         /\ \A i \in DOMAIN p.value : ItemPart(p, i) \in Parts(obj)
         /\ \A x : x \in Declared(p) <=> \E i \in DOMAIN p.value : x \in Declared(ItemPart(p, i))
         /\ \A i, j \in DOMAIN p.value : \A x :
              x \in Declared(ItemPart(p, i)) /\ x \in Declared(ItemPart(p, j)) => i = j
<1>1. /\ Len(p.value) \in Nat /\ DOMAIN p.value = 1 .. Len(p.value)
      /\ DOMAIN PartsOf(p) = 1 .. Len(p.value)
      /\ \A i \in 1 .. Len(p.value) : ItemPart(p, i) \in Parts(obj) /\ PartsOf(p)[i] = ItemPart(p, i)
      BY PartsAre
<1>2. \A x : x \in Declared(p) <=> \E i \in DOMAIN PartsOf(p) : x \in Declared(PartsOf(p)[i])
      BY DeclaredIs
<1>3. ASSUME NEW i \in DOMAIN p.value, NEW j \in DOMAIN p.value, NEW x,
             x \in Declared(ItemPart(p, i)), x \in Declared(ItemPart(p, j))
      PROVE  i = j
  <2>1. /\ i \in DOMAIN PartsOf(p) /\ j \in DOMAIN PartsOf(p)
        /\ x \in Declared(PartsOf(p)[i]) /\ x \in Declared(PartsOf(p)[j])
        BY <1>1, <1>3
  <2>. QED  BY <2>1, PartsApart
<1>4. Len(p.value) < FirstId  BY PrimitivesAssumption DEF Parts
<1>. QED  BY <1>1, <1>2, <1>3, <1>4

\* The items of a shard are parts of the object, and share no primitive; its length and
\* its keys are none.
LEMMA ShardItems ==
  ASSUME NEW obj \in Objects, NEW c, CallOf(obj, c), c.call = "shard"
  PROVE  /\ IsSequence(c.value) /\ Len(c.value) \in Nat /\ DOMAIN c.value = 1 .. Len(c.value)
         /\ Len(c.value) < FirstId
         /\ \A i \in 1 .. Len(c.value) :
              /\ ItemOf(c, i) \in Parts(obj)
              /\ c.type.kind = "map" => c.value[i][1] \in Nat /\ c.value[i][1] < FirstId
         /\ \A i, j \in 1 .. Len(c.value) : \A x :
              x \in Declared(ItemOf(c, i)) /\ x \in Declared(ItemOf(c, j)) => i = j
<1>1. /\ IsSequence(c.value) /\ c.type.kind \in {"vec", "map"}
      /\ \E p \in Parts(obj) :
           ~InOnePiece(p) /\ \E at \in [1 .. Len(c.value) -> DOMAIN p.value] : ShardOf(c, p, at)
      BY DEF CallOf
<1>2. PICK p \in Parts(obj) :
        ~InOnePiece(p) /\ \E at \in [1 .. Len(c.value) -> DOMAIN p.value] : ShardOf(c, p, at)
      BY <1>1
<1>3. PICK at : at \in [1 .. Len(c.value) -> DOMAIN p.value] /\ ShardOf(c, p, at)  BY <1>2
<1> PICK m : m = Len(c.value)  OBVIOUS
<1>4. /\ p.type = c.type /\ p.config = c.config /\ at \in [1 .. m -> DOMAIN p.value]
      /\ \A i, j \in 1 .. m : at[i] = at[j] => i = j
      /\ \A i \in 1 .. m :
           Item(c, i) = p.value[at[i]] /\ (c.type.kind = "map" => c.value[i][1] = at[i])
      BY <1>3 DEF ShardOf
<1>5. /\ Len(p.value) \in Nat /\ DOMAIN p.value = 1 .. Len(p.value) /\ Len(p.value) < FirstId
      /\ \A i \in DOMAIN p.value : ItemPart(p, i) \in Parts(obj)
      /\ \A i, j \in DOMAIN p.value : \A x :
           x \in Declared(ItemPart(p, i)) /\ x \in Declared(ItemPart(p, j)) => i = j
      BY <1>1, <1>2, <1>4, ItemsDeclared
<1>6. m \in Nat /\ DOMAIN c.value = 1 .. m  BY <1>1, InSeq
<1>7. FirstId \in Nat  BY PrimitivesAssumption
<1>8. m < FirstId
  <2> PICK n : n = Len(p.value)  OBVIOUS
  <2>1. m <= n
    <3>1. at \in [1 .. m -> 1 .. n] /\ n \in Nat  BY <1>4, <1>5
    <3>. QED  BY <1>4, <1>6, <3>1, NoMore
  <2>. QED  BY <1>5, <1>6, <1>7, <2>1
<1>9. \A i \in 1 .. m : at[i] \in DOMAIN p.value  BY <1>4
<1>10. ASSUME NEW i \in 1 .. m PROVE ItemOf(c, i) = ItemPart(p, at[i])
       BY <1>4, <1>10 DEF ItemOf, ItemPart
<1>11. ASSUME NEW i \in 1 .. m
       PROVE  /\ ItemOf(c, i) \in Parts(obj)
              /\ c.type.kind = "map" => c.value[i][1] \in Nat /\ c.value[i][1] < FirstId
  <2>1. ItemOf(c, i) \in Parts(obj)  BY <1>5, <1>9, <1>10
  <2>2. at[i] \in Nat /\ at[i] < FirstId
    <3>1. at[i] \in 1 .. Len(p.value)  BY <1>5, <1>9
    <3>. QED  BY <1>5, <1>7, <3>1
  <2>. QED  BY <1>4, <2>1, <2>2
<1>12. ASSUME NEW i \in 1 .. m, NEW j \in 1 .. m, NEW x,
              x \in Declared(ItemOf(c, i)), x \in Declared(ItemOf(c, j))
       PROVE  i = j
  <2>1. x \in Declared(ItemPart(p, at[i])) /\ x \in Declared(ItemPart(p, at[j]))  BY <1>10, <1>12
  <2>2. at[i] = at[j]  BY <1>5, <1>9, <2>1
  <2>. QED  BY <1>4, <2>2
<1>. QED  BY <1>1, <1>6, <1>8, <1>11, <1>12

\* An item's primitives: those in the chunk of its shard, and those its remote fields
\* are to store (serialize_shallow, and visit_inlined after it).
LEMMA ShallowIs ==
  ASSUME NEW obj \in Objects, NEW c, CallOf(obj, c), c.call = "shard", NEW i \in 1 .. Len(c.value)
  PROVE  LET shallow == SerializeShallow(c.type.item, Item(c, i))
             own == Primitives(shallow) \X {c.config}
             remotes == OwedRemotes(c.type.item, Item(c, i))
         IN /\ IsSequence(shallow)
            /\ Declared(ItemOf(c, i)) = own \cup remotes /\ own \cap remotes = {}
<1> PICK q, t, v : q = ItemOf(c, i) /\ t = c.type.item /\ v = Item(c, i)  OBVIOUS
<1>1. /\ q.type = t /\ q.value = v /\ q.config = c.config
      /\ q.whole = (t.kind # "struct")
      BY DEF ItemOf, Part
<1>2. q \in Parts(obj)  BY ShardItems
<1>3. CASE t.kind = "struct"
  <2>1. ~InOnePiece(q)  BY <1>1, <1>3 DEF InOnePiece
  <2>2. SerializeShallow(t, v) = WriteLocals(t, v)  BY <1>3 DEF SerializeShallow
  <2>3. IsSequence(WriteLocals(q.type, q.value))  BY <1>1, <1>2, <1>3, <2>1, LocalsWritten
  <2>4. /\ Declared(q) = (Primitives(WriteLocals(q.type, q.value)) \X {q.config}) \cup OwedRemotes(q.type, q.value)
        /\ (Primitives(WriteLocals(q.type, q.value)) \X {q.config}) \cap OwedRemotes(q.type, q.value) = {}
        BY <1>1, <1>2, <1>3, <2>1, StructIs
  <2>. QED  BY <1>1, <2>2, <2>3, <2>4
<1>4. CASE t.kind # "struct"
  <2>1. InOnePiece(q)  BY <1>1, <1>4 DEF InOnePiece
  <2>2. SerializeShallow(t, v) = <<Whole(t, v)>> /\ OwedRemotes(t, v) = {}
        BY <1>4 DEF SerializeShallow, OwedRemotes
  <2>3. Declared(q) = Primitives(<<Whole(t, v)>>) \X {c.config}  BY <1>1, <1>2, <2>1, DeclaredIs DEF Direct
  <2>4. IsSequence(<<Whole(t, v)>>)  BY DEF IsSequence
  <2>. QED  BY <2>2, <2>3, <2>4
<1>. QED  BY <1>3, <1>4

\* What each kind of call owes.
LEMMA OwedIs ==
  ASSUME NEW c
  PROVE  /\ c.call = "visit" => Owed(c) = Declared(Visited(c))
         /\ c.call = "shard" => Owed(c) = UNION {Declared(ItemOf(c, i)) : i \in 1 .. Len(c.value)}
         /\ c.call = "visit_inlined" => Owed(c) = OwedRemotes(c.type, c.value)
<1>1. CASE c.call = "visit"  BY <1>1 DEF Owed
<1>2. ASSUME c.call = "shard"
      PROVE  Owed(c) = UNION {Declared(ItemOf(c, i)) : i \in 1 .. Len(c.value)}
  <2>1. c.call # "visit"  BY <1>2
  <2>. QED  BY <1>2, <2>1 DEF Owed
<1>3. ASSUME c.call = "visit_inlined" PROVE Owed(c) = OwedRemotes(c.type, c.value)
  <2>1. c.call # "visit" /\ c.call # "shard"  BY <1>3
  <2>. QED  BY <1>3, <2>1 DEF Owed
<1>. QED  BY <1>1, <1>2, <1>3

\* The calls for the shards of a collection owe what is declared for it.
LEMMA ShardsOwed ==
  ASSUME NEW obj \in Objects, NEW p \in Parts(obj), ~InOnePiece(p), p.type.kind \in {"vec", "map"},
         NEW n \in Nat, NEW shards, NEW at, Cut(shards, p, at)
  PROVE  LET calls == ShardCalls(p, shards, n)
         IN AllOwed(calls) = Declared(p) /\ AllApart(calls)
<1> PICK calls : calls = ShardCalls(p, shards, n)  OBVIOUS
<1>1. /\ Len(calls) = Len(shards)
      /\ \A k \in 1 .. Len(calls) :
           calls[k] = ShardCall(p.type, shards[k], n, p.config) /\ ShardOf(calls[k], p, at[k])
      BY ShardsCalled
<1>2. /\ \A k \in 1 .. Len(calls) : at[k] \in [1 .. Len(shards[k]) -> DOMAIN p.value]
      /\ \A k, l \in 1 .. Len(calls) :
           \A i \in 1 .. Len(shards[k]), j \in 1 .. Len(shards[l]) :
             at[k][i] = at[l][j] => k = l /\ i = j
      /\ \A m \in DOMAIN p.value :
           \E k \in 1 .. Len(calls) : \E i \in 1 .. Len(shards[k]) : at[k][i] = m
      BY <1>1 DEF Cut
<1>3. ASSUME NEW k \in 1 .. Len(calls)
      PROVE  \A x : x \in Owed(calls[k]) <=>
                      \E i \in 1 .. Len(shards[k]) : x \in Declared(ItemPart(p, at[k][i]))
  <2> PICK c : c = calls[k]  OBVIOUS
  <2>0. c = ShardCall(p.type, shards[k], n, p.config) /\ ShardOf(c, p, at[k])  BY <1>1
  <2>1. /\ c.call = "shard" /\ c.value = shards[k] /\ c.type = p.type /\ c.config = p.config
        /\ ShardOf(c, p, at[k])
        BY <2>0 DEF ShardCall
  <2>2. \A i \in 1 .. Len(c.value) : ItemOf(c, i) = ItemPart(p, at[k][i])
    <3>1. \A i \in 1 .. Len(c.value) : Item(c, i) = p.value[at[k][i]]  BY <2>1 DEF ShardOf
    <3>. QED  BY <2>1, <3>1 DEF ItemOf, ItemPart
  <2>3. Owed(c) = UNION {Declared(ItemOf(c, i)) : i \in 1 .. Len(c.value)}  BY <2>1, OwedIs
  <2>4. \A x : x \in Owed(c) <=> \E i \in 1 .. Len(c.value) : x \in Declared(ItemOf(c, i))
        BY <2>3
  <2>. QED  BY <2>1, <2>2, <2>4
<1>4. /\ \A x : x \in Declared(p) <=> \E i \in DOMAIN p.value : x \in Declared(ItemPart(p, i))
      /\ \A i, j \in DOMAIN p.value : \A x :
           x \in Declared(ItemPart(p, i)) /\ x \in Declared(ItemPart(p, j)) => i = j
      BY ItemsDeclared
<1>5. \A k \in 1 .. Len(calls) : \A i \in 1 .. Len(shards[k]) : at[k][i] \in DOMAIN p.value
      BY <1>2
<1>6. \A x : x \in AllOwed(calls) <=> \E k \in 1 .. Len(calls) : x \in Owed(calls[k])
      BY DEF AllOwed
<1> PICK all, declared : all = AllOwed(calls) /\ declared = Declared(p)  OBVIOUS
<1>7. ASSUME NEW x, x \in all PROVE x \in declared
  <2>1. PICK k \in 1 .. Len(calls) : x \in Owed(calls[k])  BY <1>6, <1>7
  <2>2. PICK i \in 1 .. Len(shards[k]) : x \in Declared(ItemPart(p, at[k][i]))  BY <1>3, <2>1
  <2>. QED  BY <1>4, <1>5, <2>2
<1>8. ASSUME NEW x, x \in declared PROVE x \in all
  <2>1. PICK m \in DOMAIN p.value : x \in Declared(ItemPart(p, m))  BY <1>4, <1>8
  <2>2. PICK k \in 1 .. Len(calls) : \E i \in 1 .. Len(shards[k]) : at[k][i] = m  BY <1>2
  <2>3. PICK i \in 1 .. Len(shards[k]) : at[k][i] = m  BY <2>2
  <2>4. x \in Owed(calls[k])  BY <1>3, <2>1, <2>3
  <2>. QED  BY <1>6, <2>4
<1>9. all = declared  BY <1>7, <1>8
<1>10. ASSUME NEW k \in 1 .. Len(calls), NEW l \in 1 .. Len(calls), k # l
       PROVE  Owed(calls[k]) \cap Owed(calls[l]) = {}
  <2> SUFFICES ASSUME NEW x, x \in Owed(calls[k]), x \in Owed(calls[l]) PROVE FALSE  OBVIOUS
  <2>1. PICK i \in 1 .. Len(shards[k]) : x \in Declared(ItemPart(p, at[k][i]))  BY <1>3
  <2>2. PICK j \in 1 .. Len(shards[l]) : x \in Declared(ItemPart(p, at[l][j]))  BY <1>3
  <2>3. at[k][i] = at[l][j]  BY <1>4, <1>5, <2>1, <2>2
  <2>. QED  BY <1>2, <1>10, <2>3
<1>. QED  BY <1>9, <1>10 DEF AllApart

\* Where the items' primitives are in the chunk of a shard.
Shallow(c) ==
  [i \in 1 .. Len(c.value) |-> Primitives(SerializeShallow(c.type.item, Item(c, i))) \X {c.config}]

\* What each of several parts has, in two places.
LEMMA SplitItems ==
  ASSUME NEW D, NEW O, NEW R, NEW m,
         \A i \in 1 .. m : D[i] = O[i] \cup R[i] /\ O[i] \cap R[i] = {},
         \A i, j \in 1 .. m : \A x : x \in D[i] /\ x \in D[j] => i = j
  PROVE  /\ AnyOf(O, m) \cup AnyOf(R, m) = AnyOf(D, m)
         /\ AnyOf(O, m) \cap AnyOf(R, m) = {}
         /\ \A i, j \in 1 .. m : i # j => R[i] \cap R[j] = {}
<1>1. \A i \in 1 .. m : \A x : x \in D[i] <=> x \in O[i] \/ x \in R[i]  OBVIOUS
<1>2. \A i \in 1 .. m : \A x : ~(x \in O[i] /\ x \in R[i])
  <2> TAKE i \in 1 .. m
  <2>1. O[i] \cap R[i] = {}  OBVIOUS
  <2>. QED  BY <2>1
<1>3. \A i, j \in 1 .. m : i # j => R[i] \cap R[j] = {}
  <2> SUFFICES ASSUME NEW i \in 1 .. m, NEW j \in 1 .. m, NEW x, x \in R[i], x \in R[j] PROVE i = j
      OBVIOUS
  <2>1. x \in D[i] /\ x \in D[j]  BY <1>1
  <2>. QED  BY <2>1
<1> PICK o, r, d : o = AnyOf(O, m) /\ r = AnyOf(R, m) /\ d = AnyOf(D, m)  OBVIOUS
<1>4. /\ \A x : x \in o <=> \E i \in 1 .. m : x \in O[i]
      /\ \A x : x \in r <=> \E i \in 1 .. m : x \in R[i]
      /\ \A x : x \in d <=> \E i \in 1 .. m : x \in D[i]
      BY InAnyOf
<1>5. \A x : x \in d <=> x \in o \/ x \in r  BY <1>1, <1>4
<1>6. d = o \cup r  BY <1>5
<1>7. \A x : ~(x \in o /\ x \in r)
  <2> SUFFICES ASSUME NEW x, x \in o, x \in r PROVE FALSE  OBVIOUS
  <2>1. PICK i \in 1 .. m : x \in O[i]  BY <1>4
  <2>2. PICK j \in 1 .. m : x \in R[j]  BY <1>4
  <2>3. i = j  BY <1>1, <2>1, <2>2
  <2>. QED  BY <1>2, <2>1, <2>2, <2>3
<1>8. o \cap r = {}  BY <1>7
<1>. QED  BY <1>3, <1>6, <1>8

\* The calls for the items of a shard owe what is not in its own chunk.
LEMMA ItemsOwed ==
  ASSUME NEW obj \in Objects, NEW c, CallOf(obj, c), c.call = "shard", NEW n \in Nat, NEW calls,
         calls = [i \in DOMAIN c.value |-> VisitInlined(c.type.item, Item(c, i), n)]
  PROVE  LET own == AnyOf(Shallow(c), Len(c.value))
         IN /\ own \cup AllOwed(calls) = Owed(c) /\ own \cap AllOwed(calls) = {}
            /\ AllApart(calls)
<1> PICK m : m = Len(c.value)  OBVIOUS
<1> DEFINE D == [i \in 1 .. m |-> Declared(ItemOf(c, i))]
           O == Shallow(c)
           R == [i \in 1 .. m |-> OwedRemotes(c.type.item, Item(c, i))]
<1>1. /\ DOMAIN c.value = 1 .. m
      /\ \A i, j \in 1 .. m : \A x :
           x \in Declared(ItemOf(c, i)) /\ x \in Declared(ItemOf(c, j)) => i = j
      BY ShardItems
<1>2. Len(calls) = m  BY ItemsCalled
<1>3. ASSUME NEW i \in 1 .. m PROVE D[i] = O[i] \cup R[i] /\ O[i] \cap R[i] = {}
  <2>1. /\ D[i] = Declared(ItemOf(c, i)) /\ R[i] = OwedRemotes(c.type.item, Item(c, i))
        /\ O[i] = Primitives(SerializeShallow(c.type.item, Item(c, i))) \X {c.config}
        BY DEF Shallow
  <2> HIDE DEF D, O, R
  <2>2. i \in 1 .. Len(c.value)  OBVIOUS
  <2>. QED  BY <2>1, <2>2, ShallowIs
<1>4. \A i, j \in 1 .. m : \A x : x \in D[i] /\ x \in D[j] => i = j
  <2> SUFFICES ASSUME NEW i \in 1 .. m, NEW j \in 1 .. m, NEW x, x \in D[i], x \in D[j] PROVE i = j
      OBVIOUS
  <2>1. x \in Declared(ItemOf(c, i)) /\ x \in Declared(ItemOf(c, j))  OBVIOUS
  <2>. QED  BY <1>1, <2>1
<1>5. ASSUME NEW i \in 1 .. m PROVE Owed(calls[i]) = R[i]
  <2> PICK d : d = calls[i]  OBVIOUS
  <2>1. d = VisitInlined(c.type.item, Item(c, i), n)  BY <1>1
  <2>2. d.call = "visit_inlined" /\ d.type = c.type.item /\ d.value = Item(c, i)
        BY <2>1 DEF VisitInlined
  <2>3. Owed(d) = OwedRemotes(c.type.item, Item(c, i))  BY <2>2, OwedIs
  <2>. QED  BY <2>3
<1>6. Owed(c) = AnyOf(D, m)
  <2>1. Owed(c) = UNION {Declared(ItemOf(c, i)) : i \in 1 .. m}  BY OwedIs
  <2>2. \A i \in 1 .. m : D[i] = Declared(ItemOf(c, i))  OBVIOUS
  <2> HIDE DEF D
  <2>. QED  BY <2>1, <2>2 DEF AnyOf
<1> HIDE DEF D, O, R
<1>7. /\ AnyOf(O, m) \cup AnyOf(R, m) = AnyOf(D, m)
      /\ AnyOf(O, m) \cap AnyOf(R, m) = {}
      /\ \A i, j \in 1 .. m : i # j => R[i] \cap R[j] = {}
      BY <1>3, <1>4, SplitItems
<1>8. AllOwed(calls) = AnyOf(R, m)  BY <1>2, <1>5 DEF AllOwed, AnyOf
<1>9. ASSUME NEW i \in 1 .. m, NEW j \in 1 .. m, i # j PROVE Owed(calls[i]) \cap Owed(calls[j]) = {}
  <2>1. Owed(calls[i]) = R[i] /\ Owed(calls[j]) = R[j]  BY <1>5
  <2>2. R[i] \cap R[j] = {}  BY <1>7, <1>9
  <2>. QED  BY <2>1, <2>2
<1>10. AllApart(calls)  BY <1>2, <1>9 DEF AllApart
<1>. QED  BY <1>6, <1>7, <1>8, <1>10 DEF O

\* What a node stores that has pieces only.
LEMMA StoredPieces ==
  /\ \A pieces, conf : StoredAs(Pieces(pieces), conf) = Primitives(pieces) \X {conf}
  /\ \A runs, conf : StoredAs(VecContainerJob(runs), conf) = {}
  /\ \A conf : StoredAs(PlaceholderJob, conf) = {}
<1>1. ASSUME NEW what, what.entries = <<>>, NEW conf
      PROVE  StoredAs(what, conf) = Primitives(what.pieces) \X {conf}
  <2>1. ToSet(what.entries) = {}
    <3>1. DOMAIN <<>> = {}  OBVIOUS
    <3>. QED  BY <1>1, <3>1 DEF ToSet
  <2> PICK own : own = Primitives(what.pieces)  OBVIOUS
  <2>2. StoredAs(what, conf) = (own \cup UNION {Primitives(e) : e \in {}}) \X {conf}
        BY <2>1 DEF StoredAs
  <2>3. own \cup UNION {Primitives(e) : e \in {}} = own  OBVIOUS
  <2>. QED  BY <2>2, <2>3
<1>2. Primitives(<<>>) = {}
  <2>1. \A x : x \notin Primitives(<<>>)
    <3>1. DOMAIN <<>> = {}  OBVIOUS
    <3>. QED  BY <3>1, PrimitivesAre
  <2>. QED  BY <2>1
<1>3. \A pieces : Pieces(pieces).pieces = pieces /\ Pieces(pieces).entries = <<>>  BY DEF Pieces
<1>4. \A runs : VecContainerJob(runs).pieces = <<>> /\ VecContainerJob(runs).entries = <<>>
      BY DEF VecContainerJob, Pieces
<1>5. PlaceholderJob.pieces = <<>> /\ PlaceholderJob.entries = <<>>  BY DEF PlaceholderJob, Pieces
<1>. QED  BY <1>1, <1>2, <1>3, <1>4, <1>5

\* The number of a map's shards is no primitive.
LEMMA StoredCount == ASSUME NEW m \in Nat, m < FirstId, NEW conf PROVE StoredAs(MapContainerJob(m), conf) = {}
<1>1. StoredAs(MapContainerJob(m), conf) = Primitives(<<<<m>>>>) \X {conf}
      BY StoredPieces DEF MapContainerJob
<1>2. Primitives(<<<<m>>>>) = PrimitivesOf(<<m>>)  BY PrimitivesAre
<1>3. PrimitivesOf(<<m>>) = {}  BY NoPrimitive
<1>. QED  BY <1>1, <1>2, <1>3

\* A vector's shard stores its items' (serialize_slice).
LEMMA VecShardStores ==
  ASSUME NEW obj \in Objects, NEW c, CallOf(obj, c), c.call = "shard", c.type.kind = "vec"
  PROVE  StoredAs(VecShardJob(c.type.item, c.value), c.config) = AnyOf(Shallow(c), Len(c.value))
<1> PICK m \in Nat : m = Len(c.value) /\ m < FirstId /\ DOMAIN c.value = 1 .. m  BY ShardItems
<1> DEFINE seqs == [i \in DOMAIN c.value |-> SerializeShallow(c.type.item, c.value[i])]
           len == <<<<m>>>>
<1>1. IsSequence(seqs) /\ Len(seqs) = m /\ \A i \in 1 .. m : seqs[i] = SerializeShallow(c.type.item, Item(c, i))
  <2>1. seqs = [i \in 1 .. m |-> seqs[i]]  OBVIOUS
  <2>2. \A i \in 1 .. m : seqs[i] = SerializeShallow(c.type.item, Item(c, i))  BY DEF Item
  <2> HIDE DEF seqs
  <2>. QED  BY <2>1, <2>2, FunctionIs
<1>2. VecShardJob(c.type.item, c.value) = Pieces(len \o FlattenSeq(seqs))  BY DEF VecShardJob
<1> HIDE DEF seqs
<1>3. \A i \in 1 .. m : IsSequence(seqs[i])  BY <1>1, ShallowIs
<1>4. /\ IsSequence(FlattenSeq(seqs))
      /\ \A x : x \in Primitives(FlattenSeq(seqs)) <=> \E i \in 1 .. m : x \in Primitives(seqs[i])
      BY <1>1, <1>3, FlatHolds
<1>5. IsSequence(len) /\ Primitives(len) = {}
  <2>1. IsSequence(len)  BY DEF IsSequence
  <2>2. Primitives(len) = PrimitivesOf(<<m>>)  BY PrimitivesAre
  <2>. QED  BY <2>1, <2>2, NoPrimitive
<1> HIDE DEF len
<1>6. Primitives(len \o FlattenSeq(seqs)) = Primitives(len) \cup Primitives(FlattenSeq(seqs))
      BY <1>4, <1>5, PrimitivesJoined
<1> PICK all, flat : all = StoredAs(VecShardJob(c.type.item, c.value), c.config) /\ flat = Primitives(FlattenSeq(seqs))
    OBVIOUS
<1>7. all = flat \X {c.config}  BY <1>2, <1>5, <1>6, StoredPieces
<1>8. \A i \in 1 .. m : Shallow(c)[i] = Primitives(seqs[i]) \X {c.config}  BY <1>1 DEF Shallow
<1>9. ASSUME NEW x PROVE x \in all <=> \E i \in 1 .. m : x \in Shallow(c)[i]
  <2>1. ASSUME x \in all PROVE \E i \in 1 .. m : x \in Shallow(c)[i]
    <3>1. PICK y \in flat : x = <<y, c.config>>  BY <1>7, <2>1
    <3>2. PICK i \in 1 .. m : y \in Primitives(seqs[i])  BY <1>4, <3>1
    <3>. QED  BY <1>8, <3>1, <3>2
  <2>2. ASSUME NEW i \in 1 .. m, x \in Shallow(c)[i] PROVE x \in all
    <3>1. PICK y \in Primitives(seqs[i]) : x = <<y, c.config>>  BY <1>8, <2>2
    <3>2. y \in flat  BY <1>4, <3>1
    <3>. QED  BY <1>7, <3>1, <3>2
  <2>. QED  BY <2>1, <2>2
<1> PICK any : any = AnyOf(Shallow(c), m)  OBVIOUS
<1>10. \A x : x \in any <=> \E i \in 1 .. m : x \in Shallow(c)[i]  BY InAnyOf
<1>11. all = any  BY <1>9, <1>10
<1>. QED  BY <1>11

\* And a map's, in the entries of the job its placeholder is replaced by.
LEMMA MapShardStores ==
  ASSUME NEW obj \in Objects, NEW c, CallOf(obj, c), c.call = "shard", c.type.kind = "map"
  PROVE  StoredAs(MapShardJob(c.type.item, c.value), c.config) = AnyOf(Shallow(c), Len(c.value))
<1> PICK m \in Nat : m = Len(c.value) /\ DOMAIN c.value = 1 .. m  BY ShardItems
<1> DEFINE entries == [i \in DOMAIN c.value |->
                         <<<<c.value[i][1]>>>> \o SerializeShallow(c.type.item, c.value[i][2])]
           what == MapShardJob(c.type.item, c.value)
<1>1. what.pieces = <<>> /\ what.entries = entries  BY DEF MapShardJob, Pieces
<1>2. DOMAIN entries = 1 .. m  OBVIOUS
<1>3. ASSUME NEW i \in 1 .. m
      PROVE  Primitives(entries[i]) = Primitives(SerializeShallow(c.type.item, Item(c, i)))
  <2> PICK key, shallow : key = c.value[i][1] /\ shallow = SerializeShallow(c.type.item, Item(c, i))
      OBVIOUS
  <2> DEFINE head == <<<<key>>>>
  <2>1. entries[i] = head \o shallow  BY DEF Item
  <2>2. key \in Nat /\ key < FirstId  BY ShardItems
  <2>3. IsSequence(shallow)  BY ShallowIs
  <2>4. IsSequence(head) /\ Primitives(head) = {}
    <3>1. IsSequence(head)  BY DEF IsSequence
    <3>2. Primitives(head) = PrimitivesOf(<<key>>)  BY PrimitivesAre
    <3>. QED  BY <2>2, <3>1, <3>2, NoPrimitive
  <2> HIDE DEF head, entries
  <2>5. Primitives(head \o shallow) = Primitives(head) \cup Primitives(shallow)
        BY <2>3, <2>4, PrimitivesJoined
  <2>. QED  BY <2>1, <2>4, <2>5
<1> HIDE DEF entries, what
<1>4. Primitives(what.pieces) = {}
  <2>1. DOMAIN what.pieces = {}  BY <1>1
  <2>2. \A x : x \notin Primitives(what.pieces)  BY <2>1, PrimitivesAre
  <2>. QED  BY <2>2
<1> PICK all : all = StoredAs(what, c.config)  OBVIOUS
<1> PICK some : some = UNION {Primitives(e) : e \in ToSet(entries)}  OBVIOUS
<1>5. all = some \X {c.config}
  <2>1. all = (Primitives(what.pieces) \cup some) \X {c.config}  BY <1>1 DEF StoredAs
  <2>. QED  BY <1>4, <2>1
<1>6. \A e : e \in ToSet(entries) <=> \E i \in 1 .. m : e = entries[i]  BY <1>2 DEF ToSet
<1>7. \A i \in 1 .. m : Shallow(c)[i] = Primitives(entries[i]) \X {c.config}  BY <1>3 DEF Shallow
<1>8. ASSUME NEW x PROVE x \in all <=> \E i \in 1 .. m : x \in Shallow(c)[i]
  <2>1. ASSUME x \in all PROVE \E i \in 1 .. m : x \in Shallow(c)[i]
    <3>1. PICK y \in some : x = <<y, c.config>>  BY <1>5, <2>1
    <3>2. PICK e \in ToSet(entries) : y \in Primitives(e)  BY <3>1
    <3>3. PICK i \in 1 .. m : e = entries[i]  BY <1>6
    <3>. QED  BY <1>7, <3>1, <3>2, <3>3
  <2>2. ASSUME NEW i \in 1 .. m, x \in Shallow(c)[i] PROVE x \in all
    <3>1. PICK y \in Primitives(entries[i]) : x = <<y, c.config>>  BY <1>7, <2>2
    <3>2. entries[i] \in ToSet(entries)  BY <1>6
    <3>3. y \in some  BY <3>1, <3>2
    <3>. QED  BY <1>5, <3>1, <3>3
  <2>. QED  BY <2>1, <2>2
<1> PICK any : any = AnyOf(Shallow(c), m)  OBVIOUS
<1>9. \A x : x \in any <=> \E i \in 1 .. m : x \in Shallow(c)[i]  BY InAnyOf
<1>10. all = any  BY <1>8, <1>9
<1>. QED  BY <1>10 DEF what

\* A visitor that has nothing to do after its calls.
LEMMA StoredReturning ==
  ASSUME StackInv, StoredInv, Top.calls # <<>>,
         NEW kind, NEW what, NEW conf, NEW calls, AddNode(kind, what, conf, calls, Return),
         StoredAs(what, conf) \cup AllOwed(calls) = Owed(Call),
         StoredAs(what, conf) \cap AllOwed(calls) = {}, AllApart(calls)
  PROVE  StoredInv'
<1> PICK f : f = Frame(count, calls, Return)  OBVIOUS
<1>1. f.calls = calls /\ f.after = Return /\ Return.then = "return"  BY DEF Frame, Return
<1>2. Later(f) = {}  BY <1>1 DEF Later
<1>3. OwedBy(f) = AllOwed(calls) /\ Apart(f)  BY <1>1, <1>2 DEF OwedBy, Apart
<1>. QED  BY <1>1, <1>3, StoredGrows

\* No calls owe nothing.
LEMMA NothingOwed == AllOwed(<<>>) = {} /\ AllApart(<<>>)
<1>1. 1 .. 0 = {} /\ Len(<<>>) = 0  OBVIOUS
<1>. QED  BY <1>1 DEF AllOwed, AllApart

\* The visitors of primitives and of maps in one piece store all there is.
LEMMA StoredPrimitive ==
  ASSUME StackInv, StoredInv, VisitPrimitive \/ VisitPlainMap PROVE StoredInv'
<1>1. Top.calls # <<>> /\ Call.call = "visit"  BY DEF VisitPrimitive, VisitPlainMap, Called
<1> PICK p : p = Visited(Call)  OBVIOUS
<1>2. /\ object \in Objects /\ p \in Parts(object)
      /\ p.type = Call.type /\ p.value = Call.value /\ p.config = Call.config
      BY <1>1, VisitedPart
<1>3. Owed(Call) = Declared(p)  BY <1>1, OwedIs
<1>4. \E what, conf : AddNode("final", what, conf, <<>>, Return) /\ StoredAs(what, conf) = Declared(p)
  <2>1. StoredAs(PrimitiveJob(p.type, p.value), p.config) = Direct(p)
        BY StoredPieces DEF PrimitiveJob, Direct
  <2>2. InOnePiece(p) => Declared(p) = Direct(p)  BY <1>2, DeclaredIs
  <2>3. CASE VisitPrimitive
    <3>1. Call.type.kind = "prim" /\ AddNode("final", PrimitiveJob(Call.type, Call.value), Call.config, <<>>, Return)
          BY <2>3 DEF VisitPrimitive, Called
    <3>2. InOnePiece(p)  BY <1>2, <3>1 DEF InOnePiece
    <3>. QED  BY <1>2, <2>1, <2>2, <3>1, <3>2
  <2>4. CASE VisitPlainMap /\ Call.value # <<>>
    <3>1. /\ Call.type.kind = "map" /\ ~IsMapOptimized(Call.config)
          /\ AddNode("final", PrimitiveJob(Call.type, Call.value), Call.config, <<>>, Return)
          BY <2>4 DEF VisitPlainMap, Called
    <3>2. InOnePiece(p)  BY <1>2, <2>4, <3>1 DEF InOnePiece
    <3>. QED  BY <1>2, <2>1, <2>2, <3>1, <3>2
  <2>5. CASE VisitPlainMap /\ Call.value = <<>>
    <3>1. Call.type.kind = "map" /\ AddNode("final", MapContainerJob(0), None, <<>>, Return)
          BY <2>5 DEF VisitPlainMap, Called
    <3>2. p.whole = FALSE  BY <1>1, VisitedPart
    <3>3. ~InOnePiece(p)  BY <1>2, <2>5, <3>1, <3>2 DEF InOnePiece
    <3>4. /\ DOMAIN p.value = 1 .. Len(p.value) /\ Len(p.value) < FirstId
          /\ \A x : x \in Declared(p) <=> \E i \in DOMAIN p.value : x \in Declared(ItemPart(p, i))
          BY <1>2, <3>1, <3>3, ItemsDeclared
    <3>5. DOMAIN p.value = {} /\ Len(p.value) = 0  BY <1>2, <2>5
    <3>6. Declared(p) = {}
      <4> PICK all : all = Declared(p)  OBVIOUS
      <4>1. \A x : x \notin all  BY <3>4, <3>5
      <4>. QED  BY <4>1
    <3>7. StoredAs(MapContainerJob(0), None) = {}  BY <3>4, <3>5, StoredCount
    <3>. QED  BY <3>1, <3>6, <3>7
  <2>. QED  BY <2>3, <2>4, <2>5
<1>5. PICK what, conf : AddNode("final", what, conf, <<>>, Return) /\ StoredAs(what, conf) = Declared(p)
      BY <1>4
<1>6. /\ StoredAs(what, conf) \cup AllOwed(<<>>) = Owed(Call)
      /\ StoredAs(what, conf) \cap AllOwed(<<>>) = {}
      BY <1>3, <1>5, NothingOwed
<1>. QED  BY <1>1, <1>5, <1>6, NothingOwed, StoredReturning

\* The macro's visitor of a structure stores the local fields.
LEMMA StoredStruct == ASSUME StackInv, StoredInv, VisitStruct PROVE StoredInv'
<1>1. Top.calls # <<>> /\ Call.call = "visit" /\ Call.type.kind = "struct"
      BY DEF VisitStruct, Called
<1> PICK p : p = Visited(Call)  OBVIOUS
<1>2. /\ object \in Objects /\ p \in Parts(object) /\ count \in Nat
      /\ p.type = Call.type /\ p.value = Call.value /\ p.config = Call.config /\ ~p.whole
      BY <1>1, VisitedPart
<1>3. ~InOnePiece(p)  BY <1>1, <1>2 DEF InOnePiece
<1> PICK calls, what : /\ calls = VisitRemotes(p.type, p.value, count)
                       /\ what = Pieces(WriteLocals(p.type, p.value))
    OBVIOUS
<1>4. AddNode("final", what, p.config, calls, Return)  BY <1>2 DEF VisitStruct
<1>5. AllOwed(calls) = OwedRemotes(p.type, p.value) /\ AllApart(calls)
      BY <1>1, <1>2, <1>3, RemotesOwed
<1>6. StoredAs(what, p.config) = Primitives(WriteLocals(p.type, p.value)) \X {p.config}
      BY StoredPieces
<1>7. Owed(Call) = Declared(p)  BY <1>1, OwedIs
<1>8. LET own == Primitives(WriteLocals(p.type, p.value)) \X {p.config}
          remotes == OwedRemotes(p.type, p.value)
      IN Declared(p) = own \cup remotes /\ own \cap remotes = {}
      BY <1>1, <1>2, <1>3, StructIs
<1>9. /\ StoredAs(what, p.config) \cup AllOwed(calls) = Owed(Call)
      /\ StoredAs(what, p.config) \cap AllOwed(calls) = {}
      BY <1>5, <1>6, <1>7, <1>8
<1>. QED  BY <1>1, <1>4, <1>5, <1>9, StoredReturning

\* The containers of a vector and of a map in shards store none.
LEMMA StoredContainer == ASSUME StackInv, StoredInv, VisitVec \/ VisitMap PROVE StoredInv'
<1>1. /\ Top.calls # <<>> /\ Call.call = "visit" /\ Call.type.kind \in {"vec", "map"}
      /\ Call.type.kind = "map" => IsMapOptimized(Call.config)
      BY DEF VisitVec, VisitMap, Called
<1> PICK p : p = Visited(Call)  OBVIOUS
<1>2. /\ object \in Objects /\ p \in Parts(object) /\ count \in Nat
      /\ p.type = Call.type /\ p.value = Call.value /\ p.config = Call.config /\ ~p.whole
      BY <1>1, VisitedPart
<1>3. ~InOnePiece(p)  BY <1>1, <1>2 DEF InOnePiece
<1>4. \E shards, what : /\ \E at : Cut(shards, p, at)
                        /\ StoredAs(what, p.config) = {}
                        /\ AddNode("final", what, p.config, ShardCalls(p, shards, count), Return)
  <2>1. CASE VisitVec
    <3>1. Call.type.kind = "vec"  BY <2>1 DEF VisitVec, Called
    <3> PICK slices : slices = Slices(Call.value)  OBVIOUS
    <3>2. (\E at : Cut(slices, p, at)) /\ DOMAIN slices = 1 .. Len(slices)
          BY <1>2, <1>3, <3>1, SlicesCut
    <3>3. ShardCalls(p, slices, count)
            = [k \in DOMAIN slices |-> ShardCall(Call.type, slices[k], count, Call.config)]
          BY <1>2, <3>2 DEF ShardCalls
    <3>4. \E runs : AddNode("final", VecContainerJob(runs), p.config, ShardCalls(p, slices, count), Return)
          BY <1>2, <2>1, <3>3 DEF VisitVec
    <3>. QED  BY <3>2, <3>4, StoredPieces
  <2>2. CASE VisitMap
    <3>1. Call.type.kind = "map"  BY <2>2 DEF VisitMap, Called
    <3> PICK shards : shards = Buckets(Call.value)  OBVIOUS
    <3>2. (\E at : Cut(shards, p, at)) /\ Len(shards) = NumShards(Call.value)
          BY <1>2, <1>3, <3>1, BucketsCut
    <3>3. ShardCalls(p, shards, count)
            = [b \in 1 .. NumShards(Call.value) |->
                 ShardCall(Call.type, Bucket(Call.value, b), count, Call.config)]
          BY <1>2, <3>2 DEF ShardCalls, Buckets
    <3>4. AddNode("final", MapContainerJob(NumShards(Call.value)), p.config, ShardCalls(p, shards, count), Return)
          BY <1>2, <2>2, <3>3 DEF VisitMap
    <3>5. NumShards(p.value) \in Nat /\ NumShards(p.value) < FirstId
      <4>1. IsSequence(p.value) /\ Len(p.value) \in Nat  BY <1>2, <1>3, PartsAre
      <4>2. Len(p.value) < FirstId  BY <1>1, <1>2, <1>3, ItemsDeclared
      <4>3. FirstId \in Nat  BY PrimitivesAssumption
      <4>4. NumShards(p.value) \in Nat /\ NumShards(p.value) <= Len(p.value)  BY <4>1, NumShardsIs
      <4> PICK a, b : a = NumShards(p.value) /\ b = Len(p.value)  OBVIOUS
      <4>5. a < FirstId  BY <4>1, <4>2, <4>3, <4>4
      <4>. QED  BY <4>4, <4>5
    <3>6. StoredAs(MapContainerJob(NumShards(Call.value)), p.config) = {}  BY <1>2, <3>5, StoredCount
    <3>. QED  BY <3>2, <3>4, <3>6
  <2>. QED  BY <2>1, <2>2
<1>5. PICK shards, what : /\ \E at : Cut(shards, p, at)
                          /\ StoredAs(what, p.config) = {}
                          /\ AddNode("final", what, p.config, ShardCalls(p, shards, count), Return)
      BY <1>4
<1>6. PICK at : Cut(shards, p, at)  BY <1>5
<1> PICK calls : calls = ShardCalls(p, shards, count)  OBVIOUS
<1>7. AllOwed(calls) = Declared(p) /\ AllApart(calls)
      BY <1>1, <1>2, <1>3, <1>6, ShardsOwed
<1>8. Owed(Call) = Declared(p)  BY <1>1, OwedIs
<1>9. /\ StoredAs(what, p.config) \cup AllOwed(calls) = Owed(Call)
      /\ StoredAs(what, p.config) \cap AllOwed(calls) = {}
      BY <1>5, <1>7, <1>8
<1>10. AddNode("final", what, p.config, calls, Return)  BY <1>5
<1>. QED  BY <1>1, <1>7, <1>9, <1>10, StoredReturning

\* A shard's node stores its items' own, at once or when its placeholder is replaced.
LEMMA StoredShard == ASSUME StackInv, StoredInv, AddVecShard \/ AddMapShard PROVE StoredInv'
<1>1. Top.calls # <<>> /\ Call.call = "shard"  BY DEF AddVecShard, AddMapShard, Called
<1>2. object \in Objects /\ CallOf(object, Call) /\ count \in Nat
  <2>1. count \in 0 .. N  BY DEF StackInv
  <2>. QED  BY <1>1, <2>1, TopCall, VisitAssumption
<1> PICK calls : calls = [i \in DOMAIN Call.value |-> VisitInlined(Call.type.item, Item(Call, i), count)]
    OBVIOUS
<1> PICK own : own = AnyOf(Shallow(Call), Len(Call.value))  OBVIOUS
<1>3. own \cup AllOwed(calls) = Owed(Call) /\ own \cap AllOwed(calls) = {} /\ AllApart(calls)
      BY <1>1, <1>2, ItemsOwed
<1>4. CASE AddVecShard
  <2>1. Call.type.kind = "vec"  BY <1>4 DEF AddVecShard, Called
  <2>2. \A i : Item(Call, i) = Call.value[i]  BY <2>1 DEF Item
  <2> PICK what : what = VecShardJob(Call.type.item, Call.value)  OBVIOUS
  <2>3. AddNode("final", what, Call.config, calls, Return)
        BY <1>4, <2>2 DEF AddVecShard, ShardConfig
  <2>4. StoredAs(what, Call.config) = own  BY <1>1, <1>2, <2>1, VecShardStores
  <2>. QED  BY <1>1, <1>3, <2>3, <2>4, StoredReturning
<1>5. CASE AddMapShard
  <2>1. Call.type.kind = "map"  BY <1>5 DEF AddMapShard, Called
  <2>2. \A i : Item(Call, i) = Call.value[i][2]  BY <2>1 DEF Item
  <2> PICK new : new = MapShardJob(Call.type.item, Call.value)  OBVIOUS
  <2> PICK after : after = Replace(new, Call.config)  OBVIOUS
  <2>3. AddNode("placeholder", PlaceholderJob, None, calls, after)
        BY <1>5, <2>2 DEF AddMapShard, ShardConfig
  <2>4. StoredAs(new, Call.config) = own  BY <1>1, <1>2, <2>1, MapShardStores
  <2> PICK f : f = Frame(count, calls, after)  OBVIOUS
  <2>5. f.calls = calls /\ f.after = after  BY DEF Frame
  <2>6. after.then = "replace" /\ after.job = new /\ after.config = Call.config  BY DEF Replace
  <2>7. Later(f) = own  BY <2>4, <2>5, <2>6 DEF Later
  <2>8. OwedBy(f) = own \cup AllOwed(calls)  BY <2>5, <2>7 DEF OwedBy
  <2>9. AllOwed(calls) \cap own = {}  BY <1>3
  <2>10. Apart(f)  BY <1>3, <2>5, <2>7, <2>9 DEF Apart
  <2>11. StoredAs(PlaceholderJob, None) = {}  BY StoredPieces
  <2>12. /\ StoredAs(PlaceholderJob, None) \cup OwedBy(f) = Owed(Call)
         /\ StoredAs(PlaceholderJob, None) \cap OwedBy(f) = {}
         BY <1>3, <2>8, <2>11
  <2>. QED  BY <1>1, <2>3, <2>10, <2>11, <2>12, StoredGrows
<1>. QED  BY <1>4, <1>5

\* A visit that is inlined leaves all there is to its calls.
LEMMA StoredInlining == ASSUME StackInv, StoredInv, VisitsInlined PROVE StoredInv'
<1>1. Top.calls # <<>> /\ Call.call = "visit_inlined"  BY DEF VisitsInlined
<1>2. object \in Objects /\ CallOf(object, Call) /\ count \in 0 .. N  BY <1>1, TopCall DEF StackInv
<1>3. Call.parent \in Nat
  <2>1. Len(stack) # 1  BY <1>1, TopCall
  <2>2. Call.parent \in 0 .. count - 1  BY <1>1, <2>1, TopCall
  <2>. QED  BY <1>2, <2>2, VisitAssumption
<1> PICK made :
      made = IF Call.type.kind = "struct"
               THEN VisitRemotes(Call.type, Call.value, InlinedParent(Call.parent)) ELSE <<>>
    OBVIOUS
<1>4. Owed(Call) = OwedRemotes(Call.type, Call.value)  BY <1>1, OwedIs
<1>5. CASE Call.type.kind = "struct"
  <2>1. PICK p \in Parts(object) :
          p.type = Call.type /\ p.value = Call.value /\ p.whole = (Call.type.kind # "struct")
        BY <1>1, <1>2 DEF CallOf
  <2>2. ~InOnePiece(p)  BY <1>5, <2>1 DEF InOnePiece
  <2>3. made = VisitRemotes(p.type, p.value, Call.parent)  BY <1>5, <2>1 DEF InlinedParent
  <2>4. AllOwed(made) = OwedRemotes(p.type, p.value) /\ AllApart(made)
        BY <1>2, <1>3, <1>5, <2>1, <2>2, <2>3, RemotesOwed
  <2>5. CallsOf(object, made, Call.parent)
        BY <1>2, <1>3, <1>5, <2>1, <2>2, <2>3, RemotesCalled
  <2>6. IsSequence(made)  BY <2>5 DEF CallsOf
  <2>7. AllOwed(made) = Owed(Call)  BY <1>4, <2>1, <2>4
  <2>. QED  BY <2>4, <2>6, <2>7, StoredInlined
<1>6. CASE Call.type.kind # "struct"
  <2>1. made = <<>> /\ IsSequence(made)  BY <1>6 DEF IsSequence
  <2>2. Owed(Call) = {}  BY <1>4, <1>6 DEF OwedRemotes
  <2>3. AllOwed(made) = Owed(Call) /\ AllApart(made)  BY <2>1, <2>2, NothingOwed
  <2>. QED  BY <2>1, <2>3, StoredInlined
<1>. QED  BY <1>5, <1>6

\* Every step keeps each primitive in its place.
LEMMA StoredStep == ASSUME StackInv, StoredInv, [Next]_vars PROVE StoredInv'
<1>1. CASE VisitPrimitive \/ VisitPlainMap  BY <1>1, StoredPrimitive
<1>2. CASE VisitStruct  BY <1>2, StoredStruct
<1>3. CASE VisitVec \/ VisitMap  BY <1>3, StoredContainer
<1>4. CASE AddVecShard \/ AddMapShard  BY <1>4, StoredShard
<1>5. CASE VisitsInlined  BY <1>5, StoredInlining
<1>6. CASE Returns \/ ReplaceJob  BY <1>6, StoredReturns
<1>7. CASE HandedOver \/ UNCHANGED vars
  <2>1. UNCHANGED vars  BY <1>7 DEF HandedOver
  <2>2. UNCHANGED <<object, stack, count, payload, config>>  BY <2>1 DEF vars, graph, contents
  <2>3. StoredIn' = StoredIn /\ OwedIn' = OwedIn  BY <2>2 DEF StoredIn, OwedIn
  <2>. QED  BY <2>2, <2>3 DEF StoredInv
<1>. QED  BY <1>1, <1>2, <1>3, <1>4, <1>5, <1>6, <1>7 DEF Next

\* write itself does nothing after its call.
WriteReturns == stack[1].after = Return

\* No visit changes that.
LEMMA WriteStep == ASSUME StackInv, WriteReturns, [Next]_vars PROVE WriteReturns'
<1> PICK n : n = Len(stack)  OBVIOUS
<1>1. n \in Nat /\ n > 0 /\ IsSequence(stack)  BY InSeq DEF StackInv
<1>2. CASE VisitPrimitive \/ VisitPlainMap \/ VisitStruct \/ VisitVec \/ VisitMap \/ AddVecShard \/ AddMapShard
  <2>1. Top.calls # <<>>
        BY <1>2 DEF VisitPrimitive, VisitPlainMap, VisitStruct, VisitVec, VisitMap, AddVecShard, AddMapShard, Called
  <2>2. \E kind, what, conf, calls, after : AddNode(kind, what, conf, calls, after)
        BY <1>2 DEF VisitPrimitive, VisitPlainMap, VisitStruct, VisitVec, VisitMap, AddVecShard, AddMapShard
  <2>3. PICK frame : Appended(stack', Inlined(<<>>), frame)  BY <2>2 DEF AddNode, Appended
  <2>4. /\ \A k \in 1 .. n - 1 : stack'[k] = stack[k]
        /\ stack'[n] = Rest
        BY <2>1, <2>3, StackGrows
  <2>5. CASE n = 1
    <3>1. Rest.after = stack[1].after  BY <2>5 DEF Rest, Frame, Top
    <3>. QED  BY <2>4, <2>5, <3>1 DEF WriteReturns
  <2>6. CASE n # 1
    <3>1. 1 \in 1 .. n - 1  BY <1>1, <2>6
    <3>. QED  BY <2>4, <3>1 DEF WriteReturns
  <2>. QED  BY <2>5, <2>6
<1>3. CASE VisitsInlined
  <2>1. \E f : Updated(stack', stack, n, f) /\ f.after = Top.after
    <3>1. PICK calls : stack' = [stack EXCEPT ![n] = Frame(Top.node, calls, Top.after)]
          BY <1>3 DEF VisitsInlined, Inlined
    <3> PICK f : f = Frame(Top.node, calls, Top.after)  OBVIOUS
    <3>2. f.after = Top.after  BY DEF Frame
    <3>3. Updated(stack', stack, n, f)  BY <3>1 DEF Updated
    <3>. QED  BY <3>2, <3>3
  <2>2. PICK f : Updated(stack', stack, n, f) /\ f.after = Top.after  BY <2>1
  <2> PICK new, old : new = stack' /\ old = stack  OBVIOUS
  <2>3. Updated(new, old, n, f) /\ IsSequence(old) /\ n \in 1 .. Len(old) /\ 1 \in 1 .. Len(old)
        BY <1>1, <2>2
  <2>4. \A k \in 1 .. Len(old) : new[k] = IF k = n THEN f ELSE old[k]  BY <2>3, UpdateIs
  <2>5. new[1] = IF 1 = n THEN f ELSE old[1]  BY <2>3, <2>4
  <2>6. f.after = old[n].after  BY <2>2 DEF Top
  <2>7. new[1].after = old[1].after  BY <2>5, <2>6
  <2>. QED  BY <2>7 DEF WriteReturns
<1>4. CASE Returns \/ ReplaceJob
  <2>1. n > 1 /\ stack' = Front(stack)  BY <1>4 DEF Returns, ReplaceJob, Finished
  <2>2. stack # <<>>  BY <2>1
  <2>3. 1 \in 1 .. n - 1  BY <1>1, <2>1
  <2>4. Front(stack)[1] = stack[1]  BY <1>1, <2>2, <2>3, FrontIs
  <2>. QED  BY <2>1, <2>4 DEF WriteReturns
<1>5. CASE HandedOver \/ UNCHANGED vars  BY <1>5 DEF HandedOver, vars, WriteReturns
<1>. QED  BY <1>2, <1>3, <1>4, <1>5 DEF Next

\* When the visits are over nothing is owed, so all is stored.
LEMMA AllStored == ASSUME StackInv, StoredInv, WriteReturns PROVE CompressedAsDeclared
<1> SUFFICES ASSUME Built
             PROVE  /\ UNION {Stored(n) : n \in DOMAIN payload} = Declared(RootPart(object))
                    /\ \A m, n \in DOMAIN payload : m # n => Stored(m) \cap Stored(n) = {}
    BY DEF CompressedAsDeclared
<1> PICK W : W = Declared(RootPart(object))  OBVIOUS
<1>1. Len(stack) = 1 /\ Top = stack[1] /\ stack[1].calls = <<>>  BY DEF Built, Top
<1>2. /\ DOMAIN payload = 1 .. count
      /\ AnyOf(StoredIn, count) \cup AnyOf(OwedIn, 1) = W
      /\ \A m, n \in 1 .. count : m # n => StoredIn[m] \cap StoredIn[n] = {}
      BY <1>1, InSeq DEF StoredInv, Divided
<1>3. OwedIn[1] = {}
  <2>1. Later(stack[1]) = {}  BY DEF WriteReturns, Later, Return
  <2>2. OwedBy(stack[1]) = {}  BY <1>1, <2>1, NothingOwed DEF OwedBy
  <2>3. 1 \in 1 .. Len(stack)  BY <1>1
  <2>. QED  BY <2>2, <2>3 DEF OwedIn
<1>4. AnyOf(OwedIn, 1) = {}
  <2>1. 1 .. 1 = {1}  OBVIOUS
  <2>. QED  BY <1>3, <2>1 DEF AnyOf
<1>5. \A n \in 1 .. count : StoredIn[n] = Stored(n)
      BY DEF StoredIn, StoredAt, StoredAs, Stored
<1>6. AnyOf(StoredIn, count) = UNION {Stored(n) : n \in DOMAIN payload}
      BY <1>2, <1>5 DEF AnyOf
<1>7. UNION {Stored(n) : n \in DOMAIN payload} = W  BY <1>2, <1>4, <1>6
<1>8. \A m, n \in DOMAIN payload : m # n => Stored(m) \cap Stored(n) = {}
      BY <1>2, <1>5
<1>. QED  BY <1>7, <1>8

\* The attributes of a field reach its bytes, whatever the object: when the visits are
\* over every primitive is stored, in one chunk only and with the configuration of the
\* field it belongs to, through shards, inlined items and structures in structures.
THEOREM VisitorsCompressAsDeclared == Spec => []CompressedAsDeclared
<1>1. Init => StackInv /\ StoredInv /\ WriteReturns
  <2>1. Init => WriteReturns
    <3> SUFFICES ASSUME Init PROVE WriteReturns  OBVIOUS
    <3>1. \E calls : stack = <<Frame(None, calls, Return)>>  BY DEF Init
    <3>. QED  BY <3>1 DEF WriteReturns, Frame
  <2>. QED  BY <2>1, StackStarts, StoredStarts
<1>2. StackInv /\ StoredInv /\ WriteReturns /\ [Next]_vars
        => StackInv' /\ StoredInv' /\ WriteReturns'
      BY VisitStep, StoredStep, WriteStep
<1>3. StackInv /\ StoredInv /\ WriteReturns => CompressedAsDeclared  BY AllStored
<1>. QED  BY <1>1, <1>2, <1>3, PTL DEF Spec
=============================================================================
