---------------------------- MODULE BottomUpWrite ----------------------------
(***************************************************************************)
(* What execute_graph promises, whichever executor the build selects: the  *)
(* chunks of the tree are emitted once each, none before its children,     *)
(* each naming exactly its children in link order, and the caller is told  *)
(* "ok" only when the whole tree has been emitted.  Nothing is emitted     *)
(* after the caller has its answer.                                        *)
(***************************************************************************)
EXTENDS ChunkTree, Sequences

VARIABLES document,   \* emitted chunk -> the chunks its footer leads to
          outcome     \* what the caller has been told

vars == <<parent, document, outcome>>

Init == /\ parent \in Trees
        /\ document = [n \in {} |-> <<>>]
        /\ outcome = "none"

Emit(n) ==
  /\ outcome = "none"
  /\ n \notin DOMAIN document
  /\ Children(n) \subseteq DOMAIN document
  /\ document' = [m \in DOMAIN document \cup {n} |->
                    IF m = n THEN ChildSeq(n) ELSE document[m]]
  /\ UNCHANGED <<parent, outcome>>

Succeed == /\ outcome = "none"
           /\ DOMAIN document = ChunkId
           /\ outcome' = "ok"
           /\ UNCHANGED <<parent, document>>

Fail == /\ outcome = "none"
        /\ outcome' \in {"err", "panic"}
        /\ UNCHANGED <<parent, document>>

Next == Succeed \/ Fail \/ \E n \in ChunkId : Emit(n)

Spec == Init /\ [][Next]_vars
=============================================================================
