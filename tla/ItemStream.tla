------------------------------ MODULE ItemStream ------------------------------
(***************************************************************************)
(* What an iterator over a saved vector promises its caller: the items one *)
(* after another from the first to the last, then the end.  Where the file *)
(* cannot be read it returns an error.  After that an iterator that does    *)
(* not resume returns no item any more; one that does may have lost items,  *)
(* or hand one out broken, but repeats and reorders none.                  *)
(***************************************************************************)
EXTENDS Naturals

CONSTANT Resumes     \* whether it goes on after an error

VARIABLES total,       \* items the container says it has
          passed,      \* items handed out or given up
          failed,      \* an error was returned
          answer       \* what the latest call of next() returned

vars == <<total, passed, failed, answer>>

Item(i) == [how |-> "item", place |-> i]
Broken(i) == [how |-> "mixed", place |-> i]
Error == [how |-> "error"]
End == [how |-> "end"]
NotCalled == [how |-> "not called"]

Init == total \in Nat /\ passed = 0 /\ failed = FALSE /\ answer = NotCalled

Deliver ==
  /\ passed < total /\ (failed => Resumes)
  /\ answer' \in {Item(passed)} \cup (IF failed THEN {Broken(passed)} ELSE {})
  /\ passed' = passed + 1
  /\ UNCHANGED <<total, failed>>

Fail ==
  /\ passed < total
  /\ answer' = Error
  /\ failed' = TRUE
  /\ passed' \in (IF Resumes THEN passed .. total ELSE {passed})
  /\ UNCHANGED total

Finish == passed = total /\ answer' = End /\ UNCHANGED <<total, passed, failed>>

Next == Deliver \/ Fail \/ Finish

Spec == Init /\ [][Next]_vars
=============================================================================
