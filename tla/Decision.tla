------------------------------ MODULE Decision ------------------------------
(***************************************************************************)
(* What check_single promises to check_parallel: the right verdict, given  *)
(* in an iteration that found the kill flag clear, or false, given in one  *)
(* that found it set.  CheckSingle implements this, Checker builds on it.  *)
(***************************************************************************)
VARIABLES
  empty,          \* whether the entry list is empty
  linearizable,   \* whether it has a linearization
  kill,           \* the kill flag, as the searching thread sees it
  returned        \* "no" while searching, else the value returned

vars == <<empty, linearizable, kill, returned>>

Init ==
  /\ empty \in BOOLEAN
  /\ linearizable \in BOOLEAN
  /\ empty => linearizable
  /\ kill \in BOOLEAN
  /\ returned = "no"

Return(v) ==
  /\ returned = "no"
  /\ returned' = v
  /\ UNCHANGED <<empty, linearizable, kill>>

Decide == (empty \/ ~kill) /\ Return(IF linearizable THEN "true" ELSE "false")

Abandon == ~empty /\ kill /\ Return("false")

SetKill ==
  /\ ~kill
  /\ kill' = TRUE
  /\ UNCHANGED <<empty, linearizable, returned>>

Next == Decide \/ Abandon \/ SetKill

Spec == Init /\ [][Next]_vars

FairSpec == Spec /\ WF_vars(Decide \/ Abandon)
=============================================================================
