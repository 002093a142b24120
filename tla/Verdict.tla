------------------------------- MODULE Verdict -------------------------------
(***************************************************************************)
(* What check_operations and check_events promise their caller.  Until the *)
(* timer has fired the only answer is the truth.  Afterwards a history     *)
(* that is not linearizable may still be found out, but one that is        *)
(* linearizable is no longer confirmed.  A check that panics never         *)
(* answers.  Checker implements this, and S2Checker is built on it.        *)
(***************************************************************************)
VARIABLES
  linearizable,   \* whether the history is
  timeout,        \* whether a timeout was given
  timed_out,      \* whether it has struck
  result          \* the CheckResult, or "unset"

vars == <<linearizable, timeout, timed_out, result>>

Truth == IF linearizable THEN "Ok" ELSE "Illegal"

Answers ==
  IF ~timed_out THEN {Truth}
  ELSE IF linearizable THEN {"Unknown"}
  ELSE {"Illegal", "Unknown"}

Init ==
  /\ linearizable \in BOOLEAN
  /\ timeout \in BOOLEAN
  /\ timed_out = FALSE
  /\ result = "unset"

TimeOut ==
  /\ result = "unset"
  /\ timeout /\ ~timed_out
  /\ timed_out' = TRUE
  /\ UNCHANGED <<linearizable, timeout, result>>

Answer ==
  /\ result = "unset"
  /\ result' \in Answers
  /\ UNCHANGED <<linearizable, timeout, timed_out>>

Next == TimeOut \/ Answer

Spec == Init /\ [][Next]_vars
=============================================================================
