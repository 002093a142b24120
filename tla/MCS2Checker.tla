---------------------------- MODULE MCS2Checker ----------------------------
(* S2Checker with appends that install a token, replace it, name it, match *)
(* the tail, and go past the end of the tail's range.                      *)
EXTENDS S2Checker, TLC

CONSTANTS A, B, c1, c2

TwoTokens  == {A, B}
TwoClients == {c1, c2}
Symmetry   == Permutations(TwoClients)

MCRequests ==
  { AppendOf(1, None, None, None), AppendOf(1, A, None, None), AppendOf(1, B, A, None),
    AppendOf(1, None, A, None), AppendOf(2, None, None, 1), Read, CheckTail }

MCReplies(input) ==
  CASE input.op = "Append" ->
         { AppendSuccess(t) : t \in 1..(MaxOps + 1) }
         \cup {AppendDefiniteFailure, AppendIndefiniteFailure}
    [] input.op = "Read" ->
         { ReadSuccess(t, h) : t \in 1..MaxOps, h \in 1..MaxOps }
         \cup {ReadSuccess(0, 0), ReadFailure}
    [] input.op = "CheckTail" ->
         { CheckTailSuccess(t) : t \in 0..MaxOps } \cup {CheckTailFailure}
=============================================================================
