---------------------------- MODULE S2StreamModel ----------------------------
(***************************************************************************)
(* The nondeterministic model of an S2 stream of examples/s2_checker.rs    *)
(* (and tests/s2_model.rs), in a debug build, where an addition that       *)
(* overflows panics.                                                       *)
(***************************************************************************)
EXTENDS PowerSet

CONSTANTS
  None,     \* no fencing token, no sequence number to match
  Tokens,   \* the fencing tokens
  U32       \* 2^32

S2StreamState == [tail : 0..(U32 - 1), xxh3 : Nat, fencing_token : Tokens \cup {None}]

(* What clients ask and are answered; S2Input and S2Output. *)
AppendOf(num_records, set_fencing_token, fencing_token, match_seq_num) ==
  [op |-> "Append", num_records |-> num_records, xxh3 |-> 0,
   set_fencing_token |-> set_fencing_token, fencing_token |-> fencing_token,
   match_seq_num |-> match_seq_num]
Read      == [op |-> "Read"]
CheckTail == [op |-> "CheckTail"]

AppendSuccess(tail)     == [is |-> "AppendSuccess", tail |-> tail]
AppendDefiniteFailure   == [is |-> "AppendDefiniteFailure"]
AppendIndefiniteFailure == [is |-> "AppendIndefiniteFailure"]
ReadSuccess(tail, xxh3) == [is |-> "ReadSuccess", tail |-> tail, xxh3 |-> xxh3]
ReadFailure             == [is |-> "ReadFailure"]
CheckTailSuccess(tail)  == [is |-> "CheckTailSuccess", tail |-> tail]
CheckTailFailure        == [is |-> "CheckTailFailure"]

S2Input ==
  [op : {"Append"}, num_records : 0..(U32 - 1), xxh3 : Nat,
   set_fencing_token : Tokens \cup {None}, fencing_token : Tokens \cup {None},
   match_seq_num : 0..(U32 - 1) \cup {None}]
  \cup {Read, CheckTail}

(* The tails, and an xxh3, are numbers of 64 bits in the file.             *)
S2Output ==
  [is : {"AppendDefiniteFailure", "AppendIndefiniteFailure", "ReadFailure", "CheckTailFailure"}]
  \cup [is : {"AppendSuccess", "CheckTailSuccess"}, tail : Nat]
  \cup [is : {"ReadSuccess"}, tail : Nat, xxh3 : Nat]

S2Init == <<[tail |-> 0, xxh3 |-> 0, fencing_token |-> None]>>

(* The state after an append that has become durable. *)
Optimistic(s, input) ==
  [tail          |-> s.tail + input.num_records,
   xxh3          |-> input.xxh3,
   fencing_token |-> IF input.set_fencing_token # None THEN input.set_fencing_token
                     ELSE s.fencing_token]

(* It is computed for every append, whatever the output. *)
Overflows(s, input) == input.op = "Append" /\ s.tail + input.num_records >= U32

MatchesTail(s, input) == input.match_seq_num \in {None, s.tail}

MayHaveAppendedUnmatched(s, input) ==                     \* mutant
  \/ None \in {input.fencing_token, s.fencing_token}
  \/ input.fencing_token = s.fencing_token

(* An indefinite failure is fenced off only by a token the stream has. *)
MayHaveAppended(s, input) ==
  /\ MatchesTail(s, input)
  /\ \/ None \in {input.fencing_token, s.fencing_token}
     \/ input.fencing_token = s.fencing_token

HasAppended(s, input) ==
  MatchesTail(s, input) /\ input.fencing_token \in {None, s.fencing_token}

AppendStepDurable(s, input, output) ==                    \* mutant
  IF output = AppendDefiniteFailure THEN <<s>>
  ELSE IF output = AppendIndefiniteFailure
  THEN IF MayHaveAppended(s, input) THEN <<Optimistic(s, input)>> ELSE <<s>>
  ELSE IF /\ HasAppended(s, input)
          /\ output = AppendSuccess(Optimistic(s, input).tail)
  THEN <<Optimistic(s, input)>>
  ELSE <<>>

AppendStep(s, input, output) ==
  IF output = AppendDefiniteFailure THEN <<s>>
  ELSE IF output = AppendIndefiniteFailure
  THEN IF MayHaveAppended(s, input) THEN <<Optimistic(s, input), s>> ELSE <<s>>
  ELSE IF /\ HasAppended(s, input)
          /\ output = AppendSuccess(Optimistic(s, input).tail)
  THEN <<Optimistic(s, input)>>
  ELSE <<>>

Kept(s, allowed, output) == IF output \in allowed THEN <<s>> ELSE <<>>

S2Step(s, input, output) ==
  IF input.op = "Append" THEN AppendStep(s, input, output)
  ELSE IF input.op = "Read"
  THEN Kept(s, {ReadSuccess(s.tail, s.xxh3), ReadFailure}, output)
  ELSE Kept(s, {CheckTailSuccess(s.tail), CheckTailFailure}, output)

(* The model on the given inputs with their outputs, for PowerSetModel. *)
S2Model(labels) ==
  [init |-> S2Init,
   step |-> [x \in S2StreamState \X labels |-> S2Step(x[1], x[2][1], x[2][2])]]
=============================================================================
