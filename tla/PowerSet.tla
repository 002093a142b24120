------------------------------ MODULE PowerSet ------------------------------
(***************************************************************************)
(* PowerSetModel and HashedPowerSetModel of src/model.rs: a model made     *)
(* from a NondeterministicModel nd, whose state is the sequence of the     *)
(* states nd may be in.                                                    *)
(*                                                                         *)
(* nd.init is a sequence of states; nd.step[<<s, l>>] is the sequence of   *)
(* the successors of s under l, an input and the output recorded for it.   *)
(***************************************************************************)
EXTENDS Naturals, Sequences, SequencesExt

CONSTANT NoPower   \* the None of PowerSetModel::step

(* mutant: a state is only compared with the one before it *)
deduplicate_neighbours(states) ==
  FoldLeft(LAMBDA out, s : IF out # <<>> /\ Last(out) = s THEN out ELSE Append(out, s),
           <<>>, states)

(* mutant: one state stands for all *)
deduplicate_to_first(states) == SubSeq(states, 1, IF states = <<>> THEN 0 ELSE 1)

(* The first occurrence of each state stays. *)
deduplicate(states) ==
  LET out[n \in 0..Len(states)] ==
        IF n = 0 THEN <<>>
        ELSE LET before == out[n - 1] IN
             IF Contains(before, states[n]) THEN before ELSE Append(before, states[n])
  IN  out[Len(states)]

(* mutant: the last occurrence of each state stays *)
deduplicate_hashed_last(states) == Reverse(deduplicate(Reverse(states)))

(* The same through a hash set of the states seen. *)
deduplicate_hashed(states) ==
  LET acc[n \in 0..Len(states)] ==
        IF n = 0 THEN [seen |-> {}, out |-> <<>>]
        ELSE LET before == acc[n - 1] IN
             IF states[n] \in before.seen THEN before
             ELSE [seen |-> before.seen \cup {states[n]}, out |-> Append(before.out, states[n])]
  IN  acc[Len(states)].out

Successors(nd, states, l) == FlattenSeq([k \in DOMAIN states |-> nd.step[<<states[k], l>>]])

OrNone(states) == IF states = <<>> THEN NoPower ELSE states

PowerInit(nd)            == deduplicate(nd.init)
PowerStep(nd, states, l) == OrNone(deduplicate(Successors(nd, states, l)))

HashedInit(nd)            == deduplicate_hashed(nd.init)
HashedStep(nd, states, l) == OrNone(deduplicate_hashed(Successors(nd, states, l)))
=============================================================================
