------------------------------ MODULE KvModel ------------------------------
(***************************************************************************)
(* The key-value model `KvModel` of tests/common/mod.rs, which partitions  *)
(* histories by key, and `KvEventPartitionModel`, which does so for        *)
(* events.  A key absent from the map reads as 0.                          *)
(***************************************************************************)
EXTENDS Naturals, Sequences, SequencesExt

CONSTANTS
  Keys,
  MaxValue,
  KvNone   \* step refused

KvState  == [Keys -> 0..MaxValue]
KvInput  == [key : Keys, is_write : BOOLEAN, value : 0..MaxValue]
KvOutput == 0..MaxValue
KvInit   == [k \in Keys |-> 0]

KvStep(s, input, output) ==
  IF input.is_write THEN [s EXCEPT ![input.key] = input.value]
  ELSE IF output = s[input.key] THEN s
  ELSE KvNone

(* The positions of a key, as they are pushed: in ascending order. *)
IndicesOf(keys, k) ==
  LET mine == { p \in DOMAIN keys : keys[p] = k } IN
  [n \in 1..Cardinality(mine) |->
     CHOOSE p \in mine : Cardinality({ q \in mine : q < p }) = n - 1]

(* A part per key, in whatever order the hash map yields them. *)
ByKey(keys) ==
  { [n \in DOMAIN order |-> IndicesOf(keys, order[n])] : order \in SetToSeqs(Range(keys)) }

KvPartition(history) == ByKey([p \in DOMAIN history |-> history[p].input.key])

(* The key of an event is in the call of its operation. *)
KvPartitionEvents(history) ==
  LET call(i) == CHOOSE p \in DOMAIN history : history[p].id = i /\ history[p].kind = "call"
  IN  ByKey([p \in DOMAIN history |-> history[call(history[p].id)].input.key])
=============================================================================
