--------------------------- MODULE RegisterModel ---------------------------
(***************************************************************************)
(* The register model `Reg` of the unit tests of src/checker.rs, over the  *)
(* values 0..MaxValue, and all the histories of its operations.            *)
(***************************************************************************)
EXTENDS Naturals, Sequences, FiniteSets

CONSTANT MaxValue

RegState  == 0..MaxValue
RegInput  == [is_write : BOOLEAN, value : 0..MaxValue]
RegOutput == 0..MaxValue
RegInit   == 0
NoState   == MaxValue + 1   \* step refused

RegStep(s, input, output) ==
  IF input.is_write THEN input.value
  ELSE IF output = s THEN s
  ELSE NoState

Write(v) == [input |-> [is_write |-> TRUE, value |-> v], output |-> 0]
Read(v)  == [input |-> [is_write |-> FALSE, value |-> 0], output |-> v]

(* The orders in which n operations, numbered as they are called (as       *)
(* `renumber` numbers the events of a history), can be called and return.  *)
(* Each is a sequence of operation numbers: the first occurrence of a      *)
(* number is its call, the second its return.                              *)
Occurrences(f, i) == { p \in DOMAIN f : f[p] = i }

Extensions(f, n) ==
  LET called == { f[p] : p \in DOMAIN f }
      open   == { i \in called : Cardinality(Occurrences(f, i)) = 1 }
  IN  { Append(f, i) : i \in open \cup (0..(n - 1) \cap {Cardinality(called)}) }

CallOrdered(n) ==
  LET prefixes[k \in 0..(2 * n)] ==
        IF k = 0 THEN {<<>>}
        ELSE UNION { Extensions(f, n) : f \in prefixes[k - 1] }
  IN  prefixes[2 * n]

FirstAt(f, i) == CHOOSE p \in Occurrences(f, i) : \A q \in Occurrences(f, i) : p <= q

(* The entry list of such an order f of the operations op[0], op[1], ... *)
EntryList(f, op) ==
  [p \in DOMAIN f |->
     IF p = FirstAt(f, f[p])
     THEN [id |-> f[p], kind |-> "call",   value |-> op[f[p]].input]
     ELSE [id |-> f[p], kind |-> "return", value |-> op[f[p]].output]]

EntryLists(shapes, n, operations) ==
  { EntryList(f, op) : f \in shapes, op \in [0..(n - 1) -> operations] }
=============================================================================
