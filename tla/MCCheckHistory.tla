--------------------------- MODULE MCCheckHistory ---------------------------
(* CheckHistory with two families of inputs: histories of writes,          *)
(* malformed ones included, with every way to partition them, wrong ones   *)
(* included; and key-value histories partitioned by key.  (A history of    *)
(* writes is linearizable, and so is any part of it.)                      *)
EXTENDS CheckHistory, KvModel

CONSTANTS
  MaxTime,   \* operations are called and return at 0..MaxTime
  KvOps      \* the most operations of a key-value history

Write(k, v) == [input |-> [key |-> k, is_write |-> TRUE, value |-> v], output |-> 0]
Read(k, v)  == [input |-> [key |-> k, is_write |-> FALSE, value |-> 0], output |-> v]

Times     == (0..MaxTime) \X (0..MaxTime)
GoodTimes == { t \in Times : t[1] <= t[2] }

At(op, t) == [input |-> op.input, output |-> op.output, call |-> t[1], return_time |-> t[2]]

(***************************************************************************)
(* Any history, any partition: writes that differ by their key or value.   *)
(***************************************************************************)
AKey    == CHOOSE k \in Keys : TRUE
LastKey == CHOOSE k \in Keys : Cardinality(Keys) = 1 \/ k # AKey

NthWrite == << Write(AKey, 0), Write(AKey, 1), Write(LastKey, 0) >>

Numbered(times) == [i \in DOMAIN times |-> At(NthWrite[i], times[i])]

AnyOpHistories == { Numbered(times) : times \in UNION { [1..n -> Times] : n \in 0..3 } }

(* Events with ids that are neither dense nor ordered, in every order that *)
(* has at most one call and one return of each, with or without a value.   *)
EventFor(i, kind, op) ==
  [id |-> i, kind |-> kind, input  |-> IF kind = "call" THEN op.input ELSE NoValue,
                            output |-> IF kind = "return" THEN op.output ELSE NoValue]

AnyEvent(i, kind) == EventFor(7 - i, kind, NthWrite[i])

AnyEventHistories ==
  LET orders == UNION { SetToSeqs(S) : S \in SUBSET ((1..2) \X {"call", "return"}) }
      valued == { [p \in DOMAIN s |-> AnyEvent(s[p][1], s[p][2])] : s \in orders }
  IN  valued
      \cup { Append(h, AnyEvent(1, "call")) : h \in { g \in valued : Len(g) = 2 } }
      \cup { [h EXCEPT ![1].input = NoValue, ![1].output = NoValue] : h \in { g \in valued : Len(g) = 2 } }

IndexSeqs(n, max) == UNION { [1..k -> 1..n] : k \in 0..max }

(* Two parts of up to two positions, in bounds or one beyond. *)
AnyPartition(h) ==
  IF Len(h) = 3 THEN { <<<<3, 1>>, <<2>>>>, <<<<2>>, <<>>, <<3, 1>>>>, <<<<1, 2>>, <<2>>>> }
  ELSE { <<a, b>> : a, b \in IndexSeqs(Len(h) + 1, 2) }

Ascending(s) == \A j, k \in DOMAIN s : j < k => s[j] < s[k]

(* The parts in which each position is in one of two parts, and what is    *)
(* left of them when the first position, or the second part, is dropped.   *)
AscendingPartition(h) ==
  LET split(f) == << SelectSeq(AllOf(h), LAMBDA p : f[p] = 1),
                     SelectSeq(AllOf(h), LAMBDA p : f[p] = 2) >>
      splits   == { split(f) : f \in [DOMAIN h -> 1..2] }
  IN  splits \cup { <<s[1]>> : s \in splits } \cup { s \o s : s \in splits }

ReversedPartition(h) ==
  { [k \in DOMAIN s |-> Reverse(s[k])] : s \in AscendingPartition(h) }

(***************************************************************************)
(* Well-formed key-value histories.  The first operation is on AKey, the   *)
(* keys being interchangeable, and slices of three operations are in the   *)
(* order of their calls.                                                   *)
(***************************************************************************)
KvOperations == { Write(k, v) : k \in Keys, v \in 1..MaxValue }
                \cup { Read(k, v) : k \in Keys, v \in 0..MaxValue }

KvOpSeqs ==
  [n \in 0..KvOps |-> { ops \in [1..n -> KvOperations] : n > 0 => ops[1].input.key = AKey }]

KvTimes ==
  [n \in 0..KvOps |->
     { t \in [1..n -> GoodTimes] : n > 2 => \A i \in 1..(n - 1) : t[i][1] <= t[i + 1][1] }]

KvHistories ==
  UNION { { [i \in 1..n |-> At(ops[i], t[i])] : ops \in KvOpSeqs[n], t \in KvTimes[n] } :
            n \in 0..KvOps }

(* The orders of KvOps calls and returns: the first time an operation is   *)
(* named it is called, the second time it returns.                         *)
KvEventOrders ==
  { f \in [1..(2 * KvOps) -> 1..KvOps] :
      \A i \in 1..KvOps : Cardinality({ p \in DOMAIN f : f[p] = i }) = 2 }

KvEventHistories ==
  { [p \in DOMAIN f |-> EventFor(f[p], IF \E q \in 1..(p - 1) : f[q] = f[p] THEN "return" ELSE "call",
                              ops[f[p]])] :
      f \in KvEventOrders, ops \in KvOpSeqs[KvOps] }

(***************************************************************************)
(* Both families together.                                                 *)
(***************************************************************************)
MCOpHistories    == AnyOpHistories \cup KvHistories
MCEventHistories == AnyEventHistories \cup KvEventHistories

MCPartition(h) == IF h \in AnyOpHistories THEN AnyPartition(h) ELSE KvPartition(h)

MCPartitionEvents(h) ==
  IF h \in AnyEventHistories THEN AscendingPartition(h) ELSE KvPartitionEvents(h)
=============================================================================
