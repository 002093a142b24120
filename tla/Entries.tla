------------------------------ MODULE Entries ------------------------------
(***************************************************************************)
(* From histories to entry lists: make_entries, make_entries_from_indices, *)
(* renumber, convert_entries and convert_entries_from_indices of           *)
(* src/checker.rs, and the debug assertions of src/invariants.rs that      *)
(* check their inputs.                                                     *)
(*                                                                         *)
(* A history is a sequence of operations [input, output, call,             *)
(* return_time] or of events [id, kind, input, output], whose input and    *)
(* output may be NoValue (None).  Positions in a history count from 1; ids *)
(* and times from 0.                                                       *)
(***************************************************************************)
EXTENDS Naturals, Sequences, SequencesExt

CONSTANT NoValue

(***************************************************************************)
(* Entries of operations.                                                  *)
(***************************************************************************)

CallEntry(i, op)   == [id |-> i, time |-> op.call, kind |-> "call", value |-> op.input]
ReturnEntry(i, op) == [id |-> i, time |-> op.return_time, kind |-> "return", value |-> op.output]

(* The entries in the order in which they are pushed. *)
Pushed(history, indices) ==
  [p \in 1..(2 * Len(indices)) |->
     LET k == (p + 1) \div 2 IN
     IF p % 2 = 1 THEN CallEntry(k - 1, history[indices[k]])
     ELSE ReturnEntry(k - 1, history[indices[k]])]

(* mutant: returns before calls at equal times *)
ReturnsFirst(a, b) ==
  \/ a.time < b.time
  \/ a.time = b.time /\ a.kind = "return" /\ b.kind = "call"

(* Less: by time, calls before returns at equal times. *)
ByTime(a, b) ==
  \/ a.time < b.time
  \/ a.time = b.time /\ a.kind = "call" /\ b.kind = "return"

(* The sort is stable: entries of which neither is less stay as pushed. *)
SortsBefore(entries, p, q) ==
  \/ ByTime(entries[p], entries[q])
  \/ ~ ByTime(entries[q], entries[p]) /\ p < q

(* Each entry comes after as many as sort before it. *)
Sorted(entries) ==
  [n \in DOMAIN entries |->
     entries[CHOOSE q \in DOMAIN entries :
               Cardinality({ p \in DOMAIN entries : SortsBefore(entries, p, q) }) = n - 1]]

make_entries_from_indices(history, indices) == Sorted(Pushed(history, indices))

(* The positions of a history: the whole of it as one partition. *)
AllOf(history) == [p \in DOMAIN history |-> p]

make_entries(history) == make_entries_from_indices(history, AllOf(history))

(***************************************************************************)
(* Entries of events.                                                      *)
(***************************************************************************)

(* mutant: every event moves next_id on *)
NewIdPerEvent(events, i) ==
  (CHOOSE p \in DOMAIN events :
     events[p].id = i /\ \A q \in DOMAIN events : events[q].id = i => p <= q) - 1

(* Ids are numbered in the order in which they first appear. *)
NewId(events, i) ==
  LET first == CHOOSE p \in DOMAIN events :
                 events[p].id = i /\ \A q \in DOMAIN events : events[q].id = i => p <= q
  IN  Cardinality({ events[q].id : q \in 1..(first - 1) })

renumber(events) ==
  [p \in DOMAIN events |-> [events[p] EXCEPT !.id = NewId(events, events[p].id)]]

Carried(ev) == IF ev.kind = "call" THEN ev.input ELSE ev.output

(* The position of an event is its time. *)
convert_entries(events) ==
  [p \in DOMAIN events |->
     [id |-> events[p].id, time |-> p - 1, kind |-> events[p].kind, value |-> Carried(events[p])]]

convert_entries_from_indices(history, indices) ==
  convert_entries(renumber([k \in DOMAIN indices |-> history[indices[k]]]))

(***************************************************************************)
(* The assertions, as what must hold for them to pass.                     *)
(***************************************************************************)

(* mutant: operations that take no time are refused *)
assert_takes_time(history) ==
  \A p \in DOMAIN history : history[p].call < history[p].return_time

assert_well_formed(history) ==
  \A p \in DOMAIN history : history[p].call <= history[p].return_time

Positions(events, kind) == { p \in DOMAIN events : events[p].kind = kind }

(* mutant: missing values are let through *)
assert_paired_events(events) ==
  LET calls   == Positions(events, "call")
      returns == Positions(events, "return")
  IN  /\ \A same \in {calls, returns} : \A p, q \in same :
           events[p].id = events[q].id => p = q
      /\ \A c \in calls : \E r \in returns : events[r].id = events[c].id /\ c < r
      /\ \A r \in returns : \E c \in calls : events[c].id = events[r].id

assert_well_formed_events(events) ==
  LET calls   == Positions(events, "call")
      returns == Positions(events, "return")
  IN  /\ \A p \in DOMAIN events : Carried(events[p]) # NoValue
      /\ \A same \in {calls, returns} : \A p, q \in same :
           events[p].id = events[q].id => p = q
      /\ \A c \in calls : \E r \in returns : events[r].id = events[c].id /\ c < r
      /\ \A r \in returns : \E c \in calls : events[c].id = events[r].id

(* Where a partition has an index: the part, and the place in it. *)
Places(partitions) == UNION { {k} \X DOMAIN partitions[k] : k \in DOMAIN partitions }

IndexAt(partitions, place) == partitions[place[1]][place[2]]

(* mutant: the indices are counted and not compared *)
scan_partition_counting(partitions, n) ==
  /\ \A place \in Places(partitions) : IndexAt(partitions, place) \in 1..n
  /\ Cardinality(Places(partitions)) = n

(* In bounds, disjoint, and as many indices as the history has entries. *)
scan_partition_covering(partitions, n) ==
  /\ \A place \in Places(partitions) : IndexAt(partitions, place) \in 1..n
  /\ \A a, b \in Places(partitions) : IndexAt(partitions, a) = IndexAt(partitions, b) => a = b
  /\ Cardinality(Places(partitions)) = n

Part(partitions, p) == CHOOSE k \in DOMAIN partitions : p \in Range(partitions[k])

(* ... and a return is in the partition of the call before it. *)
assert_partition_events_paired(partitions, history) ==
  /\ scan_partition_covering(partitions, Len(history))
  /\ \A r \in Positions(history, "return"), c \in Positions(history, "call") :
       c < r /\ history[c].id = history[r].id => Part(partitions, c) = Part(partitions, r)
=============================================================================
