---------------------------- MODULE CheckHistory ----------------------------
(***************************************************************************)
(* check_operations and check_events of src/checker.rs from the history    *)
(* they are given to the verdict, in a debug build: assert the history,    *)
(* ask the model for a partition, assert it, build one entry list per      *)
(* part, and search the lists.  The searches are taken by their contract   *)
(* (Decision, which Search implements); timers, threads and the order of   *)
(* the searches are the subject of Checker.                                *)
(***************************************************************************)
EXTENDS History, Entries

CONSTANTS
  OpHistories,         \* the histories of operations to check
  EventHistories,      \* the histories of events to check
  partition(_),        \* what Model::partition may answer
  partition_events(_), \* what Model::partition_events may answer
  NoPartition          \* None

Operation == [input : Input, output : Output, call : Nat, return_time : Nat]

Event == [id : Nat, kind : {"call", "return"},
          input : Input \cup {NoValue}, output : Output \cup {NoValue}]

(* A partition is a sequence of sequences of positions, right or wrong. *)
IsAnswer(answer) == answer # NoPartition /\ answer \in Seq(Seq(Nat))

ASSUME InputsAssumption ==
  /\ NoValue \notin Input \cup Output
  /\ \A h \in OpHistories : h \in Seq(Operation) /\ \A answer \in partition(h) : IsAnswer(answer)
  /\ \A h \in EventHistories :
       h \in Seq(Event) /\ \A answer \in partition_events(h) : IsAnswer(answer)

VARIABLES
  pc,       \* the next step of the check
  form,     \* which of the two entry points has been called
  history,  \* its argument
  parts,    \* the model's answer: sequences of positions, or NoPartition
  lists,    \* one entry list per part
  verdict   \* of the search of the lists

vars == <<pc, form, history, parts, lists, verdict>>

Init ==
  /\ \/ form = "operations" /\ history \in OpHistories
     \/ form = "events" /\ history \in EventHistories
  /\ pc = "assert_history"
  /\ parts = NoPartition
  /\ lists = <<>>
  /\ verdict = "none"

AssertHistory ==
  /\ pc = "assert_history"
  /\ pc' = IF \/ form = "operations" /\ assert_well_formed(history)
              \/ form = "events" /\ assert_well_formed_events(history)
           THEN "partition" ELSE "panicked"
  /\ UNCHANGED <<form, history, parts, lists, verdict>>

(* The model partitions the history, or leaves it whole. *)
Partition ==
  /\ pc = "partition"
  /\ \/ form = "operations" /\ parts' \in partition(history)
     \/ form = "events" /\ parts' \in partition_events(history)
  /\ pc' = "assert_partition"
  /\ UNCHANGED <<form, history, lists, verdict>>

NotPartitioned ==
  /\ pc = "partition"
  /\ pc' = "flatten"
  /\ UNCHANGED <<form, history, parts, lists, verdict>>

AssertPartition ==
  /\ pc = "assert_partition"
  /\ pc' = IF \/ form = "operations" /\ scan_partition_covering(parts, Len(history))
              \/ form = "events" /\ assert_partition_events_paired(parts, history)
           THEN "flatten" ELSE "panicked"
  /\ UNCHANGED <<form, history, parts, lists, verdict>>

FlattenWhole ==
  /\ pc = "flatten" /\ parts = NoPartition
  /\ lists' = << IF form = "operations" THEN make_entries(history)
                 ELSE convert_entries(renumber(history)) >>
  /\ pc' = "search"
  /\ UNCHANGED <<form, history, parts, verdict>>

FlattenParts ==
  /\ pc = "flatten" /\ parts # NoPartition
  /\ lists' = [k \in DOMAIN parts |->
                 IF form = "operations" THEN make_entries_from_indices(history, parts[k])
                 ELSE convert_entries_from_indices(history, parts[k])]
  /\ pc' = "search"
  /\ UNCHANGED <<form, history, parts, verdict>>

(* mutant: the last list is forgotten *)
SearchAllButLast ==
  /\ pc = "search"
  /\ verdict' = IF \A k \in 1..(Len(lists) - 1) : Linearizable(lists[k]) THEN "ok" ELSE "illegal"
  /\ pc' = "done"
  /\ UNCHANGED <<form, history, parts, lists>>

(* Every list is linearizable, or one of them is not. *)
Search ==
  /\ pc = "search"
  /\ verdict' = IF \A k \in DOMAIN lists : Linearizable(lists[k]) THEN "ok" ELSE "illegal"
  /\ pc' = "done"
  /\ UNCHANGED <<form, history, parts, lists>>

Stop == pc \in {"panicked", "done"} /\ UNCHANGED vars

Next ==
  \/ AssertHistory \/ Partition \/ NotPartitioned \/ AssertPartition
  \/ FlattenWhole \/ FlattenParts \/ Search \/ Stop

Spec == Init /\ [][Next]_vars

-----------------------------------------------------------------------------
(***************************************************************************)
(* The history by itself, without entries, ids or partitions.  An          *)
(* operation is a position in a history of operations, and an id in one of *)
(* events.                                                                 *)
(***************************************************************************)

HistoryOps == IF form = "operations" THEN DOMAIN history
              ELSE { history[p].id : p \in DOMAIN history }

EventOf(i, kind) == CHOOSE p \in DOMAIN history : history[p].id = i /\ history[p].kind = kind

InputOf(i)  == IF form = "operations" THEN history[i].input ELSE history[EventOf(i, "call")].input
OutputOf(i) == IF form = "operations" THEN history[i].output ELSE history[EventOf(i, "return")].output

(* Operation i has returned before j is called; operations that share an   *)
(* instant are concurrent.                                                 *)
HappensBefore(i, j) ==
  IF form = "operations" THEN history[i].return_time < history[j].call
  ELSE EventOf(i, "return") < EventOf(j, "call")

(* The state after the first k operations of an order, or Rejected. *)
StateAfter(order, k) ==
  LET after[m \in 0..k] ==
        IF m = 0 THEN InitState
        ELSE IF after[m - 1] = Rejected THEN Rejected
        ELSE Step(after[m - 1], InputOf(order[m]), OutputOf(order[m]))
  IN  after[k]

HistoryLinearizable ==
  \E order \in SetToSeqs(HistoryOps) :
    /\ \A j, k \in DOMAIN order : j < k => ~ HappensBefore(order[k], order[j])
    /\ StateAfter(order, Len(order)) # Rejected

HistoryWellFormed ==
  IF form = "operations"
  THEN \A i \in HistoryOps : history[i].call <= history[i].return_time
  ELSE \A i \in HistoryOps : \E c, r \in DOMAIN history :
         /\ c < r
         /\ { p \in DOMAIN history : history[p].id = i } = {c, r}
         /\ history[c].kind = "call" /\ history[c].input \in Input
         /\ history[r].kind = "return" /\ history[r].output \in Output

(* What the documentation requires of a partition: the parts, as sets, are *)
(* disjoint and cover the history, and no operation is split.              *)
PartitionValid ==
  /\ UNION { Range(parts[k]) : k \in DOMAIN parts } = DOMAIN history
  /\ \A j, k \in DOMAIN parts : j # k => Range(parts[j]) \cap Range(parts[k]) = {}
  /\ \A k \in DOMAIN parts : IsInjective(parts[k])
  /\ form = "events" =>
       \A k \in DOMAIN parts, p, q \in DOMAIN history :
         p \in Range(parts[k]) /\ history[p].id = history[q].id => q \in Range(parts[k])

-----------------------------------------------------------------------------
Built == pc \in {"search", "done"}

Indices(k) == IF parts = NoPartition THEN AllOf(history) ELSE parts[k]

(* The operation of the history that operation a of list k stands for. *)
Origin(k, a) ==
  IF form = "operations" THEN Indices(k)[a + 1]
  ELSE history[Indices(k)[CallOf(lists[k], a)]].id

(* Types; the history and the partition are what the caller chose. *)
TypeOK ==
  /\ pc \in {"assert_history", "partition", "assert_partition", "flatten", "search",
             "done", "panicked"}
  /\ form \in {"operations", "events"}
  /\ verdict \in {"none", "ok", "illegal"} /\ (verdict # "none" <=> pc = "done")
  /\ \A k \in DOMAIN lists : \A p \in DOMAIN lists[k] :
       /\ lists[k][p].id \in 0..(Len(history) - 1)
       /\ \/ IsCall(lists[k], p) /\ lists[k][p].value \in Input
          \/ IsReturn(lists[k], p) /\ lists[k][p].value \in Output

(* What is searched are well-formed lists whose ids are dense, so that     *)
(* NodeArena::from_entries may index its table by them (lines 264-273).    *)
ListsWellFormed ==
  Built => \A k \in DOMAIN lists :
             /\ WellFormed(lists[k])
             /\ Ops(lists[k]) = 0..(Len(lists[k]) \div 2 - 1)

(* INV-HIST-02: a list orders the return of one operation before the call  *)
(* of another exactly when the history does.  Operations that only touch,  *)
(* one returning at the instant the other is called, stay concurrent,      *)
(* wherever they are in the slice.                                         *)
RealTimeKept ==
  Built => \A k \in DOMAIN lists : \A a, b \in Ops(lists[k]) :
             Precedes(lists[k], a, b) <=> HappensBefore(Origin(k, a), Origin(k, b))

(* INV-LIN-03: what the assertions let through is searched completely:     *)
(* every operation of the history is one operation of one list, with its   *)
(* own input and output.                                                   *)
EverythingSearchedOnce ==
  Built =>
    \A i \in HistoryOps : \E k \in DOMAIN lists : \E a \in Ops(lists[k]) :
      /\ Origin(k, a) = i
      /\ lists[k][CallOf(lists[k], a)].value = InputOf(i)
      /\ lists[k][ReturnOf(lists[k], a)].value = OutputOf(i)
      /\ \A j \in DOMAIN lists : \A b \in Ops(lists[j]) :
           Origin(j, b) = i => j = k /\ b = a

(* The assertions of src/invariants.rs fire on malformed histories and on  *)
(* partitions that are not as documented, and on nothing else: what they   *)
(* refuse is not well-formed or not valid, and what they let through is.   *)
AssertionsExact ==
  /\ pc = "panicked" => ~ HistoryWellFormed \/ (parts # NoPartition /\ ~ PartitionValid)
  /\ pc \in {"partition", "assert_partition", "flatten"} \/ Built => HistoryWellFormed
  /\ (pc = "flatten" \/ Built) /\ parts # NoPartition => PartitionValid

(* INV-LIN-01, 02 and 03 from end to end: the verdict assembled from the   *)
(* parts is the one of the history.                                        *)
VerdictIsOfHistory == pc = "done" => (verdict = "ok" <=> HistoryLinearizable)

(* Index sets that are disjoint, complete, in bounds and keep calls and    *)
(* returns together are all that src/invariants.rs requires of a           *)
(* partition: the lists built from them can be searched.                   *)
IndexSetsSuffice ==
  Built => \A k \in DOMAIN lists : WellFormed(lists[k])
=============================================================================
