------------------------------ MODULE S2Checker ------------------------------
(***************************************************************************)
(* examples/s2_checker.rs: parse the lines a collector has recorded, check *)
(* the events with check_events and PowerSetModel, exit with a code.  It   *)
(* may be started while the collector is still recording, or after it died *)
(* in the middle of a line.  check_events is taken by its contract.        *)
(***************************************************************************)
EXTENDS S2Service, Entries

CONSTANTS
  Torn,      \* a line that was cut short
  Panicked,  \* what a function that panics returns
  NotExited  \* no exit code: the process is running

ASSUME CheckerAssumption ==
  /\ NoPower \notin Seq(S2StreamState) /\ Panicked \notin Seq(S2StreamState)
  /\ NoPower # Panicked
  /\ NotExited \notin {0, 1, 101}

VARIABLES
  result,    \* the CheckResult, or "none"
  exit       \* the exit code, or NotExited

vars == <<world, result, exit>>

(***************************************************************************)
(* Parsing.  `as u32` keeps the low 32 bits.                               *)
(***************************************************************************)
AsU32(n) == IF n = None THEN None ELSE n % U32

parse_start(input) ==
  IF input.op # "Append" THEN input
  ELSE [input EXCEPT !.num_records = AsU32(@), !.match_seq_num = AsU32(@)]

parse_finish(output) ==
  IF "tail" \in DOMAIN output THEN [output EXCEPT !.tail = AsU32(@)] ELSE output

parse_line(line) ==
  IF line.event = "Start"
  THEN [id |-> line.op_id, kind |-> "call", input |-> parse_start(line.value), output |-> NoValue]
  ELSE [id |-> line.op_id, kind |-> "return", input |-> NoValue, output |-> parse_finish(line.value)]

parse_lines(lines) == [p \in DOMAIN lines |-> parse_line(lines[p])]

(* mutant: a line that does not parse is skipped *)
parse_leniently(lines) == parse_lines(SelectSeq(lines, LAMBDA line : line # Torn))

(* A line that does not parse makes it panic. *)
parse_s2_jsonl(lines) == IF Contains(lines, Torn) THEN Panicked ELSE parse_lines(lines)

(***************************************************************************)
(* The search of the one entry list.                                       *)
(***************************************************************************)
Value(list, i, kind) ==
  list[CHOOSE p \in DOMAIN list : list[p].id = i /\ list[p].kind = kind].value

Before(list, i, j) ==
  \E p, q \in DOMAIN list :
    /\ p < q
    /\ list[p].id = i /\ list[p].kind = "return"
    /\ list[q].id = j /\ list[q].kind = "call"

(* The orders of the operations that respect real time. *)
Orders(list) ==
  { order \in SetToSeqs({ list[p].id : p \in DOMAIN list }) :
      \A j, k \in DOMAIN order : j < k => ~ Before(list, order[k], order[j]) }

(* One call of PowerSetModel::step, which panics if one state overflows. *)
StepOrPanic(states, label) ==
  IF states \in {NoPower, Panicked} THEN states
  ELSE IF \E s \in Range(states) : Overflows(s, label[1]) THEN Panicked
  ELSE PowerStep(S2Model({label}), states, label)

Label(list, i) == <<Value(list, i, "call"), Value(list, i, "return")>>

Walk(list, order) ==
  LET after[n \in 0..Len(order)] ==
        IF n = 0 THEN PowerInit(S2Model({}))
        ELSE StepOrPanic(after[n - 1], Label(list, order[n]))
  IN  after[Len(order)]

Walks(list) == { Walk(list, order) : order \in Orders(list) }

(* The search ends with a walk that is accepted or panics, whichever it    *)
(* meets first, and refuses the list when all are rejected.                *)
SearchOutcomes(list) ==
  LET walks == Walks(list) IN
  IF walks = {NoPower} THEN {"refused"}
  ELSE { IF w = Panicked THEN "panicked" ELSE "accepted" : w \in walks \ {NoPower} }

(* What check_events may answer, as module Verdict has it. *)
CheckEvents(linearizable, timed_out, answer) ==
  INSTANCE Verdict WITH timeout <- TRUE, result <- answer

ExitCode(answer) == IF answer = "Ok" THEN 0 ELSE 1

-----------------------------------------------------------------------------
Init ==
  /\ WorldInit
  /\ result = "none"
  /\ exit = NotExited

Recording == exit = NotExited /\ ~Contains(file, Torn)

CollectorRecords == Recording /\ Record /\ UNCHANGED <<result, exit>>

CollectorDies ==
  /\ Recording
  /\ file' = Append(file, Torn)
  /\ UNCHANGED <<pending, possible, result, exit>>

Exit(code, answer) ==
  /\ exit' = code
  /\ result' = answer
  /\ UNCHANGED world

(* No file named, a timeout that is not a number, or an unreadable file. *)
MainRejects == exit = NotExited /\ Exit(1, "none")

(* A line that does not parse, or an assertion of check_events, panics.    *)
Outcomes ==
  LET events == parse_s2_jsonl(file) IN
  IF events # Panicked /\ assert_well_formed_events(events)
  THEN SearchOutcomes(convert_entries(renumber(events)))
  ELSE {"malformed"}

(* A panic exits with 101.  A search that would panic may be timed out     *)
(* before it does, having refused nothing.                                 *)
MainChecks ==
  /\ exit = NotExited
  /\ \E outcome \in Outcomes :
       \/ outcome \in {"malformed", "panicked"} /\ Exit(101, "none")
       \/ \E timed_out \in BOOLEAN :
            /\ outcome # "malformed"
            /\ outcome = "panicked" => timed_out
            /\ \E answer \in CheckEvents(outcome # "refused", timed_out, "unset")!Answers :
                 Exit(ExitCode(answer), answer)

Exited == exit # NotExited /\ UNCHANGED vars

Next == CollectorRecords \/ CollectorDies \/ MainRejects \/ MainChecks \/ Exited

Spec == Init /\ [][Next]_vars

-----------------------------------------------------------------------------
(* Exit code 0 is given only to histories that a stream which honours its  *)
(* guards can have produced.                                               *)
AcceptedIsPossible == exit = 0 => possible # {}

(* FAIL is printed only for histories that no such stream can have         *)
(* produced: no guard, failed append or overlap of clients raises a false  *)
(* alarm.                                                                  *)
RefusedIsImpossible == result = "Illegal" => possible = {}

(* A file that the collector has not completed is never judged.            *)
JudgedIsWhole ==
  result # "none" => ~Contains(file, Torn) /\ \A c \in Clients : pending[c] = Idle
=============================================================================
