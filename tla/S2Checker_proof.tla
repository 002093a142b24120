-------------------------- MODULE S2Checker_proof --------------------------
(***************************************************************************)
(* Proofs about S2Checker: a file is judged only when it is whole, FAIL is *)
(* never a false alarm and, when clients are disciplined and the tails fit *)
(* in 32 bits, PASS is never given to an impossible history; for any       *)
(* number of clients and requests.                                         *)
(***************************************************************************)
EXTENDS S2Checker, PowerSet_proof, FiniteSetTheorems

(* Short sequences.                                                        *)
LEMMA ShortSequences ==
  /\ \A S : \A x \in S : <<x>> \in Seq(S)
  /\ \A S : \A x, y \in S : <<x, y>> \in Seq(S)
  /\ \A S : <<>> \in Seq(S)
  /\ \A x : Range(<<x>>) = {x}
  /\ \A x, y : Range(<<x, y>>) = {x, y}
  /\ Range(<<>>) = {}
<1>1. \A S : \A x \in S : <<x>> \in Seq(S)
  OBVIOUS
<1>2. \A S : \A x, y \in S : <<x, y>> \in Seq(S)
  OBVIOUS
<1>3. \A S : <<>> \in Seq(S)
  OBVIOUS
<1>4. \A x : Range(<<x>>) = {x}
  <2>. TAKE x
  <2>1. DOMAIN <<x>> = {1} /\ <<x>>[1] = x
    OBVIOUS
  <2>. QED BY <2>1 DEF Range
<1>5. \A x, y : Range(<<x, y>>) = {x, y}
  <2>. TAKE x, y
  <2>1. DOMAIN <<x, y>> = {1, 2} /\ <<x, y>>[1] = x /\ <<x, y>>[2] = y
    OBVIOUS
  <2>. QED BY <2>1 DEF Range
<1>6. Range(<<>>) = {}
  BY DEF Range
<1>. QED BY <1>1, <1>2, <1>3, <1>4, <1>5, <1>6

-----------------------------------------------------------------------------
(* The collector has completed every line it has begun.                    *)
Whole == ~ Contains(file, Torn)

Lines == [op_id : Nat, event : {"Start"}, value : S2Input]
         \cup [op_id : Nat, event : {"Finish"}, value : S2Output]

(* What the collector has recorded, and what is pending.                   *)
IdsAsked == Asked \in Nat /\ \A p \in DOMAIN file : file[p].op_id <= Asked

OneLineEach ==
  \A p, q \in DOMAIN file :
    file[p].event = file[q].event /\ file[p].op_id = file[q].op_id => p = q

AnswersAsked ==
  \A q \in DOMAIN file : file[q].event = "Finish" =>
    \E p \in DOMAIN file :
      /\ p < q
      /\ file[p].event = "Start" /\ file[p].op_id = file[q].op_id
      /\ file[p].value \in Inputs /\ file[q].value \in Replies(file[p].value)

PendingAsked ==
  \A c \in Clients : pending[c] # Idle =>
    /\ \E p \in DOMAIN file : file[p] = Start(pending[c].op_id, pending[c].input)
    /\ \A q \in DOMAIN file :
         file[q].event = "Finish" => file[q].op_id # pending[c].op_id
    /\ \A d \in Clients \ {c} : pending[d] # Idle => pending[d].op_id # pending[c].op_id

FileInv ==
  /\ file \in Seq(Lines)
  /\ pending \in [Clients -> {Idle} \cup [op_id : Nat, input : Inputs]]
  /\ IdsAsked
  /\ OneLineEach
  /\ AnswersAsked
  /\ PendingAsked

(* The step of a client's answer, as Record takes it.                      *)
Reply(c, output) ==
  /\ pending[c] # Idle
  /\ output \in Replies(pending[c].input)
  /\ Answered(c, output)

(* A request keeps its type when it is labelled.                           *)
LEMMA InputsTyped == Inputs \subseteq S2Input
<1>. SUFFICES ASSUME NEW request \in Requests, NEW n \in 1..MaxOps
     PROVE  Labelled(request, n) \in S2Input
  BY DEF Inputs
<1>1. request \in S2Input /\ n \in Nat
  BY ServiceAssumption
<1>2. CASE request.op = "Append"
  <2>1. request \in [op : {"Append"}, num_records : 0..(U32 - 1), xxh3 : Nat,
                     set_fencing_token : Tokens \cup {None}, fencing_token : Tokens \cup {None},
                     match_seq_num : 0..(U32 - 1) \cup {None}]
    BY <1>1, <1>2 DEF S2Input, Read, CheckTail
  <2>. QED BY <1>1, <1>2, <2>1 DEF Labelled, S2Input
<1>3. CASE request.op # "Append"
  BY <1>1, <1>3 DEF Labelled
<1>. QED BY <1>2, <1>3

(* One line more.                                                          *)
LEMMA OneMore ==
  ASSUME file \in Seq(Lines), NEW line, file' = Append(file, line)
  PROVE  /\ Len(file) \in Nat /\ DOMAIN file = 1..Len(file)
         /\ DOMAIN file' = DOMAIN file \cup {Len(file) + 1}
         /\ Len(file) + 1 \notin DOMAIN file
         /\ \A p \in DOMAIN file : p < Len(file) + 1 /\ p \in Nat
         /\ file'[Len(file) + 1] = line
         /\ \A p \in DOMAIN file : file'[p] = file[p]
OBVIOUS

(* The requests are counted by their lines.                                *)
LEMMA AskedMore ==
  ASSUME FileInv, NEW line, file' = Append(file, line)
  PROVE  /\ line.event = "Start" => Asked' = Asked + 1
         /\ line.event # "Start" => Asked' = Asked
<1>. DEFINE D == { p \in DOMAIN file : file[p].event = "Start" }
            n == Len(file) + 1
<1>1. /\ DOMAIN file' = DOMAIN file \cup {n} /\ n \notin DOMAIN file
      /\ file'[n] = line /\ \A p \in DOMAIN file : file'[p] = file[p]
      /\ DOMAIN file = 1..Len(file) /\ Len(file) \in Nat
  BY OneMore DEF FileInv
<1>2. IsFiniteSet(D)
  <2>1. IsFiniteSet(1..Len(file))
    BY <1>1, FS_Interval
  <2>. QED BY <1>1, <2>1, FS_Subset
<1>3. Asked' = Cardinality({ p \in DOMAIN file' : file'[p].event = "Start" })
  BY DEF Asked
<1>4. CASE line.event = "Start"
  <2>1. { p \in DOMAIN file' : file'[p].event = "Start" } = D \cup {n}
    BY <1>1, <1>4
  <2>2. n \notin D
    BY <1>1
  <2>3. Cardinality(D \cup {n}) = Cardinality(D) + 1
    <3>. HIDE DEF D, n
    <3>. QED BY <1>2, <2>2, FS_AddElement
  <2>. QED BY <1>3, <1>4, <2>1, <2>3 DEF Asked
<1>5. CASE line.event # "Start"
  <2>1. { p \in DOMAIN file' : file'[p].event = "Start" } = D
    BY <1>1, <1>5
  <2>. QED BY <1>3, <1>5, <2>1 DEF Asked
<1>. QED BY <1>4, <1>5

(* The file and what is pending: at first, after a request, after an answer.*)
LEMMA FileInit == WorldInit => FileInv
<1>. SUFFICES ASSUME WorldInit PROVE FileInv
  OBVIOUS
<1>1. file = <<>> /\ DOMAIN file = {} /\ file \in Seq(Lines)
  BY DEF WorldInit
<1>2. Asked = 0
  <2>1. { p \in DOMAIN file : file[p].event = "Start" } = {}
    BY <1>1
  <2>. QED BY <2>1, FS_EmptySet DEF Asked
<1>3. pending \in [Clients -> {Idle} \cup [op_id : Nat, input : Inputs]]
      /\ \A c \in Clients : pending[c] = Idle
  BY DEF WorldInit
<1>. QED
  BY <1>1, <1>2, <1>3 DEF FileInv, IdsAsked, OneLineEach, AnswersAsked, PendingAsked

(* A request is a line of its own, with an id that no line has yet.        *)
LEMMA FileAsk ==
  ASSUME FileInv, NEW c \in Clients, NEW request \in Requests, Ask(c, request)
  PROVE  FileInv'
<1>. DEFINE id    == Asked + 1
            input == Labelled(request, id)
            n     == Len(file) + 1
<1>1. /\ Asked < MaxOps /\ Asked \in Nat /\ pending[c] = Idle
      /\ file' = Append(file, Start(id, input))
      /\ pending' = [pending EXCEPT ![c] = [op_id |-> id, input |-> input]]
  BY DEF Ask, FileInv, IdsAsked
<1>2. id \in Nat /\ input \in Inputs /\ input \in S2Input /\ id # Asked
      /\ \A p \in DOMAIN file : file[p].op_id # id /\ file[p].op_id \in Nat
  <2>1. id \in 1..MaxOps
    BY <1>1, ServiceAssumption
  <2>2. input \in Inputs
    BY <2>1 DEF Inputs
  <2>3. ASSUME NEW p \in DOMAIN file PROVE file[p].op_id \in Nat /\ file[p].op_id <= Asked
    BY DEF FileInv, IdsAsked, Lines
  <2>. HIDE DEF input
  <2>. QED BY <1>1, <2>1, <2>2, <2>3, InputsTyped
<1>. DEFINE line == Start(id, input)
<1>3. line \in Lines /\ line.op_id = id /\ line.event = "Start" /\ line.value = input
  BY <1>2 DEF Lines, Start
<1>. HIDE DEF input, id
<1>4. /\ DOMAIN file' = DOMAIN file \cup {n} /\ n \notin DOMAIN file
      /\ file'[n] = line /\ \A p \in DOMAIN file : file'[p] = file[p] /\ p < n
  <2>. HIDE DEF line
  <2>1. file' = Append(file, line)
    BY <1>1 DEF line
  <2>. QED BY <2>1, OneMore DEF FileInv
<1>5. Asked' = id
  <2>. HIDE DEF line
  <2>1. file' = Append(file, line)
    BY <1>1 DEF line
  <2>. QED BY <2>1, <1>3, AskedMore DEF id
<1>6. file' \in Seq(Lines)
  <2>. HIDE DEF line
  <2>1. file' = Append(file, line)
    BY <1>1 DEF line
  <2>. QED BY <2>1, <1>3 DEF FileInv
<1>. HIDE DEF line, n
<1>7. pending' \in [Clients -> {Idle} \cup [op_id : Nat, input : Inputs]]
  BY <1>1, <1>2 DEF FileInv
<1>8. IdsAsked'
  <2>1. ASSUME NEW p \in DOMAIN file' PROVE file'[p].op_id <= Asked'
    <3>1. CASE p = n
      BY <1>2, <1>3, <1>4, <1>5, <3>1
    <3>2. CASE p # n
      <4>1. p \in DOMAIN file
        BY <1>4, <3>2
      <4>2. file[p].op_id <= Asked /\ file[p].op_id \in Nat
        BY <1>2, <4>1 DEF FileInv, IdsAsked
      <4>. QED BY <1>1, <1>4, <1>5, <4>1, <4>2 DEF id
    <3>. QED BY <3>1, <3>2
  <2>. QED BY <1>2, <1>5, <2>1 DEF IdsAsked
<1>9. OneLineEach'
  BY <1>2, <1>3, <1>4 DEF FileInv, OneLineEach
<1>10. AnswersAsked'
  <2>. SUFFICES ASSUME NEW q \in DOMAIN file', file'[q].event = "Finish"
       PROVE  \E p \in DOMAIN file' :
                /\ p < q
                /\ file'[p].event = "Start" /\ file'[p].op_id = file'[q].op_id
                /\ file'[p].value \in Inputs /\ file'[q].value \in Replies(file'[p].value)
    BY DEF AnswersAsked
  <2>1. q \in DOMAIN file /\ file[q].event = "Finish"
    BY <1>3, <1>4
  <2>. QED BY <1>4, <2>1 DEF FileInv, AnswersAsked
<1>11. PendingAsked'
  <2>. SUFFICES ASSUME NEW d \in Clients, pending'[d] # Idle
       PROVE  /\ \E p \in DOMAIN file' : file'[p] = Start(pending'[d].op_id, pending'[d].input)
              /\ \A q \in DOMAIN file' :
                   file'[q].event = "Finish" => file'[q].op_id # pending'[d].op_id
              /\ \A e \in Clients \ {d} :
                   pending'[e] # Idle => pending'[e].op_id # pending'[d].op_id
    BY DEF PendingAsked
  <2>1. /\ pending'[c] = [op_id |-> id, input |-> input]
        /\ \A e \in Clients \ {c} : pending'[e] = pending[e]
    BY <1>1 DEF FileInv
  <2>2. ASSUME NEW e \in Clients \ {c}, pending[e] # Idle
        PROVE  /\ pending[e].op_id # id
               /\ \E p \in DOMAIN file : file[p] = Start(pending[e].op_id, pending[e].input)
    <3>1. PICK p \in DOMAIN file : file[p] = Start(pending[e].op_id, pending[e].input)
      BY <2>2 DEF FileInv, PendingAsked
    <3>2. file[p].op_id = pending[e].op_id
      BY <3>1 DEF Start
    <3>. QED BY <1>2, <3>1, <3>2
  <2>3. CASE d = c
    <3>1. file'[n] = Start(pending'[d].op_id, pending'[d].input) /\ n \in DOMAIN file'
      BY <1>4, <2>1, <2>3 DEF line
    <3>2. ASSUME NEW q \in DOMAIN file', file'[q].event = "Finish"
          PROVE  file'[q].op_id # pending'[d].op_id
      BY <1>2, <1>3, <1>4, <2>1, <2>3, <3>2
    <3>3. ASSUME NEW e \in Clients \ {d}, pending'[e] # Idle
          PROVE  pending'[e].op_id # pending'[d].op_id
      BY <2>1, <2>2, <2>3, <3>3
    <3>. QED BY <3>1, <3>2, <3>3
  <2>4. CASE d # c
    <3>1. pending'[d] = pending[d] /\ pending[d] # Idle /\ d \in Clients \ {c}
      BY <2>1, <2>4
    <3>2. /\ \E p \in DOMAIN file : file[p] = Start(pending[d].op_id, pending[d].input)
          /\ \A q \in DOMAIN file : file[q].event = "Finish" => file[q].op_id # pending[d].op_id
          /\ \A e \in Clients \ {d} : pending[e] # Idle => pending[e].op_id # pending[d].op_id
      BY <3>1 DEF FileInv, PendingAsked
    <3>3. \E p \in DOMAIN file' : file'[p] = Start(pending'[d].op_id, pending'[d].input)
      BY <1>4, <3>1, <3>2
    <3>4. ASSUME NEW q \in DOMAIN file', file'[q].event = "Finish"
          PROVE  file'[q].op_id # pending'[d].op_id
      BY <1>3, <1>4, <3>1, <3>2, <3>4
    <3>5. ASSUME NEW e \in Clients \ {d}, pending'[e] # Idle
          PROVE  pending'[e].op_id # pending'[d].op_id
      <4>1. CASE e = c
        BY <2>1, <2>2, <3>1, <4>1
      <4>2. CASE e # c
        BY <2>1, <3>1, <3>2, <3>5, <4>2
      <4>. QED BY <4>1, <4>2
    <3>. QED BY <3>3, <3>4, <3>5
  <2>. QED BY <2>3, <2>4
<1>. QED BY <1>6, <1>7, <1>8, <1>9, <1>10, <1>11 DEF FileInv

(* An answer comes after its request, and once.                            *)
LEMMA FileReply ==
  ASSUME FileInv, NEW c \in Clients, NEW output, Reply(c, output)
  PROVE  FileInv'
<1>. DEFINE id   == pending[c].op_id
            line == Finish(id, output)
            n    == Len(file) + 1
<1>1. /\ pending[c] # Idle /\ output \in Replies(pending[c].input)
      /\ file' = Append(file, line)
      /\ pending' = [pending EXCEPT ![c] = Idle]
  BY DEF Reply, Answered
<1>2. /\ id \in Nat /\ pending[c].input \in Inputs /\ output \in S2Output
  <2>1. pending[c] \in [op_id : Nat, input : Inputs]
    BY <1>1 DEF FileInv
  <2>. QED BY <1>1, <2>1, ServiceAssumption
<1>3. line \in Lines /\ line.op_id = id /\ line.event = "Finish" /\ line.value = output
  BY <1>2 DEF Lines, Finish
<1>. HIDE DEF line
<1>4. /\ DOMAIN file' = DOMAIN file \cup {n} /\ n \notin DOMAIN file
      /\ file'[n] = line /\ \A p \in DOMAIN file : file'[p] = file[p] /\ p < n
  BY <1>1, OneMore DEF FileInv
<1>5. Asked' = Asked
  BY <1>1, <1>3, AskedMore
<1>6. file' \in Seq(Lines)
  BY <1>1, <1>3 DEF FileInv
<1>. HIDE DEF n
<1>7. pending' \in [Clients -> {Idle} \cup [op_id : Nat, input : Inputs]]
  BY <1>1 DEF FileInv
<1>8. PICK s \in DOMAIN file : file[s] = Start(id, pending[c].input)
  BY <1>1 DEF FileInv, PendingAsked
<1>9. /\ file[s].op_id = id /\ file[s].event = "Start" /\ file[s].value = pending[c].input
      /\ \A q \in DOMAIN file : file[q].event = "Finish" => file[q].op_id # id
  BY <1>1, <1>8 DEF FileInv, PendingAsked, Start
<1>. HIDE DEF id
<1>10. IdsAsked'
  <2>1. id <= Asked
    BY <1>9 DEF FileInv, IdsAsked
  <2>. QED BY <1>3, <1>4, <1>5, <2>1 DEF FileInv, IdsAsked
<1>11. OneLineEach'
  <2>. SUFFICES ASSUME NEW p \in DOMAIN file', NEW q \in DOMAIN file',
                       file'[p].event = file'[q].event, file'[p].op_id = file'[q].op_id
       PROVE  p = q
    BY DEF OneLineEach
  <2>1. CASE p \in DOMAIN file /\ q \in DOMAIN file
    BY <1>4, <2>1 DEF FileInv, OneLineEach
  <2>2. CASE p = n
    BY <1>3, <1>4, <1>9, <2>2
  <2>3. CASE q = n
    BY <1>3, <1>4, <1>9, <2>3
  <2>. QED BY <1>4, <2>1, <2>2, <2>3
<1>12. AnswersAsked'
  <2>. SUFFICES ASSUME NEW q \in DOMAIN file', file'[q].event = "Finish"
       PROVE  \E p \in DOMAIN file' :
                /\ p < q
                /\ file'[p].event = "Start" /\ file'[p].op_id = file'[q].op_id
                /\ file'[p].value \in Inputs /\ file'[q].value \in Replies(file'[p].value)
    BY DEF AnswersAsked
  <2>1. CASE q = n
    <3>1. s \in DOMAIN file' /\ s < n /\ file'[s] = file[s]
      BY <1>4
    <3>. QED BY <1>1, <1>2, <1>3, <1>4, <1>9, <2>1, <3>1
  <2>2. CASE q # n
    <3>1. q \in DOMAIN file /\ file[q].event = "Finish"
      BY <1>4, <2>2
    <3>. QED BY <1>4, <3>1 DEF FileInv, AnswersAsked
  <2>. QED BY <2>1, <2>2
<1>13. PendingAsked'
  <2>. SUFFICES ASSUME NEW d \in Clients, pending'[d] # Idle
       PROVE  /\ \E p \in DOMAIN file' : file'[p] = Start(pending'[d].op_id, pending'[d].input)
              /\ \A q \in DOMAIN file' :
                   file'[q].event = "Finish" => file'[q].op_id # pending'[d].op_id
              /\ \A e \in Clients \ {d} :
                   pending'[e] # Idle => pending'[e].op_id # pending'[d].op_id
    BY DEF PendingAsked
  <2>1. pending'[c] = Idle /\ \A e \in Clients \ {c} : pending'[e] = pending[e]
    BY <1>1 DEF FileInv
  <2>2. d # c /\ pending'[d] = pending[d] /\ pending[d] # Idle
    BY <2>1
  <2>3. /\ \E p \in DOMAIN file : file[p] = Start(pending[d].op_id, pending[d].input)
        /\ \A q \in DOMAIN file : file[q].event = "Finish" => file[q].op_id # pending[d].op_id
        /\ \A e \in Clients \ {d} : pending[e] # Idle => pending[e].op_id # pending[d].op_id
    BY <2>2 DEF FileInv, PendingAsked
  <2>4. id # pending[d].op_id
    BY <1>1, <2>2, <2>3 DEF id
  <2>5. \E p \in DOMAIN file' : file'[p] = Start(pending'[d].op_id, pending'[d].input)
    BY <1>4, <2>2, <2>3
  <2>6. ASSUME NEW q \in DOMAIN file', file'[q].event = "Finish"
        PROVE  file'[q].op_id # pending'[d].op_id
    BY <1>3, <1>4, <2>2, <2>3, <2>4, <2>6
  <2>7. ASSUME NEW e \in Clients \ {d}, pending'[e] # Idle
        PROVE  pending'[e].op_id # pending'[d].op_id
    BY <2>1, <2>2, <2>3, <2>7
  <2>. QED BY <2>5, <2>6, <2>7
<1>. QED BY <1>6, <1>7, <1>10, <1>11, <1>12, <1>13 DEF FileInv

(* So every line that is recorded keeps the file in order.                 *)
LEMMA FileStep ==
  ASSUME FileInv, Record
  PROVE  FileInv'
<1>1. ASSUME NEW c \in Clients, NEW request \in Requests, Ask(c, request) PROVE FileInv'
  BY <1>1, FileAsk
<1>2. ASSUME NEW c \in Clients, pending[c] # Idle, NEW output \in Replies(pending[c].input),
             Answered(c, output)
      PROVE  FileInv'
  BY <1>2, FileReply DEF Reply
<1>. QED BY <1>1, <1>2 DEF Record

-----------------------------------------------------------------------------
(* What is parsed, and what main does with it.                             *)
LEMMA Parsed ==
  ASSUME file \in Seq(Lines), Whole
  PROVE  /\ parse_s2_jsonl(file) = parse_lines(file)
         /\ DOMAIN parse_lines(file) = DOMAIN file
         /\ \A p \in DOMAIN file :
              /\ parse_lines(file)[p].id = file[p].op_id
              /\ file[p].event = "Start" =>
                   /\ parse_lines(file)[p].kind = "call"
                   /\ parse_lines(file)[p].input = parse_start(file[p].value)
              /\ file[p].event = "Finish" =>
                   /\ parse_lines(file)[p].kind = "return"
                   /\ parse_lines(file)[p].output = parse_finish(file[p].value)
              /\ file[p].event \in {"Start", "Finish"}
              /\ file[p].op_id \in Nat
<1>1. parse_s2_jsonl(file) = parse_lines(file)
  BY DEF parse_s2_jsonl, Whole
<1>2. DOMAIN parse_lines(file) = DOMAIN file
  BY DEF parse_lines
<1>3. \A p \in DOMAIN file : parse_lines(file)[p] = parse_line(file[p])
  BY DEF parse_lines
<1>4. \A p \in DOMAIN file : file[p] \in Lines
  OBVIOUS
<1>. QED BY <1>1, <1>2, <1>3, <1>4 DEF Lines, parse_line

WellFormedFile == Whole /\ assert_well_formed_events(parse_lines(file))

(* The list that main has searched.                                        *)
Searched == convert_entries(renumber(parse_lines(file)))

(* A file that passes the assertions has an answer to every request, so that*)
(* nothing is pending.                                                     *)
LEMMA WellFormedIsAnswered ==
  ASSUME FileInv, WellFormedFile
  PROVE  /\ \A p \in DOMAIN file : file[p].event = "Start" =>
              \E q \in DOMAIN file :
                p < q /\ file[q].event = "Finish" /\ file[q].op_id = file[p].op_id
         /\ \A c \in Clients : pending[c] = Idle
<1>. DEFINE events == parse_lines(file)
<1>1. /\ DOMAIN events = DOMAIN file
      /\ \A p \in DOMAIN file : events[p].id = file[p].op_id
      /\ Positions(events, "call") = { p \in DOMAIN file : file[p].event = "Start" }
      /\ Positions(events, "return") = { p \in DOMAIN file : file[p].event = "Finish" }
  <2>1. file \in Seq(Lines) /\ Whole
    BY DEF FileInv, WellFormedFile
  <2>2. DOMAIN events = DOMAIN file
    BY <2>1, Parsed
  <2>3. \A p \in DOMAIN file :
          /\ events[p].id = file[p].op_id
          /\ events[p].kind = "call" <=> file[p].event = "Start"
          /\ events[p].kind = "return" <=> file[p].event = "Finish"
    BY <2>1, Parsed
  <2>. HIDE DEF events
  <2>. QED BY <2>2, <2>3 DEF Positions
<1>2. \A c \in Positions(events, "call") :
        \E r \in Positions(events, "return") : events[r].id = events[c].id /\ c < r
  BY DEF WellFormedFile, assert_well_formed_events
<1>. HIDE DEF events
<1>3. ASSUME NEW p \in DOMAIN file, file[p].event = "Start"
      PROVE  \E q \in DOMAIN file :
               p < q /\ file[q].event = "Finish" /\ file[q].op_id = file[p].op_id
  BY <1>1, <1>2, <1>3
<1>4. ASSUME NEW c \in Clients, pending[c] # Idle PROVE FALSE
  <2>1. PICK p \in DOMAIN file : file[p] = Start(pending[c].op_id, pending[c].input)
    BY <1>4 DEF FileInv, PendingAsked
  <2>2. file[p].event = "Start" /\ file[p].op_id = pending[c].op_id
    BY <2>1 DEF Start
  <2>. QED BY <1>3, <1>4, <2>2 DEF FileInv, PendingAsked
<1>. QED BY <1>3, <1>4

(* The process ends without an answer, or with one on a whole file.        *)
Judged(outcome) ==
  /\ WellFormedFile
  /\ outcome \in SearchOutcomes(Searched)
  /\ exit' = ExitCode(result')
  /\ result' = "Ok" => outcome = "accepted"
  /\ result' = "Illegal" => outcome = "refused"

(* main panics, or gives an answer on a whole file that its search allows. *)
LEMMA MainEnds ==
  ASSUME MainChecks
  PROVE  \/ exit' = 101 /\ result' = "none"
         \/ \E outcome : Judged(outcome)
<1>1. PICK outcome \in Outcomes :
        \/ outcome \in {"malformed", "panicked"} /\ Exit(101, "none")
        \/ \E timed_out \in BOOLEAN :
             /\ outcome # "malformed"
             /\ outcome = "panicked" => timed_out
             /\ \E answer \in CheckEvents(outcome # "refused", timed_out, "unset")!Answers :
                  Exit(ExitCode(answer), answer)
  BY DEF MainChecks
<1>2. CASE Exit(101, "none")
  BY <1>2 DEF Exit
<1>3. ASSUME NEW timed_out \in BOOLEAN, outcome # "malformed",
             outcome = "panicked" => timed_out,
             NEW answer \in CheckEvents(outcome # "refused", timed_out, "unset")!Answers,
             Exit(ExitCode(answer), answer)
      PROVE  Judged(outcome)
  <2>1. exit' = ExitCode(answer) /\ result' = answer
    BY <1>3 DEF Exit
  <2>2. /\ answer = "Ok" => outcome # "refused" /\ ~timed_out
        /\ answer = "Illegal" => outcome = "refused"
    BY <1>3 DEF CheckEvents!Answers, CheckEvents!Truth
  <2>3. /\ parse_s2_jsonl(file) # Panicked
        /\ assert_well_formed_events(parse_s2_jsonl(file))
        /\ outcome \in SearchOutcomes(convert_entries(renumber(parse_s2_jsonl(file))))
    BY <1>3 DEF Outcomes
  <2>4. Whole /\ parse_s2_jsonl(file) = parse_lines(file)
    BY <2>3 DEF parse_s2_jsonl, Whole
  <2>5. outcome \in {"refused", "panicked", "accepted"}
    BY <2>3 DEF SearchOutcomes
  <2>. QED BY <1>3, <2>1, <2>2, <2>3, <2>4, <2>5 DEF Judged, WellFormedFile, Searched
<1>. QED BY <1>1, <1>2, <1>3

-----------------------------------------------------------------------------
(* The stream and the model.  Tails are not bounded here.                  *)
Streams == [tail : Nat, xxh3 : Nat, fencing_token : Tokens \cup {None}]

Appends == [op : {"Append"}, num_records : 0..(U32 - 1), xxh3 : Nat,
            set_fencing_token : Tokens \cup {None}, fencing_token : Tokens \cup {None},
            match_seq_num : 0..(U32 - 1) \cup {None}]

(* An append that names a token, in a stream that has none.                *)
Unfounded(s, input) ==
  input.op = "Append" /\ input.fencing_token # None /\ s.fencing_token = None

(* A request is an append, a read or a check of the tail.                  *)
LEMMA InputKinds ==
  ASSUME NEW input \in S2Input
  PROVE  \/ input \in Appends /\ input.op = "Append"
         \/ input.op = "Read"
         \/ input.op = "CheckTail"
BY DEF S2Input, Appends, Read, CheckTail

(* An append moves the tail on and removes no token.                       *)
LEMMA OptimisticTyped ==
  ASSUME NEW s \in Streams, NEW input \in Appends
  PROVE  /\ Optimistic(s, input) \in Streams
         /\ Optimistic(s, input).tail = s.tail + input.num_records
         /\ s.tail + input.num_records \in Nat
         /\ s.fencing_token # None => Optimistic(s, input).fencing_token # None
<1>1. U32 \in Nat
  BY ServiceAssumption
<1>2. s.tail \in Nat /\ input.num_records \in Nat /\ s.fencing_token \in Tokens \cup {None}
      /\ input.xxh3 \in Nat /\ input.set_fencing_token \in Tokens \cup {None}
  BY <1>1 DEF Streams, Appends
<1>. QED BY <1>2 DEF Optimistic, Streams

(* Every answer of the stream is one that the model expects.               *)
LEMMA ServeIsStep ==
  ASSUME NEW s \in Streams, NEW input \in S2Input, NEW r \in Serve(s, input)
  PROVE  /\ r[1] \in S2Output /\ r[2] \in Streams
         /\ r = <<r[1], r[2]>>
         /\ r[2] \in Range(S2Step(s, input, r[1]))
         /\ s.fencing_token # None => r[2].fencing_token # None
<1>0. \A x : Range(<<x>>) = {x}
  BY ShortSequences
<1>00. \A x, y : x \in Range(<<x, y>>) /\ y \in Range(<<x, y>>)
  BY ShortSequences
<1>1. CASE input \in Appends /\ input.op = "Append"
  <2>. DEFINE o == Optimistic(s, input)
  <2>1. /\ o \in Streams /\ o.tail = s.tail + input.num_records
        /\ s.tail + input.num_records \in Nat
        /\ s.fencing_token # None => o.fencing_token # None
    BY <1>1, OptimisticTyped
  <2>2. S2Step(s, input, r[1]) = AppendStep(s, input, r[1])
    BY <1>1 DEF S2Step
  <2>. HIDE DEF o
  <2>3. CASE r = <<AppendDefiniteFailure, s>>
    <3>1. r[1] = AppendDefiniteFailure /\ r[2] = s
      BY <2>3
    <3>2. AppendStep(s, input, r[1]) = <<s>>
      BY <3>1 DEF AppendStep
    <3>3. r[1] \in S2Output
      BY <3>1 DEF S2Output, AppendDefiniteFailure
    <3>. QED BY <1>0, <2>2, <2>3, <3>1, <3>2, <3>3
  <2>4. CASE r = <<AppendIndefiniteFailure, s>>
    <3>1. r[1] = AppendIndefiniteFailure /\ r[2] = s /\ r[1] # AppendDefiniteFailure
      BY <2>4 DEF AppendIndefiniteFailure, AppendDefiniteFailure
    <3>2. AppendStep(s, input, r[1]) \in {<<o, s>>, <<s>>}
      BY <3>1 DEF AppendStep, o
    <3>3. r[1] \in S2Output
      BY <3>1 DEF S2Output, AppendIndefiniteFailure
    <3>. QED BY <1>0, <1>00, <2>2, <2>4, <3>1, <3>2, <3>3
  <2>5. CASE Admits(s, input) /\ r = <<AppendIndefiniteFailure, o>>
    <3>1. r[1] = AppendIndefiniteFailure /\ r[2] = o /\ r[1] # AppendDefiniteFailure
      BY <2>5 DEF AppendIndefiniteFailure, AppendDefiniteFailure
    <3>2. MayHaveAppended(s, input)
      BY <2>5 DEF Admits, MayHaveAppended, MatchesTail
    <3>3. AppendStep(s, input, r[1]) = <<o, s>>
      BY <3>1, <3>2 DEF AppendStep, o
    <3>4. r[1] \in S2Output
      BY <3>1 DEF S2Output, AppendIndefiniteFailure
    <3>. QED BY <1>00, <2>1, <2>2, <2>5, <3>1, <3>3, <3>4
  <2>6. CASE Admits(s, input) /\ r = <<AppendSuccess(s.tail + input.num_records), o>>
    <3>1. /\ r[1] = AppendSuccess(s.tail + input.num_records) /\ r[2] = o
          /\ r[1] # AppendDefiniteFailure /\ r[1] # AppendIndefiniteFailure
      BY <2>6 DEF AppendIndefiniteFailure, AppendDefiniteFailure, AppendSuccess
    <3>2. HasAppended(s, input)
      BY <2>6 DEF Admits, HasAppended, MatchesTail
    <3>3. AppendStep(s, input, r[1]) = <<o>>
      BY <2>1, <3>1, <3>2 DEF AppendStep, o
    <3>4. r[1] \in S2Output
      BY <2>1, <3>1 DEF S2Output, AppendSuccess
    <3>. QED BY <1>0, <2>1, <2>2, <2>6, <3>1, <3>3, <3>4
  <2>. QED BY <1>1, <2>3, <2>4, <2>5, <2>6 DEF Serve, o
<1>2. CASE input.op = "Read"
  <2>1. r \in { <<ReadSuccess(s.tail, s.xxh3), s>>, <<ReadFailure, s>> }
    BY <1>2 DEF Serve
  <2>2. r[1] \in {ReadSuccess(s.tail, s.xxh3), ReadFailure} /\ r[2] = s /\ r = <<r[1], r[2]>>
    BY <2>1
  <2>3. S2Step(s, input, r[1]) = <<s>>
    BY <1>2, <2>2 DEF S2Step, Kept
  <2>4. s.tail \in Nat /\ s.xxh3 \in Nat
    BY DEF Streams
  <2>5. r[1] \in S2Output
    BY <2>2, <2>4 DEF S2Output, ReadSuccess, ReadFailure
  <2>. QED BY <1>0, <2>2, <2>3, <2>5
<1>3. CASE input.op = "CheckTail"
  <2>1. r \in { <<CheckTailSuccess(s.tail), s>>, <<CheckTailFailure, s>> }
    BY <1>3 DEF Serve
  <2>2. r[1] \in {CheckTailSuccess(s.tail), CheckTailFailure} /\ r[2] = s /\ r = <<r[1], r[2]>>
    BY <2>1
  <2>3. S2Step(s, input, r[1]) = <<s>>
    BY <1>3, <2>2 DEF S2Step, Kept
  <2>4. s.tail \in Nat
    BY DEF Streams
  <2>5. r[1] \in S2Output
    BY <2>2, <2>4 DEF S2Output, CheckTailSuccess, CheckTailFailure
  <2>. QED BY <1>0, <2>2, <2>3, <2>5
<1>. QED BY <1>1, <1>2, <1>3, InputKinds

(* What an append leads to in the model, and what a read keeps.            *)
LEMMA StepCases ==
  ASSUME NEW s, NEW input \in S2Input, NEW o, NEW t \in Range(S2Step(s, input, o))
  PROVE  \/ /\ input \in Appends /\ input.op = "Append"
            /\ \/ o \in {AppendDefiniteFailure, AppendIndefiniteFailure} /\ t = s
               \/ /\ o = AppendIndefiniteFailure
                  /\ t = Optimistic(s, input) /\ MayHaveAppended(s, input)
               \/ /\ o = AppendSuccess(Optimistic(s, input).tail)
                  /\ t = Optimistic(s, input) /\ HasAppended(s, input)
         \/ /\ input.op = "Read" /\ t = s
            /\ o \in {ReadSuccess(s.tail, s.xxh3), ReadFailure}
         \/ /\ input.op = "CheckTail" /\ t = s
            /\ o \in {CheckTailSuccess(s.tail), CheckTailFailure}
<1>0. /\ \A x, y : y \in Range(<<x>>) => y = x
      /\ \A x, y, z : z \in Range(<<x, y>>) => z = x \/ z = y
      /\ \A x : x \notin Range(<<>>)
  BY DEF Range
<1>1. CASE input \in Appends /\ input.op = "Append"
  <2>1. S2Step(s, input, o) = AppendStep(s, input, o)
    BY <1>1 DEF S2Step
  <2>2. CASE o = AppendDefiniteFailure
    <3>1. AppendStep(s, input, o) = <<s>>
      BY <2>2 DEF AppendStep
    <3>. QED BY <1>0, <1>1, <2>1, <2>2, <3>1
  <2>3. CASE o = AppendIndefiniteFailure
    <3>1. o # AppendDefiniteFailure
      BY <2>3 DEF AppendIndefiniteFailure, AppendDefiniteFailure
    <3>2. AppendStep(s, input, o) =
            IF MayHaveAppended(s, input) THEN <<Optimistic(s, input), s>> ELSE <<s>>
      BY <2>3, <3>1 DEF AppendStep
    <3>. QED BY <1>0, <1>1, <2>1, <2>3, <3>2
  <2>4. CASE o \notin {AppendDefiniteFailure, AppendIndefiniteFailure}
    <3>1. AppendStep(s, input, o) =
            IF HasAppended(s, input) /\ o = AppendSuccess(Optimistic(s, input).tail)
            THEN <<Optimistic(s, input)>> ELSE <<>>
      BY <2>4 DEF AppendStep
    <3>. QED BY <1>0, <1>1, <2>1, <3>1
  <2>. QED BY <2>2, <2>3, <2>4
<1>2. CASE input.op = "Read"
  <2>1. S2Step(s, input, o) = Kept(s, {ReadSuccess(s.tail, s.xxh3), ReadFailure}, o)
    BY <1>2 DEF S2Step
  <2>. QED BY <1>0, <1>2, <2>1 DEF Kept
<1>3. CASE input.op = "CheckTail"
  <2>1. S2Step(s, input, o) = Kept(s, {CheckTailSuccess(s.tail), CheckTailFailure}, o)
    BY <1>3 DEF S2Step
  <2>. QED BY <1>0, <1>3, <2>1 DEF Kept
<1>. QED BY <1>1, <1>2, <1>3, InputKinds

(* The model keeps to the states of a stream, and removes no token.        *)
LEMMA StepTyped ==
  ASSUME NEW s \in Streams, NEW input \in S2Input, NEW o, NEW t \in Range(S2Step(s, input, o))
  PROVE  t \in Streams /\ (s.fencing_token # None => t.fencing_token # None)
<1>1. t = s \/ (input \in Appends /\ t = Optimistic(s, input))
  BY StepCases
<1>. QED BY <1>1, OptimisticTyped

(* What the model accepts a stream may have answered, but for appends that *)
(* name a token where there is none.                                       *)
LEMMA StepIsServe ==
  ASSUME NEW s \in Streams, NEW input \in S2Input, NEW o, NEW t \in Range(S2Step(s, input, o)),
         ~ Unfounded(s, input)
  PROVE  <<o, t>> \in Serve(s, input)
<1>1. CASE input \in Appends /\ input.op = "Append"
  <2>0. input.op # "Read" /\ input.op # "CheckTail"
    BY <1>1
  <2>1. Serve(s, input) =
          { <<AppendDefiniteFailure, s>>, <<AppendIndefiniteFailure, s>> }
          \cup { <<answer, Optimistic(s, input)>> :
                   answer \in IF Admits(s, input)
                              THEN { AppendSuccess(s.tail + input.num_records),
                                     AppendIndefiniteFailure }
                              ELSE {} }
    BY <1>1 DEF Serve
  <2>2. CASE o \in {AppendDefiniteFailure, AppendIndefiniteFailure} /\ t = s
    BY <2>1, <2>2
  <2>3. CASE /\ o = AppendIndefiniteFailure
             /\ t = Optimistic(s, input) /\ MayHaveAppended(s, input)
    <3>1. Admits(s, input)
      BY <1>1, <2>3 DEF Admits, MayHaveAppended, MatchesTail, Unfounded
    <3>. QED BY <2>1, <2>3, <3>1
  <2>4. CASE /\ o = AppendSuccess(Optimistic(s, input).tail)
             /\ t = Optimistic(s, input) /\ HasAppended(s, input)
    <3>1. Admits(s, input)
      BY <2>4 DEF Admits, HasAppended, MatchesTail
    <3>2. Optimistic(s, input).tail = s.tail + input.num_records
      BY DEF Optimistic
    <3>. QED BY <2>1, <2>4, <3>1, <3>2
  <2>. QED BY <2>0, <2>2, <2>3, <2>4, StepCases
<1>2. CASE input.op = "Read"
  <2>1. t = s /\ o \in {ReadSuccess(s.tail, s.xxh3), ReadFailure}
    BY <1>2, StepCases
  <2>. QED BY <1>2, <2>1 DEF Serve
<1>3. CASE input.op = "CheckTail"
  <2>1. t = s /\ o \in {CheckTailSuccess(s.tail), CheckTailFailure}
    BY <1>3, StepCases
  <2>. QED BY <1>3, <2>1 DEF Serve
<1>. QED BY <1>1, <1>2, <1>3, InputKinds

-----------------------------------------------------------------------------
(* The worlds that serving the pending requests leads to.                  *)
Worlds == [stream : Streams, reply : [Clients -> S2Output \cup {Idle}]]

(* In w the request of c is pending, and r is an answer to it.             *)
Servable(w, c, r) ==
  /\ pending[c] # Idle /\ w.reply[c] = Idle
  /\ r \in Serve(w.stream, pending[c].input)

WorldAfter(w, c, r) == [stream |-> r[2], reply |-> [w.reply EXCEPT ![c] = r[1]]]

NextWorld(w, v) ==
  \E c \in Clients : \E r \in Serve(w.stream, pending[c].input) :
    Servable(w, c, r) /\ v = WorldAfter(w, c, r)

(* Served, world by world.                                                 *)
LEMMA ServedIs ==
  ASSUME NEW W, NEW v
  PROVE  v \in Served(W) <=> v \in W \/ \E w \in W : NextWorld(w, v)
BY DEF Served, Servable, WorldAfter, NextWorld

(* Serving keeps the type of the worlds.                                   *)
LEMMA ServedTyped ==
  ASSUME FileInv, NEW W \in SUBSET Worlds
  PROVE  Served(W) \in SUBSET Worlds
<1>. SUFFICES ASSUME NEW v \in Served(W) PROVE v \in Worlds
  OBVIOUS
<1>1. CASE v \in W
  BY <1>1
<1>2. ASSUME NEW w \in W, NEW c \in Clients, NEW r \in Serve(w.stream, pending[c].input),
             Servable(w, c, r), v = WorldAfter(w, c, r)
      PROVE  v \in Worlds
  <2>1. w.stream \in Streams /\ w.reply \in [Clients -> S2Output \cup {Idle}]
    BY DEF Worlds
  <2>2. pending[c].input \in S2Input
    BY <1>2, InputsTyped DEF FileInv, Servable
  <2>3. r[1] \in S2Output /\ r[2] \in Streams
    BY <2>1, <2>2, ServeIsStep
  <2>. QED BY <1>2, <2>1, <2>3 DEF WorldAfter, Worlds
<1>. QED BY <1>1, <1>2, ServedIs DEF NextWorld

(* The worlds after each round of Reachable.                               *)
Rounds(f) ==
  /\ Cardinality(Clients) \in Nat
  /\ f \in [0..Cardinality(Clients) -> SUBSET Worlds]
  /\ f[0] = possible
  /\ \A n \in 1..Cardinality(Clients) : f[n] = Served(f[n - 1])
  /\ Reachable = f[Cardinality(Clients)]

(* They exist and end in what is reachable.                                *)
LEMMA ReachableInRounds ==
  ASSUME FileInv, possible \subseteq Worlds
  PROVE  \E f : Rounds(f)
<1>. DEFINE N    == Cardinality(Clients)
            S    == SUBSET Worlds
            next == [x \in (1..N) \X S |-> Served(x[2])]
<1>1. N \in Nat
  BY ServiceAssumption, FS_CardinalityType
<1>2. next \in [(1..N) \X S -> S]
  BY ServedTyped
<1>3. possible \in S
  OBVIOUS
<1>4. PICK f : IsCourse(f, N, S, possible, next)
  <2>. HIDE DEF next, N, S
  <2>. QED BY <1>1, <1>2, <1>3, Course
<1>5. ASSUME NEW n \in 1..N
      PROVE  f[n] = Served(f[n - 1])
  <2>1. n - 1 \in 0..N
    BY <1>1
  <2>2. f[n - 1] \in S
    BY <1>4, <2>1 DEF IsCourse
  <2>. QED BY <1>4, <2>2 DEF IsCourse
<1>. DEFINE loop(after) == [n \in 0..N |-> IF n = 0 THEN possible ELSE Served(after[n - 1])]
            after == CHOOSE after : after = loop(after)
<1>6. f = loop(f)
  <2>1. ASSUME NEW n \in 0..N PROVE f[n] = loop(f)[n]
    <3>1. CASE n = 0
      BY <1>4, <3>1 DEF IsCourse
    <3>2. CASE n # 0
      <4>1. n \in 1..N
        BY <1>1, <3>2
      <4>2. loop(f)[n] = Served(f[n - 1])
        BY <3>2
      <4>. QED BY <1>5, <4>1, <4>2, Zenon
    <3>. QED BY <3>1, <3>2
  <2>. HIDE DEF N, S, next
  <2>. QED BY <1>4, <2>1 DEF IsCourse
<1>7. after = loop(after)
  BY <1>6
<1>8. after = f
  <2>1. after = [n \in 0..N |-> after[n]] /\ after[0] = possible
    <3>1. ASSUME NEW g, g = loop(g) PROVE g = [n \in 0..N |-> g[n]] /\ g[0] = possible
      <4>1. loop(g) = [n \in 0..N |-> loop(g)[n]] /\ loop(g)[0] = possible
        BY <1>1
      <4>. HIDE DEF loop
      <4>. QED BY <3>1, <4>1
    <3>. HIDE DEF after, loop
    <3>. QED BY <1>7, <3>1
  <2>2. ASSUME NEW n \in 1..N, after[n - 1] \in S PROVE after[n] = next[<<n, after[n - 1]>>]
    <3>1. n \in 0..N /\ n # 0
      BY <1>1
    <3>2. after[n] = Served(after[n - 1])
      <4>1. loop(after)[n] = Served(after[n - 1])
        BY <3>1
      <4>. QED BY <1>7, <4>1, Zenon
    <3>. HIDE DEF after
    <3>. QED BY <2>2, <3>2
  <2>. HIDE DEF after, next, N, S
  <2>3. Follows(after, N, S, possible, next)
    BY <2>1, <2>2 DEF Follows
  <2>. QED BY <1>1, <1>4, <2>3, OneCourse
<1>9. Reachable = after[N]
  BY DEF Reachable
<1>. HIDE DEF after
<1>. QED BY <1>1, <1>4, <1>5, <1>8, <1>9 DEF IsCourse, Rounds

(* What holds of the possible worlds and is kept by serving a request      *)
(* holds of all that are reachable.                                        *)
LEMMA ReachableWithin ==
  ASSUME FileInv, possible \subseteq Worlds,
         NEW G \in SUBSET Worlds, possible \subseteq G,
         ASSUME NEW w \in G, NEW c \in Clients, NEW r, Servable(w, c, r)
         PROVE  WorldAfter(w, c, r) \in G
  PROVE  Reachable \subseteq G
<1>. DEFINE N == Cardinality(Clients)
<1>1. PICK f : Rounds(f)
  BY ReachableInRounds
<1>2. N \in Nat /\ f[0] = possible /\ Reachable = f[N]
      /\ \A n \in 1..N : f[n] = Served(f[n - 1])
  BY <1>1 DEF Rounds
<1>. HIDE DEF N
<1>. DEFINE D == { n \in 0..N : ~ (f[n] \subseteq G) }
<1>3. ASSUME D # {} PROVE FALSE
  <2>1. PICK m \in D : \A k \in D : ~ (k < m)
    <3>1. D \subseteq Nat
      OBVIOUS
    <3>. HIDE DEF D
    <3>. QED BY <1>3, <3>1, LeastNumber
  <2>2. m # 0 /\ m \in Nat
    BY <1>2
  <2>3. m \in 1..N /\ m - 1 \in 0..N /\ m - 1 < m
    BY <1>2, <2>2
  <2>4. f[m - 1] \subseteq G
    BY <2>1, <2>3
  <2>5. f[m] = Served(f[m - 1])
    BY <1>2, <2>3
  <2>6. ASSUME NEW v \in f[m] PROVE v \in G
    <3>1. CASE v \in f[m - 1]
      BY <2>4, <3>1
    <3>2. ASSUME NEW w \in f[m - 1], NEW c \in Clients, NEW r, Servable(w, c, r),
                 v = WorldAfter(w, c, r)
          PROVE  v \in G
      <4>1. w \in G
        BY <2>4
      <4>. QED BY <3>2, <4>1
    <3>. QED BY <2>5, <3>1, <3>2, ServedIs DEF NextWorld
  <2>. QED BY <2>1, <2>6
<1>4. N \in 0..N
  BY <1>2
<1>. QED BY <1>2, <1>3, <1>4

(* A chain of answers no longer than there are clients ends in a world     *)
(* that is reachable.                                                      *)
LEMMA ReachableByChain ==
  ASSUME FileInv, possible \subseteq Worlds,
         NEW m \in Nat, m <= Cardinality(Clients), NEW u, u[0] \in possible,
         ASSUME NEW k \in 1..m
         PROVE  NextWorld(u[k - 1], u[k])
  PROVE  u[m] \in Reachable
<1>. DEFINE N == Cardinality(Clients)
<1>1. PICK f : Rounds(f)
  BY ReachableInRounds
<1>2. N \in Nat /\ f[0] = possible /\ Reachable = f[N]
      /\ \A n \in 1..N : f[n] = Served(f[n - 1])
  BY <1>1 DEF Rounds
<1>3. m <= N
  OBVIOUS
<1>. HIDE DEF N
<1>. DEFINE at(n) == IF n <= m THEN n ELSE m
            D == { n \in 0..N : u[at(n)] \notin f[n] }
<1>4. ASSUME D # {} PROVE FALSE
  <2>1. PICK n \in D : \A k \in D : ~ (k < n)
    <3>1. D \subseteq Nat
      OBVIOUS
    <3>. HIDE DEF D
    <3>. QED BY <1>4, <3>1, LeastNumber
  <2>2. n # 0 /\ n \in Nat
    BY <1>2
  <2>3. n \in 1..N /\ n - 1 \in 0..N /\ n - 1 < n
    BY <1>2, <2>2
  <2>4. u[at(n - 1)] \in f[n - 1]
    BY <2>1, <2>3
  <2>5. f[n] = Served(f[n - 1])
    BY <1>2, <2>3
  <2>6. CASE n <= m
    <3>1. n \in 1..m /\ at(n) = n /\ at(n - 1) = n - 1
      BY <2>2, <2>6
    <3>. HIDE DEF at
    <3>2. NextWorld(u[n - 1], u[n])
      BY <3>1
    <3>3. u[n] \in Served(f[n - 1])
      BY <2>4, <3>1, <3>2, ServedIs DEF NextWorld
    <3>. QED BY <2>1, <2>5, <3>1, <3>3
  <2>7. CASE ~ (n <= m)
    <3>1. at(n) = at(n - 1)
      BY <2>2, <2>7
    <3>. HIDE DEF at
    <3>2. u[at(n)] \in Served(f[n - 1])
      BY <2>4, <3>1, ServedIs
    <3>. QED BY <2>1, <2>5, <3>2
  <2>. QED BY <2>6, <2>7
<1>5. N \in 0..N /\ at(N) = m
  BY <1>2, <1>3
<1>. HIDE DEF at
<1>. QED BY <1>2, <1>4, <1>5

-----------------------------------------------------------------------------
(* A run of the file: the requests answered in it, and those pending that  *)
(* `reply` answers, one after another through the model, in an order that  *)
(* respects real time.                                                     *)
Steps == [id : Nat, input : S2Input, output : S2Output]

FileBefore(i, j) ==
  \E p, q \in DOMAIN file :
    /\ p < q
    /\ file[p].event = "Finish" /\ file[p].op_id = i
    /\ file[q].event = "Start" /\ file[q].op_id = j

RunTyped(n, ops, at) == n \in Nat /\ ops \in [1..n -> Steps] /\ at \in [0..n -> Streams]

RunSteps(n, ops, at) ==
  /\ at[0] = S2Init[1]
  /\ \A k \in 1..n : at[k] \in Range(S2Step(at[k - 1], ops[k].input, ops[k].output))

RunOrdered(n, ops) ==
  \A j, k \in 1..n : j < k => ops[j].id # ops[k].id /\ ~ FileBefore(ops[k].id, ops[j].id)

RunAsked(n, ops) ==
  \A k \in 1..n : \E p \in DOMAIN file : file[p] = Start(ops[k].id, ops[k].input)

FileAnswers(op) == \E q \in DOMAIN file : file[q] = Finish(op.id, op.output)

ReplyAnswers(c, reply, op) ==
  pending[c] # Idle /\ pending[c].op_id = op.id /\ reply[c] = op.output

RunAnswered(reply, n, ops) ==
  \A k \in 1..n : FileAnswers(ops[k]) \/ \E c \in Clients : ReplyAnswers(c, reply, ops[k])

Finished(i) == \E q \in DOMAIN file : file[q].event = "Finish" /\ file[q].op_id = i

RunComplete(reply, n, ops) ==
  /\ \A i : Finished(i) => \E k \in 1..n : ops[k].id = i
  /\ \A c \in Clients : reply[c] # Idle =>
       pending[c] # Idle /\ \E k \in 1..n : ops[k].id = pending[c].op_id

Run(reply, n, ops, at) ==
  /\ RunTyped(n, ops, at)
  /\ RunSteps(n, ops, at)
  /\ RunOrdered(n, ops)
  /\ RunAsked(n, ops)
  /\ RunAnswered(reply, n, ops)
  /\ RunComplete(reply, n, ops)

HasRun(w) == \E n, ops, at : Run(w.reply, n, ops, at) /\ at[n] = w.stream

(* Every possible world has a run.                                         *)
Sound == \A w \in possible : HasRun(w)

(* What is pending has a line that asks and none that answers.             *)
LEMMA NotFinished ==
  ASSUME FileInv, NEW c \in Clients, pending[c] # Idle
  PROVE  /\ pending[c].op_id \in Nat /\ pending[c].input \in Inputs
         /\ pending[c].input \in S2Input
         /\ \E p \in DOMAIN file : file[p] = Start(pending[c].op_id, pending[c].input)
         /\ ~ Finished(pending[c].op_id)
         /\ \A j : ~ FileBefore(pending[c].op_id, j)
         /\ \A o : ~ FileAnswers([id |-> pending[c].op_id, input |-> pending[c].input, output |-> o])
         /\ \A op : op.id = pending[c].op_id => ~ FileAnswers(op)
         /\ \A d \in Clients : pending[d] # Idle /\ pending[d].op_id = pending[c].op_id => d = c
<1>1. pending[c].op_id \in Nat /\ pending[c].input \in Inputs /\ pending[c].input \in S2Input
  BY InputsTyped DEF FileInv
<1>2. /\ \E p \in DOMAIN file : file[p] = Start(pending[c].op_id, pending[c].input)
      /\ \A q \in DOMAIN file : file[q].event = "Finish" => file[q].op_id # pending[c].op_id
      /\ \A d \in Clients : pending[d] # Idle /\ pending[d].op_id = pending[c].op_id => d = c
  BY DEF FileInv, PendingAsked
<1>3. ~ Finished(pending[c].op_id) /\ \A j : ~ FileBefore(pending[c].op_id, j)
  BY <1>2 DEF Finished, FileBefore
<1>4. ASSUME NEW op, op.id = pending[c].op_id PROVE ~ FileAnswers(op)
  BY <1>2, <1>4 DEF FileAnswers, Finish
<1>. QED BY <1>1, <1>2, <1>3, <1>4

(* Serving one request more.                                               *)
LEMMA RunExtends ==
  ASSUME FileInv, NEW w \in Worlds, HasRun(w), NEW c \in Clients, NEW r, Servable(w, c, r)
  PROVE  HasRun(WorldAfter(w, c, r))
<1>1. PICK n, ops, at : Run(w.reply, n, ops, at) /\ at[n] = w.stream
  BY DEF HasRun
<1>. DEFINE op    == [id |-> pending[c].op_id, input |-> pending[c].input, output |-> r[1]]
            m     == n + 1
            ops1  == [k \in 1..m |-> IF k = m THEN op ELSE ops[k]]
            at1   == [k \in 0..m |-> IF k = m THEN r[2] ELSE at[k]]
            reply == [w.reply EXCEPT ![c] = r[1]]
<1>2. /\ n \in Nat /\ m \in Nat /\ ops \in [1..n -> Steps] /\ at \in [0..n -> Streams]
      /\ pending[c] # Idle /\ w.reply[c] = Idle /\ w.stream \in Streams
      /\ w.reply \in [Clients -> S2Output \cup {Idle}]
      /\ r \in Serve(w.stream, pending[c].input)
      /\ Idle \notin S2Output
  BY <1>1, ServiceAssumption DEF Run, RunTyped, Servable, Worlds
<1>3. /\ r[1] \in S2Output /\ r[2] \in Streams
      /\ r[2] \in Range(S2Step(w.stream, pending[c].input, r[1]))
  BY <1>2, NotFinished, ServeIsStep
<1>4. /\ op \in Steps /\ op.id = pending[c].op_id /\ op.input = pending[c].input
      /\ op.output = r[1]
  BY <1>2, <1>3, NotFinished DEF Steps
<1>. HIDE DEF op
<1>5. /\ ops1 \in [1..m -> Steps] /\ ops1[m] = op /\ \A k \in 1..n : ops1[k] = ops[k]
      /\ at1 \in [0..m -> Streams] /\ at1[m] = r[2] /\ \A k \in 0..n : at1[k] = at[k]
      /\ m \in 1..m /\ \A k \in 1..m : k # m => k \in 1..n
  BY <1>2, <1>3, <1>4
<1>6. /\ reply \in [Clients -> S2Output \cup {Idle}] /\ reply[c] = r[1]
      /\ \A d \in Clients : d # c => reply[d] = w.reply[d]
      /\ WorldAfter(w, c, r).reply = reply /\ WorldAfter(w, c, r).stream = r[2]
  BY <1>2, <1>3 DEF WorldAfter
<1>. HIDE DEF ops1, at1, reply
<1>7. RunTyped(m, ops1, at1)
  BY <1>2, <1>5 DEF RunTyped
<1>8. RunSteps(m, ops1, at1)
  <2>1. at1[0] = S2Init[1]
    BY <1>1, <1>2, <1>5 DEF Run, RunSteps
  <2>2. ASSUME NEW k \in 1..m
        PROVE  at1[k] \in Range(S2Step(at1[k - 1], ops1[k].input, ops1[k].output))
    <3>1. CASE k = m
      <4>1. k - 1 = n /\ n \in 0..n
        BY <1>2, <3>1
      <4>2. at1[k - 1] = w.stream
        BY <1>1, <1>5, <4>1
      <4>. QED BY <1>3, <1>4, <1>5, <3>1, <4>2
    <3>2. CASE k # m
      <4>1. k \in 1..n /\ k \in 0..n /\ k - 1 \in 0..n
        BY <1>2, <1>5, <3>2
      <4>2. at[k] \in Range(S2Step(at[k - 1], ops[k].input, ops[k].output))
        BY <1>1, <4>1 DEF Run, RunSteps
      <4>. QED BY <1>5, <4>1, <4>2
    <3>. QED BY <3>1, <3>2
  <2>. QED BY <2>1, <2>2 DEF RunSteps
<1>9. ASSUME NEW j \in 1..n PROVE ops[j].id # op.id
  <2>. SUFFICES ASSUME ops[j].id = op.id PROVE FALSE
    OBVIOUS
  <2>1. ~ FileAnswers(ops[j])
    BY <1>2, <1>4, NotFinished
  <2>2. PICK d \in Clients : ReplyAnswers(d, w.reply, ops[j])
    BY <1>1, <2>1 DEF Run, RunAnswered
  <2>3. d = c
    BY <1>2, <1>4, <2>2, NotFinished DEF ReplyAnswers
  <2>4. ops[j].output = Idle /\ ops[j].output \in S2Output
    BY <1>2, <2>2, <2>3 DEF ReplyAnswers, Steps
  <2>. QED BY <1>2, <2>4
<1>10. RunOrdered(m, ops1)
  <2>. SUFFICES ASSUME NEW j \in 1..m, NEW k \in 1..m, j < k
       PROVE  ops1[j].id # ops1[k].id /\ ~ FileBefore(ops1[k].id, ops1[j].id)
    BY DEF RunOrdered
  <2>1. j \in 1..n
    BY <1>2
  <2>2. CASE k = m
    <3>1. ~ FileBefore(op.id, ops1[j].id)
      BY <1>2, <1>4, NotFinished
    <3>. QED BY <1>5, <1>9, <2>1, <2>2, <3>1
  <2>3. CASE k # m
    <3>1. k \in 1..n
      BY <1>5, <2>3
    <3>. QED BY <1>1, <1>5, <2>1, <3>1 DEF Run, RunOrdered
  <2>. QED BY <2>2, <2>3
<1>11. RunAsked(m, ops1)
  <2>. SUFFICES ASSUME NEW k \in 1..m
       PROVE  \E p \in DOMAIN file : file[p] = Start(ops1[k].id, ops1[k].input)
    BY DEF RunAsked
  <2>1. CASE k = m
    BY <1>2, <1>4, <1>5, <2>1, NotFinished
  <2>2. CASE k # m
    BY <1>1, <1>5, <2>2 DEF Run, RunAsked
  <2>. QED BY <2>1, <2>2
<1>12. RunAnswered(reply, m, ops1)
  <2>. SUFFICES ASSUME NEW k \in 1..m
       PROVE  FileAnswers(ops1[k]) \/ \E d \in Clients : ReplyAnswers(d, reply, ops1[k])
    BY DEF RunAnswered
  <2>1. CASE k = m
    <3>1. ReplyAnswers(c, reply, ops1[k])
      BY <1>2, <1>4, <1>5, <1>6, <2>1 DEF ReplyAnswers
    <3>. QED BY <3>1
  <2>2. CASE k # m
    <3>1. k \in 1..n /\ ops1[k] = ops[k]
      BY <1>5, <2>2
    <3>2. CASE FileAnswers(ops[k])
      BY <3>1, <3>2
    <3>3. ASSUME NEW d \in Clients, ReplyAnswers(d, w.reply, ops[k])
          PROVE  ReplyAnswers(d, reply, ops[k])
      <4>1. ops[k].output \in S2Output
        BY <1>2, <3>1 DEF Steps
      <4>2. d # c
        BY <1>2, <3>3, <4>1 DEF ReplyAnswers
      <4>. QED BY <1>6, <3>3, <4>2 DEF ReplyAnswers
    <3>. QED BY <1>1, <3>1, <3>2, <3>3 DEF Run, RunAnswered
  <2>. QED BY <2>1, <2>2
<1>13. RunComplete(reply, m, ops1)
  <2>1. ASSUME NEW i, Finished(i) PROVE \E k \in 1..m : ops1[k].id = i
    <3>1. PICK k \in 1..n : ops[k].id = i
      BY <1>1, <2>1 DEF Run, RunComplete
    <3>2. k \in 1..m
      BY <1>2
    <3>. QED BY <1>5, <3>1, <3>2
  <2>2. ASSUME NEW d \in Clients, reply[d] # Idle
        PROVE  pending[d] # Idle /\ \E k \in 1..m : ops1[k].id = pending[d].op_id
    <3>1. CASE d = c
      BY <1>2, <1>4, <1>5, <3>1
    <3>2. CASE d # c
      <4>1. pending[d] # Idle /\ \E k \in 1..n : ops[k].id = pending[d].op_id
        BY <1>1, <1>6, <2>2, <3>2 DEF Run, RunComplete
      <4>2. 1..n \subseteq 1..m
        BY <1>2
      <4>. QED BY <1>5, <4>1, <4>2
    <3>. QED BY <3>1, <3>2
  <2>. QED BY <2>1, <2>2 DEF RunComplete
<1>14. Run(reply, m, ops1, at1) /\ at1[m] = r[2]
  BY <1>5, <1>7, <1>8, <1>10, <1>11, <1>12, <1>13 DEF Run
<1>. QED BY <1>6, <1>14 DEF HasRun

(* So every world that is reachable has one.                               *)
LEMMA ReachableSound ==
  ASSUME FileInv, possible \subseteq Worlds, Sound
  PROVE  /\ Reachable \subseteq Worlds
         /\ \A w \in Reachable : HasRun(w)
<1>. DEFINE G == { w \in Worlds : HasRun(w) }
<1>1. possible \subseteq G /\ G \in SUBSET Worlds
  BY DEF Sound
<1>2. ASSUME NEW w \in G, NEW c \in Clients, NEW r, Servable(w, c, r)
      PROVE  WorldAfter(w, c, r) \in G
  <2>1. w \in Worlds /\ HasRun(w)
    OBVIOUS
  <2>2. HasRun(WorldAfter(w, c, r))
    BY <1>2, <2>1, RunExtends
  <2>3. WorldAfter(w, c, r) \in Worlds
    <3>1. r \in Serve(w.stream, pending[c].input)
      BY <1>2 DEF Servable
    <3>2. NextWorld(w, WorldAfter(w, c, r))
      BY <1>2, <3>1 DEF NextWorld
    <3>3. WorldAfter(w, c, r) \in Served({w})
      BY <3>2, ServedIs
    <3>. QED BY <2>1, <3>3, ServedTyped
  <2>. QED BY <2>2, <2>3
<1>3. Reachable \subseteq G
  <2>. HIDE DEF G
  <2>. QED BY <1>1, <1>2, ReachableWithin
<1>. QED BY <1>3

-----------------------------------------------------------------------------
(* The stream that nothing was asked of.                                   *)
LEMMA InitTyped == S2Init[1] \in Streams /\ S2Init \in Seq(Streams) /\ Range(S2Init) = {S2Init[1]}
<1>1. S2Init[1] \in Streams /\ S2Init = <<S2Init[1]>>
  BY DEF S2Init, Streams
<1>2. \A x : Range(<<x>>) = {x}
  BY ShortSequences
<1>3. S2Init \in Seq(Streams)
  <2>1. \A x \in Streams : <<x>> \in Seq(Streams)
    OBVIOUS
  <2>. QED BY <1>1, <2>1
<1>4. Range(S2Init) = {S2Init[1]}
  <2>. DEFINE x == S2Init[1]
  <2>1. S2Init = <<x>>
    BY <1>1
  <2>. HIDE DEF x
  <2>. QED BY <1>2, <2>1
<1>. QED BY <1>1, <1>3, <1>4

(* Before anything is asked.                                               *)
LEMMA SoundInit ==
  ASSUME WorldInit
  PROVE  possible \subseteq Worlds /\ Sound
<1>. DEFINE reply == [c \in Clients |-> Idle]
            w     == [stream |-> S2Init[1], reply |-> reply]
            ops   == [k \in 1..0 |-> Start(0, 0)]
            at    == [k \in 0..0 |-> S2Init[1]]
<1>1. /\ file = <<>> /\ DOMAIN file = {} /\ possible = {w}
      /\ \A c \in Clients : pending[c] = Idle /\ reply[c] = Idle
  BY DEF WorldInit
<1>2. w \in Worlds /\ w.stream = S2Init[1] /\ w.reply = reply
  BY InitTyped DEF Worlds
<1>3. RunTyped(0, ops, at)
  <2>1. ops \in [1..0 -> Steps]
    OBVIOUS
  <2>2. at \in [0..0 -> Streams]
    BY InitTyped
  <2>. QED BY <2>1, <2>2 DEF RunTyped
<1>4. RunSteps(0, ops, at) /\ at[0] = w.stream
  BY <1>2 DEF RunSteps
<1>. HIDE DEF reply, ops, at, w
<1>5. RunOrdered(0, ops) /\ RunAsked(0, ops) /\ RunAnswered(reply, 0, ops)
  BY DEF RunOrdered, RunAsked, RunAnswered
<1>6. RunComplete(reply, 0, ops)
  BY <1>1 DEF RunComplete, Finished
<1>7. HasRun(w)
  BY <1>2, <1>3, <1>4, <1>5, <1>6 DEF HasRun, Run
<1>. QED BY <1>1, <1>2, <1>7 DEF Sound

(* What a line that is asked for adds to the file.                         *)
LEMMA AskAdds ==
  ASSUME FileInv, NEW c \in Clients, NEW request \in Requests, Ask(c, request)
  PROVE  /\ Asked + 1 \in Nat
         /\ pending[c] = Idle
         /\ pending' = [pending EXCEPT ![c] =
                          [op_id |-> Asked + 1, input |-> Labelled(request, Asked + 1)]]
         /\ \A d \in Clients : d # c => pending'[d] = pending[d]
         /\ pending'[c].op_id = Asked + 1
         /\ possible' = possible
         /\ \A p \in DOMAIN file : file[p].op_id # Asked + 1
         /\ \A i : Finished(i)' <=> Finished(i)
         /\ \A op : FileAnswers(op)' <=> FileAnswers(op)
         /\ \A i, v : (\E p \in DOMAIN file' : file'[p] = Start(i, v))
              <=> \/ i = Asked + 1 /\ v = Labelled(request, Asked + 1)
                  \/ \E p \in DOMAIN file : file[p] = Start(i, v)
         /\ \A i, j : FileBefore(i, j)' <=>
              FileBefore(i, j) \/ (Finished(i) /\ j = Asked + 1)
<1>. DEFINE id    == Asked + 1
            input == Labelled(request, id)
            line  == Start(id, input)
            n     == Len(file) + 1
<1>1. /\ Asked \in Nat /\ pending[c] = Idle /\ possible' = possible
      /\ file' = Append(file, line)
      /\ pending' = [pending EXCEPT ![c] = [op_id |-> id, input |-> input]]
  BY DEF Ask, FileInv, IdsAsked
<1>2. id \in Nat /\ \A p \in DOMAIN file : file[p].op_id # id
  <2>1. ASSUME NEW p \in DOMAIN file PROVE file[p].op_id \in Nat /\ file[p].op_id <= Asked
    BY DEF FileInv, IdsAsked, Lines
  <2>. QED BY <1>1, <2>1
<1>3. /\ \A d \in Clients : d # c => pending'[d] = pending[d]
      /\ pending'[c].op_id = id
  BY <1>1 DEF FileInv
<1>. HIDE DEF input, id
<1>4. /\ line.op_id = id /\ line.event = "Start" /\ line.value = input
      /\ \A i, v : line = Start(i, v) <=> i = id /\ v = input
      /\ \A i, o : line # Finish(i, o)
  BY DEF Start, Finish
<1>5. /\ DOMAIN file' = DOMAIN file \cup {n} /\ n \notin DOMAIN file
      /\ file'[n] = line /\ \A p \in DOMAIN file : file'[p] = file[p] /\ p < n /\ ~ (n < p)
  <2>. HIDE DEF line
  <2>1. file' = Append(file, line)
    BY <1>1 DEF line
  <2>2. /\ DOMAIN file' = DOMAIN file \cup {n} /\ n \notin DOMAIN file
        /\ file'[n] = line /\ \A p \in DOMAIN file : file'[p] = file[p] /\ p < n
        /\ Len(file) \in Nat /\ DOMAIN file = 1..Len(file)
    BY <2>1, OneMore DEF FileInv
  <2>. QED BY <2>2
<1>. HIDE DEF line
<1>6. n \in Nat
  BY DEF FileInv
<1>. HIDE DEF n
<1>7. \A i : Finished(i)' <=> Finished(i)
  BY <1>4, <1>5 DEF Finished
<1>8. \A op : FileAnswers(op)' <=> FileAnswers(op)
  BY <1>4, <1>5 DEF FileAnswers
<1>9. \A i, v : (\E p \in DOMAIN file' : file'[p] = Start(i, v))
        <=> (i = id /\ v = input) \/ \E p \in DOMAIN file : file[p] = Start(i, v)
  BY <1>4, <1>5
<1>10. \A i, j : FileBefore(i, j)' <=> FileBefore(i, j) \/ (Finished(i) /\ j = id)
  <2>. TAKE i, j
  <2>1. ASSUME FileBefore(i, j)' PROVE FileBefore(i, j) \/ (Finished(i) /\ j = id)
    <3>1. PICK p, q \in DOMAIN file' :
            /\ p < q
            /\ file'[p].event = "Finish" /\ file'[p].op_id = i
            /\ file'[q].event = "Start" /\ file'[q].op_id = j
      BY <2>1 DEF FileBefore
    <3>2. p \in DOMAIN file /\ file[p].event = "Finish" /\ file[p].op_id = i
      BY <1>4, <1>5, <3>1
    <3>3. CASE q = n
      BY <1>4, <1>5, <3>1, <3>2, <3>3 DEF Finished
    <3>4. CASE q # n
      BY <1>5, <3>1, <3>2, <3>4 DEF FileBefore
    <3>. QED BY <3>3, <3>4
  <2>2. ASSUME FileBefore(i, j) PROVE FileBefore(i, j)'
    BY <1>5, <2>2 DEF FileBefore
  <2>3. ASSUME Finished(i), j = id PROVE FileBefore(i, j)'
    BY <1>4, <1>5, <2>3 DEF FileBefore, Finished
  <2>. QED BY <2>1, <2>2, <2>3
<1>. QED BY <1>1, <1>2, <1>3, <1>7, <1>8, <1>9, <1>10 DEF id, input

(* A request takes nothing from a run.                                     *)
LEMMA SoundAsk ==
  ASSUME FileInv, possible \subseteq Worlds, Sound,
         NEW c \in Clients, NEW request \in Requests, Ask(c, request)
  PROVE  Sound'
<1>. SUFFICES ASSUME NEW w \in possible' PROVE HasRun(w)'
  BY DEF Sound
<1>1. w \in possible /\ w.reply \in [Clients -> S2Output \cup {Idle}]
  BY AskAdds DEF Worlds
<1>2. PICK n, ops, at : Run(w.reply, n, ops, at) /\ at[n] = w.stream
  BY <1>1 DEF Sound, HasRun
<1>. DEFINE reply == w.reply
<1>3. /\ RunTyped(n, ops, at) /\ RunSteps(n, ops, at) /\ RunOrdered(n, ops)
      /\ RunAsked(n, ops) /\ RunAnswered(reply, n, ops) /\ RunComplete(reply, n, ops)
  BY <1>2 DEF Run
<1>4. reply[c] = Idle /\ pending[c] = Idle
  BY <1>3, AskAdds DEF RunComplete
<1>5. \A k \in 1..n : ops[k].id # Asked + 1
  <2>. SUFFICES ASSUME NEW k \in 1..n PROVE ops[k].id # Asked + 1
    OBVIOUS
  <2>1. PICK p \in DOMAIN file : file[p] = Start(ops[k].id, ops[k].input)
    BY <1>3 DEF RunAsked
  <2>2. file[p].op_id = ops[k].id
    BY <2>1 DEF Start
  <2>. QED BY <2>2, AskAdds
<1>. HIDE DEF reply
<1>6. RunOrdered(n, ops)'
  BY <1>3, <1>5, AskAdds DEF RunOrdered
<1>7. RunAsked(n, ops)'
  BY <1>3, AskAdds DEF RunAsked
<1>8. RunAnswered(reply, n, ops)'
  <2>. SUFFICES ASSUME NEW k \in 1..n
       PROVE  FileAnswers(ops[k])' \/ \E d \in Clients : ReplyAnswers(d, reply, ops[k])'
    BY DEF RunAnswered, reply
  <2>1. CASE FileAnswers(ops[k])
    BY <2>1, AskAdds
  <2>2. ASSUME NEW d \in Clients, ReplyAnswers(d, reply, ops[k])
        PROVE  ReplyAnswers(d, reply, ops[k])'
    <3>1. d # c
      BY <1>4, <2>2 DEF ReplyAnswers
    <3>2. pending'[d] = pending[d]
      BY <3>1, AskAdds
    <3>. QED BY <2>2, <3>2 DEF ReplyAnswers, reply
  <2>. QED BY <1>3, <2>1, <2>2 DEF RunAnswered
<1>9. RunComplete(reply, n, ops)'
  <2>1. ASSUME NEW i, Finished(i)' PROVE \E k \in 1..n : ops[k].id = i
    <3>1. Finished(i)
      BY <2>1, AskAdds
    <3>. QED BY <1>3, <3>1 DEF RunComplete
  <2>2. ASSUME NEW d \in Clients, reply[d] # Idle
        PROVE  pending'[d] # Idle /\ \E k \in 1..n : ops[k].id = pending'[d].op_id
    <3>1. d # c
      BY <1>4, <2>2
    <3>2. pending'[d] = pending[d]
      BY <3>1, AskAdds
    <3>. QED BY <1>3, <2>2, <3>2 DEF RunComplete
  <2>. QED BY <2>1, <2>2 DEF RunComplete, reply
<1>10. Run(reply, n, ops, at)'
  BY <1>3, <1>6, <1>7, <1>8, <1>9 DEF Run, RunTyped, RunSteps, reply
<1>. QED BY <1>2, <1>10 DEF HasRun, reply

(* What an answer adds to the file.                                        *)
LEMMA ReplyAdds ==
  ASSUME FileInv, NEW c \in Clients, NEW output, Reply(c, output)
  PROVE  /\ pending[c] # Idle /\ output \in S2Output /\ pending'[c] = Idle
         /\ \A d \in Clients : d # c => pending'[d] = pending[d]
         /\ possible' = { [w EXCEPT !.reply[c] = Idle] : w \in { v \in Reachable : v.reply[c] = output } }
         /\ \A i : Finished(i)' <=> Finished(i) \/ i = pending[c].op_id
         /\ \A op : FileAnswers(op)' <=>
              FileAnswers(op) \/ (op.id = pending[c].op_id /\ op.output = output)
         /\ \A i, v : (\E p \in DOMAIN file' : file'[p] = Start(i, v))
              <=> \E p \in DOMAIN file : file[p] = Start(i, v)
         /\ \A i, j : FileBefore(i, j)' <=> FileBefore(i, j)
<1>. DEFINE id   == pending[c].op_id
            line == Finish(id, output)
            n    == Len(file) + 1
<1>1. /\ pending[c] # Idle /\ file' = Append(file, line)
      /\ pending' = [pending EXCEPT ![c] = Idle]
      /\ possible' = { [w EXCEPT !.reply[c] = Idle] : w \in { v \in Reachable : v.reply[c] = output } }
  BY DEF Reply, Answered
<1>2. output \in S2Output
  <2>1. pending[c].input \in Inputs
    BY <1>1, NotFinished
  <2>. QED BY <2>1, ServiceAssumption DEF Reply
<1>3. pending'[c] = Idle /\ \A d \in Clients : d # c => pending'[d] = pending[d]
  BY <1>1 DEF FileInv
<1>. HIDE DEF id
<1>4. /\ line.op_id = id /\ line.event = "Finish"
      /\ \A i, o : line = Finish(i, o) <=> i = id /\ o = output
      /\ \A i, v : line # Start(i, v)
  BY DEF Start, Finish
<1>. HIDE DEF line
<1>5. /\ DOMAIN file' = DOMAIN file \cup {n} /\ n \notin DOMAIN file
      /\ file'[n] = line /\ \A p \in DOMAIN file : file'[p] = file[p] /\ p < n /\ ~ (n < p)
  <2>1. /\ DOMAIN file' = DOMAIN file \cup {n} /\ n \notin DOMAIN file
        /\ file'[n] = line /\ \A p \in DOMAIN file : file'[p] = file[p] /\ p < n
        /\ Len(file) \in Nat /\ DOMAIN file = 1..Len(file)
    BY <1>1, OneMore DEF FileInv
  <2>. QED BY <2>1
<1>6. n \in Nat /\ ~ (n < n)
  BY DEF FileInv
<1>. HIDE DEF n
<1>7. \A i : Finished(i)' <=> Finished(i) \/ i = id
  BY <1>4, <1>5 DEF Finished
<1>8. \A op : FileAnswers(op)' <=> FileAnswers(op) \/ (op.id = id /\ op.output = output)
  BY <1>4, <1>5 DEF FileAnswers
<1>9. \A i, v : (\E p \in DOMAIN file' : file'[p] = Start(i, v))
        <=> \E p \in DOMAIN file : file[p] = Start(i, v)
  BY <1>4, <1>5
<1>10. \A i, j : FileBefore(i, j)' <=> FileBefore(i, j)
  <2>. TAKE i, j
  <2>1. ASSUME FileBefore(i, j)' PROVE FileBefore(i, j)
    <3>1. PICK p, q \in DOMAIN file' :
            /\ p < q
            /\ file'[p].event = "Finish" /\ file'[p].op_id = i
            /\ file'[q].event = "Start" /\ file'[q].op_id = j
      BY <2>1 DEF FileBefore
    <3>2. q \in DOMAIN file /\ file[q].event = "Start" /\ file[q].op_id = j
      BY <1>4, <1>5, <3>1
    <3>3. p # n
      BY <1>5, <3>1, <3>2
    <3>. QED BY <1>5, <3>1, <3>2, <3>3 DEF FileBefore
  <2>2. ASSUME FileBefore(i, j) PROVE FileBefore(i, j)'
    BY <1>5, <2>2 DEF FileBefore
  <2>. QED BY <2>1, <2>2
<1>. QED BY <1>1, <1>2, <1>3, <1>7, <1>8, <1>9, <1>10 DEF id

(* What an answer leaves possible.                                         *)
LEMMA PossibleTyped ==
  ASSUME FileInv, possible \subseteq Worlds, Sound,
         NEW c \in Clients, NEW output, Reply(c, output), NEW v \in possible'
  PROVE  /\ v \in Worlds
         /\ \E w \in Reachable :
              /\ w \in Worlds /\ HasRun(w) /\ w.reply[c] = output
              /\ v.stream = w.stream /\ v.reply = [w.reply EXCEPT ![c] = Idle]
<1>1. PICK w \in Reachable : w.reply[c] = output /\ v = [w EXCEPT !.reply[c] = Idle]
  BY ReplyAdds
<1>2. w \in Worlds /\ HasRun(w)
  BY ReachableSound
<1>3. v.stream = w.stream /\ v.reply = [w.reply EXCEPT ![c] = Idle] /\ v \in Worlds
  BY <1>1, <1>2 DEF Worlds
<1>. QED BY <1>1, <1>2, <1>3

(* An answer that is recorded is one that a run has given.                 *)
LEMMA SoundReply ==
  ASSUME FileInv, possible \subseteq Worlds, Sound,
         NEW c \in Clients, NEW output, Reply(c, output)
  PROVE  Sound'
<1>. SUFFICES ASSUME NEW v \in possible' PROVE HasRun(v)'
  BY DEF Sound
<1>1. PICK w \in Reachable :
        /\ w \in Worlds /\ HasRun(w) /\ w.reply[c] = output
        /\ v.stream = w.stream /\ v.reply = [w.reply EXCEPT ![c] = Idle]
  BY PossibleTyped
<1>2. PICK n, ops, at : Run(w.reply, n, ops, at) /\ at[n] = w.stream
  BY <1>1 DEF HasRun
<1>3. /\ RunTyped(n, ops, at) /\ RunSteps(n, ops, at) /\ RunOrdered(n, ops)
      /\ RunAsked(n, ops) /\ RunAnswered(w.reply, n, ops) /\ RunComplete(w.reply, n, ops)
  BY <1>2 DEF Run
<1>. DEFINE reply == v.reply
<1>4. reply[c] = Idle /\ \A d \in Clients : d # c => reply[d] = w.reply[d]
  BY <1>1 DEF Worlds
<1>5. pending[c] # Idle /\ output \in S2Output /\ Idle \notin S2Output
  BY ReplyAdds, ServiceAssumption
<1>. HIDE DEF reply
<1>6. RunOrdered(n, ops)'
  BY <1>3, ReplyAdds DEF RunOrdered
<1>7. RunAsked(n, ops)'
  BY <1>3, ReplyAdds DEF RunAsked
<1>8. RunAnswered(reply, n, ops)'
  <2>. SUFFICES ASSUME NEW k \in 1..n
       PROVE  FileAnswers(ops[k])' \/ \E d \in Clients : ReplyAnswers(d, reply, ops[k])'
    BY DEF RunAnswered, reply
  <2>1. CASE FileAnswers(ops[k])
    BY <2>1, ReplyAdds
  <2>2. ASSUME NEW d \in Clients, ReplyAnswers(d, w.reply, ops[k])
        PROVE  FileAnswers(ops[k])' \/ ReplyAnswers(d, reply, ops[k])'
    <3>1. CASE d = c
      <4>1. ops[k].id = pending[c].op_id /\ ops[k].output = output
        BY <1>1, <2>2, <3>1 DEF ReplyAnswers
      <4>. QED BY <4>1, ReplyAdds
    <3>2. CASE d # c
      <4>1. pending'[d] = pending[d] /\ reply[d] = w.reply[d]
        BY <1>4, <3>2, ReplyAdds
      <4>. QED BY <2>2, <4>1 DEF ReplyAnswers, reply
    <3>. QED BY <3>1, <3>2
  <2>. QED BY <1>3, <2>1, <2>2 DEF RunAnswered
<1>9. RunComplete(reply, n, ops)'
  <2>1. ASSUME NEW i, Finished(i)' PROVE \E k \in 1..n : ops[k].id = i
    <3>1. CASE Finished(i)
      BY <1>3, <3>1 DEF RunComplete
    <3>2. CASE i = pending[c].op_id
      BY <1>1, <1>3, <1>5, <3>2 DEF RunComplete
    <3>. QED BY <2>1, <3>1, <3>2, ReplyAdds
  <2>2. ASSUME NEW d \in Clients, reply[d] # Idle
        PROVE  pending'[d] # Idle /\ \E k \in 1..n : ops[k].id = pending'[d].op_id
    <3>1. d # c /\ w.reply[d] # Idle
      BY <1>4, <2>2
    <3>2. pending'[d] = pending[d]
      BY <3>1, ReplyAdds
    <3>. QED BY <1>3, <3>1, <3>2 DEF RunComplete
  <2>. QED BY <2>1, <2>2 DEF RunComplete, reply
<1>10. Run(reply, n, ops, at)'
  BY <1>3, <1>6, <1>7, <1>8, <1>9 DEF Run, RunTyped, RunSteps, reply
<1>. QED BY <1>1, <1>2, <1>10 DEF HasRun, reply

-----------------------------------------------------------------------------
(* No request that is pending names a token that a possible stream lacks.  *)
TokensKnown ==
  \A c \in Clients : pending[c] # Idle =>
    \A w \in possible : ~ Unfounded(w.stream, pending[c].input)

(* The world of every run whose last request is answered is possible.      *)
Complete ==
  \A reply \in [Clients -> S2Output \cup {Idle}] : \A n, ops, at :
    /\ Run(reply, n, ops, at)
    /\ n = 0 \/ Finished(ops[n].id)
    => [stream |-> at[n], reply |-> reply] \in possible

(* A disciplined client names a token only where one is known.             *)
LEMMA TokensAsk ==
  ASSUME FileInv, Disciplined, TokensKnown,
         NEW c \in Clients, NEW request \in Requests, Ask(c, request)
  PROVE  TokensKnown'
<1>. SUFFICES ASSUME NEW d \in Clients, pending'[d] # Idle, NEW w \in possible'
     PROVE  ~ Unfounded(w.stream, pending'[d].input)
  BY DEF TokensKnown
<1>1. w \in possible
  BY AskAdds
<1>2. CASE d = c
  <2>. DEFINE input == Labelled(request, Asked + 1)
  <2>1. pending'[d].input = input
    BY <1>2, AskAdds DEF FileInv
  <2>2. request.op = "Append" => request.fencing_token = None \/ w.stream.fencing_token # None
    BY <1>1 DEF Ask
  <2>3. input.op = "Append" => request.op = "Append" /\ input.fencing_token = request.fencing_token
    <3>1. request \in S2Input
      BY ServiceAssumption
    <3>2. CASE request.op = "Append"
      <4>1. request \in Appends
        BY <3>1, <3>2, InputKinds
      <4>. QED BY <3>2, <4>1 DEF Labelled, Appends
    <3>3. CASE request.op # "Append"
      BY <3>3 DEF Labelled
    <3>. QED BY <3>2, <3>3
  <2>. HIDE DEF input
  <2>. QED BY <2>1, <2>2, <2>3 DEF Unfounded
<1>3. CASE d # c
  <2>1. pending'[d] = pending[d]
    BY <1>3, AskAdds
  <2>. QED BY <1>1, <2>1 DEF TokensKnown
<1>. QED BY <1>2, <1>3

(* No request takes the token of a stream away before it is served.        *)
LEMMA ReachableTokens ==
  ASSUME FileInv, possible \subseteq Worlds, TokensKnown,
         NEW d \in Clients, pending[d] # Idle, NEW v \in Reachable
  PROVE  ~ Unfounded(v.stream, pending[d].input)
<1>. DEFINE G == { w \in Worlds : ~ Unfounded(w.stream, pending[d].input) }
<1>1. possible \subseteq G /\ G \in SUBSET Worlds
  BY DEF TokensKnown
<1>2. ASSUME NEW w \in G, NEW c \in Clients, NEW r, Servable(w, c, r)
      PROVE  WorldAfter(w, c, r) \in G
  <2>1. w \in Worlds /\ w.stream \in Streams /\ ~ Unfounded(w.stream, pending[d].input)
    BY DEF Worlds
  <2>2. r \in Serve(w.stream, pending[c].input) /\ pending[c].input \in S2Input
    BY <1>2, NotFinished DEF Servable
  <2>3. w.stream.fencing_token # None => r[2].fencing_token # None
    BY <2>1, <2>2, ServeIsStep
  <2>4. ~ Unfounded(r[2], pending[d].input)
    BY <2>1, <2>3 DEF Unfounded
  <2>5. WorldAfter(w, c, r) \in Worlds
    <3>1. NextWorld(w, WorldAfter(w, c, r))
      BY <1>2, <2>2 DEF NextWorld
    <3>2. WorldAfter(w, c, r) \in Served({w})
      BY <3>1, ServedIs
    <3>. QED BY <2>1, <3>2, ServedTyped
  <2>6. WorldAfter(w, c, r).stream = r[2]
    BY DEF WorldAfter
  <2>. QED BY <2>4, <2>5, <2>6
<1>3. Reachable \subseteq G
  <2>. HIDE DEF G
  <2>. QED BY <1>1, <1>2, ReachableWithin
<1>. QED BY <1>3

(* Nor does an answer that is recorded.                                    *)
LEMMA TokensReply ==
  ASSUME FileInv, possible \subseteq Worlds, Sound, TokensKnown,
         NEW c \in Clients, NEW output, Reply(c, output)
  PROVE  TokensKnown'
<1>. SUFFICES ASSUME NEW d \in Clients, pending'[d] # Idle, NEW v \in possible'
     PROVE  ~ Unfounded(v.stream, pending'[d].input)
  BY DEF TokensKnown
<1>1. pending'[d] = pending[d]
  BY ReplyAdds
<1>2. PICK w \in Reachable : v.stream = w.stream
  BY PossibleTyped
<1>. QED BY <1>1, <1>2, ReachableTokens

(* A stream that has a token keeps one.                                    *)
LEMMA TokenStays ==
  ASSUME NEW n, NEW ops, NEW at, RunTyped(n, ops, at), RunSteps(n, ops, at),
         NEW m \in 0..n, at[m].fencing_token # None, NEW x \in m..n
  PROVE  at[x].fencing_token # None
<1>. DEFINE D == { k \in m..n : at[k].fencing_token = None }
<1>0. n \in Nat /\ m \in Nat
  BY DEF RunTyped
<1>1. ASSUME D # {} PROVE FALSE
  <2>1. PICK k \in D : \A j \in D : ~ (j < k)
    <3>1. D \subseteq Nat
      BY <1>0
    <3>. HIDE DEF D
    <3>. QED BY <1>1, <3>1, LeastNumber
  <2>2. k # m
    OBVIOUS
  <2>3. k \in 1..n /\ k - 1 \in m..n /\ k - 1 \in 0..n /\ k - 1 < k
    BY <1>0, <2>2
  <2>4. at[k - 1].fencing_token # None
    BY <2>1, <2>3
  <2>5. /\ at[k - 1] \in Streams /\ ops[k].input \in S2Input
        /\ at[k] \in Range(S2Step(at[k - 1], ops[k].input, ops[k].output))
    BY <2>3 DEF RunTyped, RunSteps, Steps
  <2>6. at[k].fencing_token # None
    BY <2>4, <2>5, StepTyped
  <2>. QED BY <2>6
<1>. QED BY <1>1

(* The last request of a run that is answered in the file.                 *)
LEMMA LastFinished ==
  ASSUME NEW n \in Nat, NEW ops
  PROVE  \E m \in 0..n :
           /\ m = 0 \/ Finished(ops[m].id)
           /\ \A k \in 1..n : Finished(ops[k].id) => k <= m
<1>. DEFINE D == { x \in 0..n : n - x = 0 \/ Finished(ops[n - x].id) }
<1>1. n \in D /\ D \subseteq Nat
  OBVIOUS
<1>2. PICK x \in D : \A y \in D : ~ (y < x)
  <2>. HIDE DEF D
  <2>. QED BY <1>1, LeastNumber
<1>3. n - x \in 0..n /\ (n - x = 0 \/ Finished(ops[n - x].id))
  OBVIOUS
<1>4. ASSUME NEW k \in 1..n, Finished(ops[k].id) PROVE k <= n - x
  <2>1. n - k \in 0..n /\ n - (n - k) = k
    OBVIOUS
  <2>2. n - k \in D
    BY <1>4, <2>1
  <2>3. ~ (n - k < x) /\ x \in Nat
    BY <1>2, <2>2
  <2>. QED BY <2>3
<1>. QED BY <1>3, <1>4

(* The answers to the requests pending that the first k of a run hold.     *)
RepliesUpTo(reply, ops, k) ==
  [d \in Clients |->
     IF pending[d] # Idle /\ \E j \in 1..k : ops[j].id = pending[d].op_id
     THEN reply[d] ELSE Idle]

(* A run up to its last request that is answered in the file is a run.     *)
LEMMA RunPrefix ==
  ASSUME FileInv, NEW reply \in [Clients -> S2Output \cup {Idle}],
         NEW n, NEW ops, NEW at, Run(reply, n, ops, at),
         NEW m \in 0..n, \A k \in 1..n : Finished(ops[k].id) => k <= m
  PROVE  /\ RepliesUpTo(reply, ops, m) \in [Clients -> S2Output \cup {Idle}]
         /\ \E ops1, at1 :
              /\ Run(RepliesUpTo(reply, ops, m), m, ops1, at1)
              /\ at1[m] = at[m] /\ \A k \in 1..m : ops1[k] = ops[k]
<1>. DEFINE ops1   == [k \in 1..m |-> ops[k]]
            at1    == [k \in 0..m |-> at[k]]
            reply1 == RepliesUpTo(reply, ops, m)
<1>1. /\ n \in Nat /\ m \in Nat /\ 1..m \subseteq 1..n /\ 0..m \subseteq 0..n /\ m \in 0..m
      /\ ops \in [1..n -> Steps] /\ at \in [0..n -> Streams]
  BY DEF Run, RunTyped
<1>2. /\ ops1 \in [1..m -> Steps] /\ at1 \in [0..m -> Streams]
      /\ \A k \in 1..m : ops1[k] = ops[k]
      /\ \A k \in 0..m : at1[k] = at[k]
  BY <1>1
<1>3. /\ reply1 \in [Clients -> S2Output \cup {Idle}]
      /\ \A d \in Clients : reply1[d] # Idle =>
           pending[d] # Idle /\ \E j \in 1..m : ops[j].id = pending[d].op_id
      /\ \A d \in Clients, j \in 1..m :
           pending[d] # Idle /\ ops[j].id = pending[d].op_id => reply1[d] = reply[d]
  BY DEF RepliesUpTo
<1>. HIDE DEF ops1, at1, reply1
<1>4. RunTyped(m, ops1, at1)
  BY <1>1, <1>2 DEF RunTyped
<1>5. RunSteps(m, ops1, at1)
  <2>1. at1[0] = S2Init[1]
    BY <1>1, <1>2 DEF Run, RunSteps
  <2>2. ASSUME NEW k \in 1..m
        PROVE  at1[k] \in Range(S2Step(at1[k - 1], ops1[k].input, ops1[k].output))
    <3>1. k \in 1..n /\ k \in 0..m /\ k - 1 \in 0..m
      BY <1>1
    <3>2. at[k] \in Range(S2Step(at[k - 1], ops[k].input, ops[k].output))
      BY <3>1 DEF Run, RunSteps
    <3>. QED BY <1>2, <3>1, <3>2
  <2>. QED BY <2>1, <2>2 DEF RunSteps
<1>6. RunOrdered(m, ops1)
  BY <1>1, <1>2 DEF Run, RunOrdered
<1>7. RunAsked(m, ops1)
  BY <1>1, <1>2 DEF Run, RunAsked
<1>8. RunAnswered(reply1, m, ops1)
  <2>. SUFFICES ASSUME NEW k \in 1..m, ~ FileAnswers(ops1[k])
       PROVE  \E c \in Clients : ReplyAnswers(c, reply1, ops1[k])
    BY DEF RunAnswered
  <2>1. PICK c \in Clients : ReplyAnswers(c, reply, ops[k])
    BY <1>1, <1>2 DEF Run, RunAnswered
  <2>. QED BY <1>2, <1>3, <2>1 DEF ReplyAnswers
<1>9. RunComplete(reply1, m, ops1)
  <2>1. ASSUME NEW i, Finished(i) PROVE \E k \in 1..m : ops1[k].id = i
    <3>1. PICK k \in 1..n : ops[k].id = i
      BY <2>1 DEF Run, RunComplete
    <3>2. k <= m
      BY <2>1, <3>1
    <3>3. k \in 1..m
      BY <1>1, <3>2
    <3>. QED BY <1>2, <3>1, <3>3
  <2>2. ASSUME NEW d \in Clients, reply1[d] # Idle
        PROVE  pending[d] # Idle /\ \E k \in 1..m : ops1[k].id = pending[d].op_id
    BY <1>2, <1>3, <2>2
  <2>. QED BY <2>1, <2>2 DEF RunComplete
<1>10. Run(reply1, m, ops1, at1)
  BY <1>4, <1>5, <1>6, <1>7, <1>8, <1>9 DEF Run
<1>. QED BY <1>1, <1>2, <1>3, <1>10 DEF reply1

(* An answer to a client is one to what the client has asked.              *)
LEMMA PendingInput ==
  ASSUME FileInv, NEW n, NEW ops, RunAsked(n, ops), NEW x \in 1..n, NEW reply,
         NEW c \in Clients, ReplyAnswers(c, reply, ops[x])
  PROVE  pending[c].input = ops[x].input
<1>1. PICK p \in DOMAIN file : file[p] = Start(ops[x].id, ops[x].input)
  BY DEF RunAsked
<1>2. pending[c] # Idle /\ pending[c].op_id = ops[x].id
  BY DEF ReplyAnswers
<1>3. PICK q \in DOMAIN file : file[q] = Start(pending[c].op_id, pending[c].input)
  BY <1>2, NotFinished
<1>4. /\ file[p].event = file[q].event /\ file[p].op_id = file[q].op_id
      /\ file[p].value = ops[x].input /\ file[q].value = pending[c].input
  BY <1>1, <1>2, <1>3 DEF Start
<1>5. p = q
  BY <1>4 DEF FileInv, OneLineEach
<1>. QED BY <1>4, <1>5

(* Past it, every request is one that is pending, and serving it leads to  *)
(* the next world of the run.                                              *)
LEMMA RunGoesOn ==
  ASSUME FileInv, NEW reply \in [Clients -> S2Output \cup {Idle}],
         NEW n, NEW ops, NEW at, Run(reply, n, ops, at),
         NEW x \in 1..n, ~ Finished(ops[x].id),
         ~ Unfounded(at[x - 1], ops[x].input)
  PROVE  \E c \in Clients :
           /\ ReplyAnswers(c, reply, ops[x])
           /\ NextWorld([stream |-> at[x - 1], reply |-> RepliesUpTo(reply, ops, x - 1)],
                        [stream |-> at[x],     reply |-> RepliesUpTo(reply, ops, x)])
<1>1. /\ n \in Nat /\ x \in Nat /\ x - 1 \in 0..n /\ x \in 0..n
      /\ ops[x] \in Steps /\ at[x - 1] \in Streams
      /\ at[x] \in Range(S2Step(at[x - 1], ops[x].input, ops[x].output))
  <2>1. n \in Nat /\ x \in Nat /\ x - 1 \in 0..n /\ x \in 0..n
    BY DEF Run, RunTyped
  <2>. QED BY <2>1 DEF Run, RunTyped, RunSteps
<1>2. ~ FileAnswers(ops[x])
  BY DEF FileAnswers, Finished, Finish
<1>3. PICK c \in Clients : ReplyAnswers(c, reply, ops[x])
  BY <1>2 DEF Run, RunAnswered
<1>4. pending[c] # Idle /\ pending[c].op_id = ops[x].id /\ reply[c] = ops[x].output
  BY <1>3 DEF ReplyAnswers
<1>5. pending[c].input = ops[x].input
  BY <1>3, PendingInput DEF Run
<1>. DEFINE before == RepliesUpTo(reply, ops, x - 1)
            after  == RepliesUpTo(reply, ops, x)
            w      == [stream |-> at[x - 1], reply |-> before]
            r      == <<ops[x].output, at[x]>>
<1>6. r \in Serve(at[x - 1], pending[c].input)
  BY <1>1, <1>5, StepIsServe DEF Steps
<1>7. before[c] = Idle
  <2>1. ASSUME NEW j \in 1..(x - 1) PROVE ops[j].id # pending[c].op_id
    <3>1. j \in 1..n /\ j < x
      BY <1>1
    <3>. QED BY <1>4, <3>1 DEF Run, RunOrdered
  <2>. QED BY <2>1 DEF RepliesUpTo
<1>8. after = [before EXCEPT ![c] = ops[x].output]
  <2>1. after[c] = ops[x].output
    <3>1. x \in 1..x
      BY <1>1
    <3>. QED BY <1>4, <3>1 DEF RepliesUpTo
  <2>2. ASSUME NEW d \in Clients, d # c PROVE after[d] = before[d]
    <3>1. pending[d] # Idle => pending[d].op_id # ops[x].id
      BY <1>4, <2>2, NotFinished
    <3>2. \A j \in 1..x : j # x => j \in 1..(x - 1)
      BY <1>1
    <3>3. \A j \in 1..(x - 1) : j \in 1..x
      BY <1>1
    <3>. QED BY <3>1, <3>2, <3>3 DEF RepliesUpTo
  <2>. QED BY <2>1, <2>2 DEF RepliesUpTo
<1>. HIDE DEF before, after
<1>9. /\ w.stream = at[x - 1] /\ w.reply = before /\ r[1] = ops[x].output /\ r[2] = at[x]
  OBVIOUS
<1>. HIDE DEF w, r
<1>10. Servable(w, c, r)
  BY <1>4, <1>6, <1>7, <1>9 DEF Servable
<1>11. WorldAfter(w, c, r) = [stream |-> at[x], reply |-> after]
  BY <1>8, <1>9 DEF WorldAfter
<1>12. NextWorld(w, [stream |-> at[x], reply |-> after])
  BY <1>6, <1>9, <1>10, <1>11 DEF NextWorld
<1>. QED BY <1>3, <1>12 DEF w, before, after

-----------------------------------------------------------------------------
(* The world of every run is reachable.                                    *)
LEMMA ReachableComplete ==
  ASSUME FileInv, possible \subseteq Worlds, TokensKnown, Complete,
         NEW reply \in [Clients -> S2Output \cup {Idle}],
         NEW n, NEW ops, NEW at, Run(reply, n, ops, at)
  PROVE  [stream |-> at[n], reply |-> reply] \in Reachable
<1>1. n \in Nat /\ ops \in [1..n -> Steps] /\ at \in [0..n -> Streams]
      /\ RunTyped(n, ops, at) /\ RunSteps(n, ops, at)
  BY DEF Run, RunTyped
<1>2. PICK m \in 0..n :
        /\ m = 0 \/ Finished(ops[m].id)
        /\ \A k \in 1..n : Finished(ops[k].id) => k <= m
  BY <1>1, LastFinished
<1>. DEFINE World(k) == [stream |-> at[k], reply |-> RepliesUpTo(reply, ops, k)]
            u        == [k \in 0..(n - m) |-> World(m + k)]
<1>3. n - m \in Nat /\ m \in Nat
  BY <1>1
<1>4. World(m) \in possible
  <2>1. PICK ops1, at1 :
          /\ Run(RepliesUpTo(reply, ops, m), m, ops1, at1)
          /\ at1[m] = at[m] /\ \A k \in 1..m : ops1[k] = ops[k]
    BY <1>2, RunPrefix
  <2>2. RepliesUpTo(reply, ops, m) \in [Clients -> S2Output \cup {Idle}]
    BY <1>2, RunPrefix
  <2>3. m = 0 \/ Finished(ops1[m].id)
    <3>1. CASE m # 0
      <4>1. m \in 1..m
        BY <1>3, <3>1
      <4>. QED BY <1>2, <2>1, <3>1, <4>1
    <3>. QED BY <3>1
  <2>. QED BY <2>1, <2>2, <2>3 DEF Complete
<1>5. ASSUME NEW k \in 1..(n - m)
      PROVE  \E c \in Clients :
               ReplyAnswers(c, reply, ops[m + k]) /\ NextWorld(World(m + k - 1), World(m + k))
  <2>. DEFINE x == m + k
  <2>1. x \in 1..n /\ x - 1 \in m..n /\ x - 1 \in 0..n /\ ~ (x <= m) /\ x \in Nat
    BY <1>1, <1>3
  <2>. HIDE DEF x
  <2>2. ~ Finished(ops[x].id)
    BY <1>2, <2>1
  <2>3. ~ Unfounded(at[x - 1], ops[x].input)
    <3>1. ~ FileAnswers(ops[x])
      BY <2>2 DEF FileAnswers, Finished, Finish
    <3>2. PICK c \in Clients : ReplyAnswers(c, reply, ops[x])
      BY <2>1, <3>1 DEF Run, RunAnswered
    <3>3. pending[c] # Idle
      BY <3>2 DEF ReplyAnswers
    <3>4. pending[c].input = ops[x].input
      BY <2>1, <3>2, PendingInput DEF Run
    <3>5. ~ Unfounded(at[m], ops[x].input)
      <4>1. ~ Unfounded(World(m).stream, pending[c].input)
        BY <1>4, <3>3 DEF TokensKnown
      <4>. QED BY <3>4, <4>1
    <3>6. at[m].fencing_token # None => at[x - 1].fencing_token # None
      BY <1>1, <2>1, TokenStays
    <3>. QED BY <3>5, <3>6 DEF Unfounded
  <2>4. \E c \in Clients : ReplyAnswers(c, reply, ops[x]) /\ NextWorld(World(x - 1), World(x))
    BY <2>1, <2>2, <2>3, RunGoesOn
  <2>. QED BY <2>4 DEF x
<1>6. n - m <= Cardinality(Clients)
  <2>. DEFINE g == [k \in 1..(n - m) |-> CHOOSE c \in Clients : ReplyAnswers(c, reply, ops[m + k])]
  <2>. HIDE DEF World
  <2>1. ASSUME NEW k \in 1..(n - m)
        PROVE  g[k] \in Clients /\ ReplyAnswers(g[k], reply, ops[m + k])
    BY <1>5
  <2>2. ASSUME NEW j \in 1..(n - m), NEW k \in 1..(n - m), g[j] = g[k] PROVE j = k
    <3>1. ops[m + j].id = ops[m + k].id
      BY <2>1, <2>2 DEF ReplyAnswers
    <3>2. m + j \in 1..n /\ m + k \in 1..n
      BY <1>1, <1>3
    <3>3. ~ (m + j < m + k) /\ ~ (m + k < m + j)
      BY <3>1, <3>2 DEF Run, RunOrdered
    <3>. QED BY <1>3, <3>3
  <2>3. g \in [1..(n - m) -> Clients]
    BY <2>1
  <2>. HIDE DEF g
  <2>4. g \in Injection(1..(n - m), Clients)
    BY <2>2, <2>3 DEF Injection, IsInjective
  <2>5. IsFiniteSet(Clients)
    BY ServiceAssumption
  <2>6. Cardinality(1..(n - m)) <= Cardinality(Clients)
    BY <2>4, <2>5, FS_Injection
  <2>7. Cardinality(1..(n - m)) = n - m
    BY <1>3, FS_Interval
  <2>. QED BY <2>6, <2>7
<1>7. u[0] \in possible
  BY <1>3, <1>4
<1>8. ASSUME NEW k \in 1..(n - m) PROVE NextWorld(u[k - 1], u[k])
  <2>1. k - 1 \in 0..(n - m) /\ k \in 0..(n - m) /\ m + (k - 1) = m + k - 1
    BY <1>3
  <2>2. u[k - 1] = World(m + k - 1) /\ u[k] = World(m + k)
    BY <2>1
  <2>. HIDE DEF u, World
  <2>. QED BY <1>5, <2>2
<1>9. u[n - m] \in Reachable
  <2>. HIDE DEF u
  <2>. QED BY <1>3, <1>6, <1>7, <1>8, ReachableByChain
<1>10. u[n - m] = World(n)
  <2>1. n - m \in 0..(n - m) /\ m + (n - m) = n
    BY <1>1, <1>3
  <2>. QED BY <2>1
<1>11. RepliesUpTo(reply, ops, n) = reply
  <2>1. ASSUME NEW d \in Clients PROVE RepliesUpTo(reply, ops, n)[d] = reply[d]
    BY DEF RepliesUpTo, Run, RunComplete
  <2>. QED BY <2>1 DEF RepliesUpTo
<1>. HIDE DEF u
<1>. QED BY <1>9, <1>10, <1>11

(* Before anything is asked only the empty run ends in an answer.          *)
LEMMA CompleteInit ==
  ASSUME WorldInit
  PROVE  Complete
<1>. SUFFICES ASSUME NEW reply \in [Clients -> S2Output \cup {Idle}], NEW n, NEW ops, NEW at,
                     Run(reply, n, ops, at)
     PROVE  [stream |-> at[n], reply |-> reply] \in possible
  BY DEF Complete
<1>1. /\ DOMAIN file = {} /\ \A c \in Clients : pending[c] = Idle
      /\ possible = { [stream |-> S2Init[1], reply |-> [c \in Clients |-> Idle]] }
  BY DEF WorldInit
<1>2. n \in Nat /\ \A k \in 1..n : FALSE
  BY <1>1 DEF Run, RunTyped, RunAsked
<1>3. n = 0
  BY <1>2
<1>4. at[n] = S2Init[1]
  BY <1>3 DEF Run, RunSteps
<1>5. \A c \in Clients : reply[c] = Idle
  BY <1>1 DEF Run, RunComplete
<1>6. reply = [c \in Clients |-> Idle]
  BY <1>5
<1>. QED BY <1>1, <1>4, <1>6

(* A request that is not answered yet ends no such run.                    *)
LEMMA CompleteAsk ==
  ASSUME FileInv, Complete, NEW c \in Clients, NEW request \in Requests, Ask(c, request)
  PROVE  Complete'
<1>. SUFFICES ASSUME NEW reply \in [Clients -> S2Output \cup {Idle}], NEW n, NEW ops, NEW at,
                     Run(reply, n, ops, at)', n = 0 \/ Finished(ops[n].id)'
     PROVE  [stream |-> at[n], reply |-> reply] \in possible'
  BY DEF Complete
<1>1. /\ RunTyped(n, ops, at) /\ RunSteps(n, ops, at) /\ RunOrdered(n, ops)'
      /\ RunAsked(n, ops)' /\ RunAnswered(reply, n, ops)' /\ RunComplete(reply, n, ops)'
  BY DEF Run, RunTyped, RunSteps
<1>2. n = 0 \/ Finished(ops[n].id)
  BY AskAdds
<1>3. n \in Nat
  BY <1>1 DEF RunTyped
<1>4. ~ Finished(Asked + 1)
  BY AskAdds DEF Finished
<1>5. ASSUME NEW k \in 1..n PROVE ops[k].id # Asked + 1
  <2>. SUFFICES ASSUME ops[k].id = Asked + 1 PROVE FALSE
    OBVIOUS
  <2>1. n # 0 /\ n \in 1..n /\ Finished(ops[n].id)
    BY <1>2, <1>3
  <2>2. k # n
    BY <1>4, <2>1
  <2>3. k < n
    BY <1>3, <2>2
  <2>4. ~ FileBefore(ops[n].id, ops[k].id)'
    BY <1>1, <2>1, <2>3 DEF RunOrdered
  <2>. QED BY <2>1, <2>4, AskAdds
<1>6. RunOrdered(n, ops)
  BY <1>1, AskAdds DEF RunOrdered
<1>7. RunAsked(n, ops)
  BY <1>1, <1>5, AskAdds DEF RunAsked
<1>8. reply[c] = Idle
  <2>. SUFFICES ASSUME reply[c] # Idle PROVE FALSE
    OBVIOUS
  <2>1. PICK k \in 1..n : ops[k].id = pending'[c].op_id
    BY <1>1 DEF RunComplete
  <2>. QED BY <1>5, <2>1, AskAdds
<1>9. RunAnswered(reply, n, ops)
  <2>. SUFFICES ASSUME NEW k \in 1..n
       PROVE  FileAnswers(ops[k]) \/ \E d \in Clients : ReplyAnswers(d, reply, ops[k])
    BY DEF RunAnswered
  <2>1. CASE FileAnswers(ops[k])'
    BY <2>1, AskAdds
  <2>2. ASSUME NEW d \in Clients, ReplyAnswers(d, reply, ops[k])'
        PROVE  ReplyAnswers(d, reply, ops[k])
    <3>1. d # c
      BY <1>5, <2>2, AskAdds DEF ReplyAnswers
    <3>2. pending'[d] = pending[d]
      BY <3>1, AskAdds
    <3>. QED BY <2>2, <3>2 DEF ReplyAnswers
  <2>. QED BY <1>1, <2>1, <2>2 DEF RunAnswered
<1>10. RunComplete(reply, n, ops)
  <2>1. ASSUME NEW i, Finished(i) PROVE \E k \in 1..n : ops[k].id = i
    <3>1. Finished(i)'
      BY <2>1, AskAdds
    <3>. QED BY <1>1, <3>1 DEF RunComplete
  <2>2. ASSUME NEW d \in Clients, reply[d] # Idle
        PROVE  pending[d] # Idle /\ \E k \in 1..n : ops[k].id = pending[d].op_id
    <3>1. d # c
      BY <1>8, <2>2
    <3>2. pending'[d] = pending[d]
      BY <3>1, AskAdds
    <3>. QED BY <1>1, <2>2, <3>2 DEF RunComplete
  <2>. QED BY <2>1, <2>2 DEF RunComplete
<1>11. Run(reply, n, ops, at)
  BY <1>1, <1>6, <1>7, <1>9, <1>10 DEF Run
<1>12. [stream |-> at[n], reply |-> reply] \in possible
  BY <1>2, <1>11 DEF Complete
<1>. QED BY <1>12, AskAdds

(* What was pending in a run and is answered now was reachable.            *)
LEMMA CompleteReply ==
  ASSUME FileInv, possible \subseteq Worlds, TokensKnown, Complete,
         NEW c \in Clients, NEW output, Reply(c, output)
  PROVE  Complete'
<1>. SUFFICES ASSUME NEW reply \in [Clients -> S2Output \cup {Idle}], NEW n, NEW ops, NEW at,
                     Run(reply, n, ops, at)'
     PROVE  [stream |-> at[n], reply |-> reply] \in possible'
  BY DEF Complete
<1>1. /\ RunTyped(n, ops, at) /\ RunSteps(n, ops, at) /\ RunOrdered(n, ops)'
      /\ RunAsked(n, ops)' /\ RunAnswered(reply, n, ops)' /\ RunComplete(reply, n, ops)'
  BY DEF Run, RunTyped, RunSteps
<1>2. pending[c] # Idle /\ output \in S2Output /\ pending'[c] = Idle
  BY ReplyAdds
<1>3. reply[c] = Idle
  BY <1>1, <1>2 DEF RunComplete
<1>. DEFINE reply0 == [reply EXCEPT ![c] = output]
<1>4. /\ reply0 \in [Clients -> S2Output \cup {Idle}] /\ reply0[c] = output
      /\ \A d \in Clients : d # c => reply0[d] = reply[d]
      /\ reply = [reply0 EXCEPT ![c] = Idle]
  <2>1. /\ reply0 \in [Clients -> S2Output \cup {Idle}] /\ reply0[c] = output
        /\ \A d \in Clients : d # c => reply0[d] = reply[d]
    BY <1>2
  <2>2. \A d \in Clients : reply[d] = [reply0 EXCEPT ![c] = Idle][d]
    BY <1>3, <2>1
  <2>. HIDE DEF reply0
  <2>. QED BY <2>1, <2>2
<1>. HIDE DEF reply0
<1>5. RunOrdered(n, ops)
  BY <1>1, ReplyAdds DEF RunOrdered
<1>6. RunAsked(n, ops)
  BY <1>1, ReplyAdds DEF RunAsked
<1>7. RunAnswered(reply0, n, ops)
  <2>. SUFFICES ASSUME NEW k \in 1..n
       PROVE  FileAnswers(ops[k]) \/ \E d \in Clients : ReplyAnswers(d, reply0, ops[k])
    BY DEF RunAnswered
  <2>1. CASE FileAnswers(ops[k])'
    <3>1. CASE FileAnswers(ops[k])
      BY <3>1
    <3>2. CASE ops[k].id = pending[c].op_id /\ ops[k].output = output
      BY <1>2, <1>4, <3>2 DEF ReplyAnswers
    <3>. QED BY <2>1, <3>1, <3>2, ReplyAdds
  <2>2. ASSUME NEW d \in Clients, ReplyAnswers(d, reply, ops[k])'
        PROVE  ReplyAnswers(d, reply0, ops[k])
    <3>1. d # c
      BY <1>2, <2>2 DEF ReplyAnswers
    <3>2. pending'[d] = pending[d] /\ reply0[d] = reply[d]
      BY <1>4, <3>1, ReplyAdds
    <3>. QED BY <2>2, <3>2 DEF ReplyAnswers
  <2>. QED BY <1>1, <2>1, <2>2 DEF RunAnswered
<1>8. RunComplete(reply0, n, ops)
  <2>1. ASSUME NEW i, Finished(i) PROVE \E k \in 1..n : ops[k].id = i
    <3>1. Finished(i)'
      BY <2>1, ReplyAdds
    <3>. QED BY <1>1, <3>1 DEF RunComplete
  <2>2. ASSUME NEW d \in Clients, reply0[d] # Idle
        PROVE  pending[d] # Idle /\ \E k \in 1..n : ops[k].id = pending[d].op_id
    <3>1. CASE d = c
      <4>1. \A i : i = pending[c].op_id => Finished(i)'
        BY ReplyAdds
      <4>. QED BY <1>1, <1>2, <3>1, <4>1 DEF RunComplete
    <3>2. CASE d # c
      <4>1. pending'[d] = pending[d] /\ reply[d] # Idle
        BY <1>4, <2>2, <3>2, ReplyAdds
      <4>. QED BY <1>1, <4>1 DEF RunComplete
    <3>. QED BY <3>1, <3>2
  <2>. QED BY <2>1, <2>2 DEF RunComplete
<1>9. Run(reply0, n, ops, at)
  BY <1>1, <1>5, <1>6, <1>7, <1>8 DEF Run
<1>. DEFINE w == [stream |-> at[n], reply |-> reply0]
<1>10. w \in Reachable
  BY <1>4, <1>9, ReachableComplete
<1>11. w.reply[c] = output /\ [w EXCEPT !.reply[c] = Idle] = [stream |-> at[n], reply |-> reply]
  BY <1>4
<1>. HIDE DEF w
<1>. QED BY <1>10, <1>11, ReplyAdds

-----------------------------------------------------------------------------
(* The list that is searched.                                              *)
New(i) == NewId(parse_lines(file), i)

(* Renumbering keeps ids apart.                                            *)
LEMMA NewIdsDiffer ==
  ASSUME FileInv, Whole, NEW a \in DOMAIN file, NEW b \in DOMAIN file,
         New(file[a].op_id) = New(file[b].op_id)
  PROVE  file[a].op_id = file[b].op_id
<1>. DEFINE D          == DOMAIN file
            events     == parse_lines(file)
            Ids(x)     == { events[q].id : q \in 1..(x - 1) }
            First(x, i) == x \in D /\ events[x].id = i /\ \A q \in D : events[q].id = i => x <= q
<1>1. /\ D = 1..Len(file) /\ Len(file) \in Nat /\ DOMAIN events = D
      /\ \A p \in D : events[p].id = file[p].op_id
  BY Parsed DEF FileInv
<1>. HIDE DEF events, D
<1>2. ASSUME NEW p \in D PROVE \E x : First(x, file[p].op_id)
  <2>. DEFINE S == { x \in D : events[x].id = file[p].op_id }
  <2>1. S \subseteq Nat /\ S # {}
    BY <1>1
  <2>2. PICK x \in S : \A y \in S : ~ (y < x)
    <3>. HIDE DEF S
    <3>. QED BY <2>1, LeastNumber
  <2>. QED BY <1>1, <2>2
<1>3. ASSUME NEW i, NEW x, First(x, i) PROVE New(i) = Cardinality(Ids(x))
  <2>. DEFINE first == CHOOSE y \in DOMAIN events :
                         events[y].id = i /\ \A q \in DOMAIN events : events[q].id = i => y <= q
  <2>1. \A y \in DOMAIN events :
          (events[y].id = i /\ \A q \in DOMAIN events : events[q].id = i => y <= q) <=> y = x
    <3>. TAKE y \in DOMAIN events
    <3>1. x \in D /\ events[x].id = i /\ \A q \in D : events[q].id = i => x <= q
      BY <1>3
    <3>2. x \in Nat /\ y \in Nat /\ y \in D
      BY <1>1, <3>1
    <3>3. ASSUME events[y].id = i, \A q \in DOMAIN events : events[q].id = i => y <= q
          PROVE  y = x
      <4>1. x <= y /\ y <= x
        BY <1>1, <3>1, <3>2, <3>3
      <4>. QED BY <3>2, <4>1
    <3>. QED BY <1>1, <3>1, <3>3
  <2>2. first = x
    BY <1>1, <1>3, <2>1
  <2>3. New(i) = Cardinality({ events[q].id : q \in 1..(first - 1) })
    BY DEF New, NewId, events
  <2>. HIDE DEF first
  <2>. QED BY <2>2, <2>3
<1>4. ASSUME NEW i, NEW j, NEW x, NEW y, First(x, i), First(y, j), x < y
      PROVE  New(i) # New(j)
  <2>1. x \in Nat /\ y \in Nat /\ 1..(x - 1) \subseteq 1..(y - 1) /\ x \in 1..(y - 1)
        /\ 1..(x - 1) \subseteq D
    BY <1>1, <1>4
  <2>2. IsFiniteSet(Ids(y))
    <3>. DEFINE f == [q \in 1..(y - 1) |-> events[q].id]
    <3>1. f \in Surjection(1..(y - 1), Ids(y))
      BY DEF Surjection
    <3>2. IsFiniteSet(1..(y - 1))
      BY <2>1, FS_Interval
    <3>. HIDE DEF f, Ids
    <3>. QED BY <3>1, <3>2, FS_Surjection
  <2>3. Ids(x) \in SUBSET Ids(y) /\ i \in Ids(y) /\ i \notin Ids(x)
    <3>1. Ids(x) \subseteq Ids(y) /\ i \in Ids(y)
      BY <1>4, <2>1
    <3>2. ASSUME NEW q \in 1..(x - 1) PROVE events[q].id # i
      <4>1. q \in D /\ ~ (x <= q)
        BY <2>1
      <4>. QED BY <1>4, <4>1
    <3>. QED BY <3>1, <3>2
  <2>4. New(i) = Cardinality(Ids(x)) /\ New(j) = Cardinality(Ids(y))
    BY <1>3, <1>4
  <2>. HIDE DEF Ids
  <2>. QED BY <2>2, <2>3, <2>4, FS_Subset
<1>5. PICK x : First(x, file[a].op_id)
  BY <1>2 DEF D
<1>6. PICK y : First(y, file[b].op_id)
  BY <1>2 DEF D
<1>7. ~ (x < y) /\ ~ (y < x)
  <2>. HIDE DEF First
  <2>. QED BY <1>4, <1>5, <1>6
<1>8. x = y
  <2>1. x \in Nat /\ y \in Nat
    BY <1>1, <1>5, <1>6
  <2>. QED BY <1>7, <2>1
<1>. QED BY <1>5, <1>6, <1>8

(* The list holds the lines of the file, one for one.                      *)
LEMMA ListOfFile ==
  ASSUME FileInv, Whole
  PROVE  /\ DOMAIN Searched = DOMAIN file
         /\ \A p \in DOMAIN file :
              /\ Searched[p].id = New(file[p].op_id)
              /\ Searched[p].kind = "call" <=> file[p].event = "Start"
              /\ Searched[p].kind = "return" <=> file[p].event = "Finish"
              /\ file[p].event = "Start" => Searched[p].value = parse_start(file[p].value)
              /\ file[p].event = "Finish" => Searched[p].value = parse_finish(file[p].value)
<1>. DEFINE events == parse_lines(file)
            again  == renumber(events)
<1>1. /\ DOMAIN events = DOMAIN file
      /\ \A p \in DOMAIN file :
           /\ events[p].id = file[p].op_id
           /\ file[p].event = "Start" =>
                events[p].kind = "call" /\ events[p].input = parse_start(file[p].value)
           /\ file[p].event = "Finish" =>
                events[p].kind = "return" /\ events[p].output = parse_finish(file[p].value)
           /\ file[p].event \in {"Start", "Finish"}
  BY Parsed DEF FileInv
<1>2. \A p \in DOMAIN file :
        events[p] = [id |-> events[p].id, kind |-> events[p].kind,
                     input |-> events[p].input, output |-> events[p].output]
  BY <1>1 DEF parse_lines, parse_line
<1>3. DOMAIN again = DOMAIN file
      /\ \A p \in DOMAIN file : again[p] = [events[p] EXCEPT !.id = New(events[p].id)]
  BY <1>1 DEF renumber, New
<1>. HIDE DEF events, again
<1>4. ASSUME NEW p \in DOMAIN file
      PROVE  /\ again[p].id = New(file[p].op_id) /\ again[p].kind = events[p].kind
             /\ again[p].input = events[p].input /\ again[p].output = events[p].output
  <2>1. PICK i, k, in, out : events[p] = [id |-> i, kind |-> k, input |-> in, output |-> out]
    BY <1>2
  <2>. QED BY <1>1, <1>3, <2>1
<1>5. Searched = [p \in DOMAIN file |->
                    [id |-> again[p].id, time |-> p - 1, kind |-> again[p].kind,
                     value |-> Carried(again[p])]]
  BY <1>3 DEF Searched, convert_entries, again, events
<1>6. ASSUME NEW p \in DOMAIN file
      PROVE  /\ Searched[p].id = again[p].id /\ Searched[p].kind = again[p].kind
             /\ Searched[p].value = Carried(again[p])
  BY <1>5
<1>. QED BY <1>1, <1>4, <1>5, <1>6 DEF Carried

(* What the list says of an operation is what the file says of it.         *)
LEMMA ValuesOfFile ==
  ASSUME FileInv, Whole, NEW p \in DOMAIN file
  PROVE  /\ file[p].event = "Start" =>
              Value(Searched, New(file[p].op_id), "call") = parse_start(file[p].value)
         /\ file[p].event = "Finish" =>
              Value(Searched, New(file[p].op_id), "return") = parse_finish(file[p].value)
<1>. DEFINE i == New(file[p].op_id)
<1>1. ASSUME NEW q \in DOMAIN file, Searched[q].id = i, file[q].event = file[p].event PROVE q = p
  <2>1. file[q].op_id = file[p].op_id
    BY <1>1, ListOfFile, NewIdsDiffer
  <2>. QED BY <1>1, <2>1 DEF FileInv, OneLineEach
<1>2. ASSUME file[p].event = "Start"
      PROVE  Value(Searched, i, "call") = parse_start(file[p].value)
  <2>1. \A q \in DOMAIN Searched : Searched[q].id = i /\ Searched[q].kind = "call" <=> q = p
    BY <1>1, <1>2, ListOfFile
  <2>2. (CHOOSE q \in DOMAIN Searched : Searched[q].id = i /\ Searched[q].kind = "call") = p
    BY <2>1, ListOfFile
  <2>. QED BY <1>2, <2>2, ListOfFile DEF Value
<1>3. ASSUME file[p].event = "Finish"
      PROVE  Value(Searched, i, "return") = parse_finish(file[p].value)
  <2>1. \A q \in DOMAIN Searched : Searched[q].id = i /\ Searched[q].kind = "return" <=> q = p
    BY <1>1, <1>3, ListOfFile
  <2>2. (CHOOSE q \in DOMAIN Searched : Searched[q].id = i /\ Searched[q].kind = "return") = p
    BY <2>1, ListOfFile
  <2>. QED BY <1>3, <2>2, ListOfFile DEF Value
<1>. QED BY <1>2, <1>3

(* And it has the same real time.                                          *)
LEMMA BeforeOfFile ==
  ASSUME FileInv, Whole, NEW a \in DOMAIN file, NEW b \in DOMAIN file
  PROVE  Before(Searched, New(file[a].op_id), New(file[b].op_id))
           <=> FileBefore(file[a].op_id, file[b].op_id)
<1>1. ASSUME Before(Searched, New(file[a].op_id), New(file[b].op_id))
      PROVE  FileBefore(file[a].op_id, file[b].op_id)
  <2>1. PICK p, q \in DOMAIN Searched :
          /\ p < q
          /\ Searched[p].id = New(file[a].op_id) /\ Searched[p].kind = "return"
          /\ Searched[q].id = New(file[b].op_id) /\ Searched[q].kind = "call"
    BY <1>1 DEF Before
  <2>2. /\ p \in DOMAIN file /\ q \in DOMAIN file
        /\ file[p].event = "Finish" /\ file[q].event = "Start"
        /\ New(file[p].op_id) = New(file[a].op_id) /\ New(file[q].op_id) = New(file[b].op_id)
    BY <2>1, ListOfFile
  <2>3. file[p].op_id = file[a].op_id /\ file[q].op_id = file[b].op_id
    BY <2>2, NewIdsDiffer
  <2>. QED BY <2>1, <2>2, <2>3 DEF FileBefore
<1>2. ASSUME FileBefore(file[a].op_id, file[b].op_id)
      PROVE  Before(Searched, New(file[a].op_id), New(file[b].op_id))
  <2>1. PICK p, q \in DOMAIN file :
          /\ p < q
          /\ file[p].event = "Finish" /\ file[p].op_id = file[a].op_id
          /\ file[q].event = "Start" /\ file[q].op_id = file[b].op_id
    BY <1>2 DEF FileBefore
  <2>2. /\ p \in DOMAIN Searched /\ q \in DOMAIN Searched
        /\ Searched[p].id = New(file[a].op_id) /\ Searched[p].kind = "return"
        /\ Searched[q].id = New(file[b].op_id) /\ Searched[q].kind = "call"
    BY <2>1, ListOfFile
  <2>. QED BY <2>1, <2>2 DEF Before
<1>. QED BY <1>1, <1>2

-----------------------------------------------------------------------------
(* The states of the model have tails of 32 bits.                          *)
LEMMA StatesAreStreams ==
  /\ \A s \in S2StreamState : s \in Streams /\ s.tail < U32
  /\ \A s \in Streams : s.tail < U32 => s \in S2StreamState
<1>1. U32 \in Nat
  BY ServiceAssumption
<1>. QED BY <1>1 DEF S2StreamState, Streams

(* Its steps keep to them unless the tail overflows, which panics.         *)
LEMMA StepInRange ==
  ASSUME NEW s \in S2StreamState, NEW input \in S2Input, NEW o, ~ Overflows(s, input)
  PROVE  S2Step(s, input, o) \in Seq(S2StreamState)
<1>1. CASE input \in Appends /\ input.op = "Append"
  <2>1. Optimistic(s, input) \in S2StreamState
    <3>1. U32 \in Nat /\ s.tail + input.num_records < U32
      <4>1. U32 \in Nat /\ s.tail \in Nat /\ input.num_records \in Nat
        BY <1>1, ServiceAssumption DEF S2StreamState, Appends
      <4>. QED BY <1>1, <4>1 DEF Overflows
    <3>. QED BY <1>1, <3>1, StatesAreStreams, OptimisticTyped
  <2>2. S2Step(s, input, o) \in { <<>>, <<s>>, <<Optimistic(s, input)>>, <<Optimistic(s, input), s>> }
    BY <1>1 DEF S2Step, AppendStep
  <2>. DEFINE T == Optimistic(s, input)
  <2>3. <<s>> \in Seq(S2StreamState) /\ <<>> \in Seq(S2StreamState)
    OBVIOUS
  <2>4. <<T>> \in Seq(S2StreamState) /\ <<T, s>> \in Seq(S2StreamState)
    <3>. HIDE DEF T
    <3>. QED BY <2>1 DEF T
  <2>. QED BY <2>2, <2>3, <2>4
<1>2. CASE input.op \in {"Read", "CheckTail"}
  <2>1. S2Step(s, input, o) \in { <<>>, <<s>> }
    BY <1>2 DEF S2Step, Kept
  <2>2. <<s>> \in Seq(S2StreamState) /\ <<>> \in Seq(S2StreamState)
    OBVIOUS
  <2>. QED BY <2>1, <2>2
<1>. QED BY <1>1, <1>2, InputKinds

-----------------------------------------------------------------------------
(* One call of the step of PowerSetModel.                                  *)
Leads(states, input, o) == UNION { Range(S2Step(s, input, o)) : s \in Range(states) }

(* It panics, refuses, or goes to all the states that the model leads to.  *)
LEMMA StepOrPanicIs ==
  ASSUME NEW states \in Seq(S2StreamState), NEW input \in S2Input, NEW o
  PROVE  /\ (\E s \in Range(states) : Overflows(s, input)) =>
              StepOrPanic(states, <<input, o>>) = Panicked
         /\ (\A s \in Range(states) : ~ Overflows(s, input)) =>
              \/ /\ Leads(states, input, o) = {}
                 /\ StepOrPanic(states, <<input, o>>) = NoPower
              \/ /\ Leads(states, input, o) # {}
                 /\ StepOrPanic(states, <<input, o>>) \in Seq(S2StreamState)
                 /\ Range(StepOrPanic(states, <<input, o>>)) = Leads(states, input, o)
<1>. DEFINE l   == <<input, o>>
            nd  == S2Model({l})
            nd2 == [init |-> S2Init,
                    step |-> [x \in S2StreamState \X {l} |->
                                IF Overflows(x[1], input) THEN <<>> ELSE S2Step(x[1], input, o)]]
<1>1. states \notin {NoPower, Panicked} /\ l[1] = input /\ l[2] = o
  BY CheckerAssumption
<1>2. CASE \E s \in Range(states) : Overflows(s, input)
  BY <1>1, <1>2 DEF StepOrPanic
<1>3. CASE \A s \in Range(states) : ~ Overflows(s, input)
  <2>1. StepOrPanic(states, l) = PowerStep(nd, states, l)
    BY <1>1, <1>3 DEF StepOrPanic
  <2>2. \A s \in S2StreamState :
          nd2.step[<<s, l>>] = IF Overflows(s, input) THEN <<>> ELSE S2Step(s, input, o)
    OBVIOUS
  <2>3. \A s \in S2StreamState : nd.step[<<s, l>>] = S2Step(s, input, o)
    BY <1>1 DEF S2Model
  <2>4. \A s \in S2StreamState : nd2.step[<<s, l>>] \in Seq(S2StreamState)
    BY <2>2, StepInRange, ShortSequences
  <2>. HIDE DEF nd, nd2, l
  <2>5. /\ \A k \in DOMAIN states : states[k] \in Range(states) /\ states[k] \in S2StreamState
        /\ Range(states) \subseteq S2StreamState
    BY DEF Range
  <2>6. PowerStep(nd, states, l) = PowerStep(nd2, states, l)
    <3>1. \A k \in DOMAIN states : nd.step[<<states[k], l>>] = nd2.step[<<states[k], l>>]
      BY <1>3, <2>2, <2>3, <2>5
    <3>2. [k \in DOMAIN states |-> nd.step[<<states[k], l>>]]
            = [k \in DOMAIN states |-> nd2.step[<<states[k], l>>]]
      BY <3>1
    <3>. QED BY <3>2 DEF PowerStep, Successors
  <2>7. Image(nd2, Range(states), l) = Leads(states, input, o)
    BY <1>3, <2>2, <2>5 DEF Image, Leads
  <2>8. /\ Leads(states, input, o) = {} => PowerStep(nd2, states, l) = NoPower
        /\ Leads(states, input, o) # {} =>
             /\ PowerStep(nd2, states, l) \in Seq(S2StreamState)
             /\ Range(PowerStep(nd2, states, l)) = Leads(states, input, o)
    BY <2>4, <2>7, PowerStepIs
  <2>. QED BY <1>3, <2>1, <2>6, <2>8 DEF l
<1>. QED BY <1>2, <1>3

(* The course of a walk.                                                   *)
Powers == Seq(S2StreamState) \cup {NoPower, Panicked}

WalkCourse(order, f) ==
  /\ f \in [0..Len(order) -> Powers]
  /\ f[0] \in Seq(S2StreamState) /\ Range(f[0]) = {S2Init[1]}
  /\ \A n \in 1..Len(order) : f[n] = StepOrPanic(f[n - 1], Label(Searched, order[n]))
  /\ Walk(Searched, order) = f[Len(order)]

(* A walk that was refused or panicked stays so.                           *)
LEMMA StepOrPanicTyped ==
  ASSUME NEW states \in Powers, NEW input \in S2Input, NEW o
  PROVE  StepOrPanic(states, <<input, o>>) \in Powers
<1>1. CASE states \in {NoPower, Panicked}
  BY <1>1 DEF StepOrPanic, Powers
<1>2. CASE states \in Seq(S2StreamState)
  <2>. HIDE DEF Leads
  <2>. QED BY <1>2, StepOrPanicIs DEF Powers
<1>. QED BY <1>1, <1>2 DEF Powers

(* Every walk has one.                                                     *)
LEMMA WalkRuns ==
  ASSUME NEW order, Len(order) \in Nat,
         \A n \in 1..Len(order) : Value(Searched, order[n], "call") \in S2Input
  PROVE  \E f : WalkCourse(order, f)
<1>. DEFINE N     == Len(order)
            S     == Powers
            start == PowerInit(S2Model({}))
            lab(n) == Label(Searched, order[n])
            next  == [x \in (1..N) \X S |-> StepOrPanic(x[2], lab(x[1]))]
<1>1. N \in Nat
  OBVIOUS
<1>2. next \in [(1..N) \X S -> S]
  <2>1. ASSUME NEW n \in 1..N, NEW y \in S PROVE StepOrPanic(y, lab(n)) \in S
    BY StepOrPanicTyped DEF Label
  <2>. HIDE DEF S, N, lab
  <2>. QED BY <2>1
<1>3. start \in Seq(S2StreamState) /\ Range(start) = {S2Init[1]} /\ start \in S
  <2>1. S2Init \in Seq(S2StreamState) /\ S2Model({}).init = S2Init
    <3>1. [tail |-> 0, xxh3 |-> 0, fencing_token |-> None] \in S2StreamState
      BY ServiceAssumption DEF S2StreamState
    <3>. QED BY <3>1, ShortSequences DEF S2Init, S2Model
  <2>. HIDE DEF S2Init, S2Model
  <2>. QED BY <2>1, PowerInitIs, InitTyped DEF S2Model, Powers
<1>4. PICK f : IsCourse(f, N, S, start, next)
  <2>. HIDE DEF next, N, S, start
  <2>. QED BY <1>1, <1>2, <1>3, Course
<1>5. ASSUME NEW n \in 1..N
      PROVE  f[n] = StepOrPanic(f[n - 1], lab(n))
  <2>1. n - 1 \in 0..N
    BY <1>1
  <2>2. f[n - 1] \in S
    BY <1>4, <2>1 DEF IsCourse
  <2>. HIDE DEF S, lab
  <2>. QED BY <1>4, <2>2 DEF IsCourse
<1>. DEFINE loop(after) == [n \in 0..N |-> IF n = 0 THEN start
                                           ELSE StepOrPanic(after[n - 1], lab(n))]
            after == CHOOSE after : after = loop(after)
<1>. HIDE DEF start, lab, S
<1>6. f = loop(f)
  <2>1. ASSUME NEW n \in 0..N PROVE f[n] = loop(f)[n]
    <3>1. CASE n = 0
      BY <1>4, <3>1 DEF IsCourse
    <3>2. CASE n # 0
      <4>1. n \in 1..N
        BY <1>1, <3>2
      <4>2. loop(f)[n] = StepOrPanic(f[n - 1], lab(n))
        BY <3>2
      <4>. QED BY <1>5, <4>1, <4>2, Zenon
    <3>. QED BY <3>1, <3>2
  <2>. HIDE DEF N, S, next
  <2>. QED BY <1>4, <2>1 DEF IsCourse
<1>7. after = loop(after)
  BY <1>6
<1>8. after = f
  <2>1. after = [n \in 0..N |-> after[n]] /\ after[0] = start
    <3>1. ASSUME NEW g, g = loop(g) PROVE g = [n \in 0..N |-> g[n]] /\ g[0] = start
      <4>1. loop(g) = [n \in 0..N |-> loop(g)[n]] /\ loop(g)[0] = start
        BY <1>1
      <4>. HIDE DEF loop
      <4>. QED BY <3>1, <4>1
    <3>. HIDE DEF after, loop
    <3>. QED BY <1>7, <3>1
  <2>2. ASSUME NEW n \in 1..N, after[n - 1] \in S PROVE after[n] = next[<<n, after[n - 1]>>]
    <3>1. n \in 0..N /\ n # 0
      BY <1>1
    <3>2. after[n] = StepOrPanic(after[n - 1], lab(n))
      <4>1. loop(after)[n] = StepOrPanic(after[n - 1], lab(n))
        BY <3>1
      <4>. QED BY <1>7, <4>1, Zenon
    <3>. HIDE DEF after
    <3>. QED BY <2>2, <3>2
  <2>. HIDE DEF after, next, N, S
  <2>3. Follows(after, N, S, start, next)
    BY <2>1, <2>2 DEF Follows
  <2>. QED BY <1>1, <1>4, <2>3, OneCourse
<1>9. Walk(Searched, order) = after[N]
  BY DEF Walk, start, lab
<1>. HIDE DEF after
<1>10. f \in [0..N -> S] /\ f[0] = start
  BY <1>4 DEF IsCourse
<1>11. \A n \in 1..N : f[n] = StepOrPanic(f[n - 1], Label(Searched, order[n]))
  BY <1>5 DEF lab
<1>. QED BY <1>3, <1>8, <1>9, <1>10, <1>11 DEF WalkCourse, S

-----------------------------------------------------------------------------
(* `as u32` and the model.  A tail that a file may hold where the clients  *)
(* count on 32 bits: no more than what an append can take the tail to.     *)
Fits(input, output) ==
  "tail" \in DOMAIN output =>
    output.tail < U32 + (IF input.op = "Append" THEN input.num_records ELSE 0)

TailsFit == \A input \in Inputs : \A output \in Replies(input) : Fits(input, output)

(* What is asked is parsed as it is.                                       *)
LEMMA StartIsParsed ==
  ASSUME NEW input \in S2Input
  PROVE  parse_start(input) = input
<1>1. CASE input \in Appends /\ input.op = "Append"
  <2>1. U32 \in Nat \ {0} /\ None \notin Nat
    BY ServiceAssumption
  <2>2. \A a \in 0..(U32 - 1) : a % U32 = a
    BY <2>1
  <2>3. input.num_records \in 0..(U32 - 1) /\ input.match_seq_num \in 0..(U32 - 1) \cup {None}
    BY <1>1 DEF Appends
  <2>4. AsU32(input.num_records) = input.num_records
        /\ AsU32(input.match_seq_num) = input.match_seq_num
    BY <2>1, <2>2, <2>3 DEF AsU32
  <2>5. parse_start(input) =
          [input EXCEPT !.num_records = input.num_records,
                        !.match_seq_num = input.match_seq_num]
    BY <1>1, <2>4 DEF parse_start
  <2>. QED BY <1>1, <2>5 DEF Appends
<1>2. CASE input.op \in {"Read", "CheckTail"}
  BY <1>2 DEF parse_start
<1>. QED BY <1>1, <1>2, InputKinds

(* An answer keeps its kind and the low bits of its tail.                  *)
LEMMA FinishIsParsed ==
  ASSUME NEW output \in S2Output
  PROVE  \/ /\ parse_finish(output) = output
            /\ "tail" \in DOMAIN output => output.tail \in Nat /\ output.tail < U32
         \/ /\ "tail" \in DOMAIN output
            /\ output.tail \in Nat /\ output.tail >= U32
            /\ DOMAIN parse_finish(output) = DOMAIN output
            /\ parse_finish(output).is = output.is
            /\ parse_finish(output).tail = output.tail % U32
            /\ output.is \in {"AppendSuccess", "CheckTailSuccess", "ReadSuccess"}
<1>1. U32 \in Nat \ {0} /\ None \notin Nat
  BY ServiceAssumption
<1>2. CASE output \in [is : {"AppendDefiniteFailure", "AppendIndefiniteFailure",
                             "ReadFailure", "CheckTailFailure"}]
  <2>1. "tail" \notin DOMAIN output
    BY <1>2
  <2>. QED BY <2>1 DEF parse_finish
<1>3. ASSUME output \in [is : {"AppendSuccess", "CheckTailSuccess"}, tail : Nat]
                        \cup [is : {"ReadSuccess"}, tail : Nat, xxh3 : Nat]
      PROVE  /\ "tail" \in DOMAIN output /\ output.tail \in Nat
             /\ output.is \in {"AppendSuccess", "CheckTailSuccess", "ReadSuccess"}
             /\ DOMAIN [output EXCEPT !.tail = output.tail % U32] = DOMAIN output
             /\ [output EXCEPT !.tail = output.tail % U32].is = output.is
             /\ [output EXCEPT !.tail = output.tail % U32].tail = output.tail % U32
             /\ [output EXCEPT !.tail = output.tail] = output
  BY <1>3
<1>4. CASE output \in [is : {"AppendSuccess", "CheckTailSuccess"}, tail : Nat]
                      \cup [is : {"ReadSuccess"}, tail : Nat, xxh3 : Nat]
  <2>1. parse_finish(output) = [output EXCEPT !.tail = output.tail % U32]
    BY <1>1, <1>3, <1>4 DEF parse_finish, AsU32
  <2>2. CASE output.tail < U32
    <3>1. output.tail % U32 = output.tail
      BY <1>1, <1>3, <1>4, <2>2
    <3>. QED BY <1>3, <1>4, <2>1, <2>2, <3>1
  <2>3. CASE ~ (output.tail < U32)
    <3>1. output.tail >= U32
      BY <1>1, <1>3, <1>4, <2>3
    <3>. QED BY <1>3, <1>4, <2>1, <3>1
  <2>. QED BY <2>2, <2>3
<1>. QED BY <1>2, <1>4 DEF S2Output

(* What a stream within 32 bits answers is not changed by parsing.         *)
LEMMA StepIsParsed ==
  ASSUME NEW s \in S2StreamState, NEW input \in S2Input, ~ Overflows(s, input),
         NEW o \in S2Output, NEW t \in Range(S2Step(s, input, o))
  PROVE  parse_finish(o) = o
<1>1. SUFFICES ASSUME "tail" \in DOMAIN o, o.tail \in Nat, o.tail >= U32 PROVE FALSE
  BY FinishIsParsed
<1>2. U32 \in Nat /\ s.tail < U32 /\ s.tail \in Nat
  BY ServiceAssumption DEF S2StreamState
<1>3. o \notin {AppendDefiniteFailure, AppendIndefiniteFailure, ReadFailure, CheckTailFailure}
  BY <1>1 DEF AppendDefiniteFailure, AppendIndefiniteFailure, ReadFailure, CheckTailFailure
<1>4. CASE /\ input \in Appends /\ input.op = "Append"
           /\ o = AppendSuccess(Optimistic(s, input).tail)
  <2>1. o.tail = s.tail + input.num_records
    BY <1>4 DEF AppendSuccess, Optimistic
  <2>2. s.tail + input.num_records \in Nat
    BY <1>2, <1>4 DEF Appends
  <2>3. ~ (s.tail + input.num_records >= U32)
    BY <1>4 DEF Overflows
  <2>. QED BY <1>1, <2>1, <2>3
<1>5. CASE o \in {ReadSuccess(s.tail, s.xxh3), CheckTailSuccess(s.tail)}
  <2>1. o.tail = s.tail
    BY <1>5 DEF ReadSuccess, CheckTailSuccess
  <2>. QED BY <1>1, <1>2, <2>1
<1>. QED BY <1>3, <1>4, <1>5, StepCases

(* What the model accepts after parsing it accepts before, if tails fit.   *)
LEMMA ParsedIsStep ==
  ASSUME NEW s \in S2StreamState, NEW input \in S2Input,
         NEW o \in S2Output, Fits(input, o), NEW t \in Range(S2Step(s, input, parse_finish(o)))
  PROVE  t \in Range(S2Step(s, input, o))
<1>. DEFINE o2 == parse_finish(o)
<1>1. SUFFICES ASSUME "tail" \in DOMAIN o, o.tail \in Nat, o.tail >= U32,
                      o2.is = o.is, o2.tail = o.tail % U32,
                      o.is \in {"AppendSuccess", "CheckTailSuccess", "ReadSuccess"}
      PROVE FALSE
  BY FinishIsParsed
<1>2. U32 \in Nat \ {0} /\ s.tail \in Nat
  BY ServiceAssumption DEF S2StreamState
<1>3. input \in Appends /\ input.op = "Append"
  <2>1. CASE input.op # "Append"
    <3>1. o.tail < U32 + 0
      BY <1>1, <2>1 DEF Fits
    <3>. QED BY <1>1, <1>2, <3>1
  <2>. QED BY <2>1, InputKinds
<1>4. input.num_records \in 0..(U32 - 1)
  BY <1>3 DEF Appends
<1>5. o.tail < U32 + input.num_records
  BY <1>1, <1>3 DEF Fits
<1>6. o.tail % U32 < input.num_records
  <2>1. o.tail % U32 = o.tail - U32
    BY <1>1, <1>2, <1>4, <1>5
  <2>. QED BY <1>1, <1>2, <1>4, <1>5, <2>1
<1>. HIDE DEF o2
<1>7. t \in Range(S2Step(s, input, o2))
  BY DEF o2
<1>8. o2 \notin {AppendDefiniteFailure, AppendIndefiniteFailure}
  BY <1>1 DEF AppendDefiniteFailure, AppendIndefiniteFailure
<1>9. o2 = AppendSuccess(Optimistic(s, input).tail)
  BY <1>3, <1>7, <1>8, StepCases
<1>10. o2.tail = s.tail + input.num_records
  BY <1>9 DEF AppendSuccess, Optimistic
<1>. QED BY <1>1, <1>2, <1>4, <1>6, <1>10

-----------------------------------------------------------------------------
(* The operations of a file that is whole.                                 *)
SearchedIds == { Searched[p].id : p \in DOMAIN Searched }

(* p and q are the lines of the operation that the search knows as i.      *)
LinesOf(i, p, q) ==
  /\ p \in DOMAIN file /\ q \in DOMAIN file
  /\ file[p].event = "Start" /\ file[q].event = "Finish"
  /\ file[p].op_id = file[q].op_id
  /\ New(file[p].op_id) = i
  /\ file[p].value \in Inputs /\ file[q].value \in Replies(file[p].value)

(* Each operation of the list has two lines in the file.                   *)
LEMMA OperationsOfFile ==
  ASSUME FileInv, WellFormedFile, NEW i \in SearchedIds
  PROVE  \E p, q : LinesOf(i, p, q)
<1>1. PICK r \in DOMAIN file : i = New(file[r].op_id)
  BY ListOfFile DEF SearchedIds, WellFormedFile
<1>2. PICK q \in DOMAIN file : file[q].event = "Finish" /\ file[q].op_id = file[r].op_id
  <2>1. file[r].event \in {"Start", "Finish"}
    BY Parsed DEF FileInv, WellFormedFile
  <2>2. CASE file[r].event = "Start"
    BY <2>2, WellFormedIsAnswered
  <2>. QED BY <2>1, <2>2
<1>3. PICK p \in DOMAIN file :
        /\ file[p].event = "Start" /\ file[p].op_id = file[q].op_id
        /\ file[p].value \in Inputs /\ file[q].value \in Replies(file[p].value)
  BY <1>2 DEF FileInv, AnswersAsked
<1>. QED BY <1>1, <1>2, <1>3 DEF LinesOf

(* The search gives the model what these lines say.                        *)
LEMMA LinesAre ==
  ASSUME FileInv, WellFormedFile, NEW i, NEW p, NEW q, LinesOf(i, p, q)
  PROVE  /\ file[p].op_id \in Nat /\ file[p].value \in S2Input /\ file[q].value \in S2Output
         /\ file[p] = Start(file[p].op_id, file[p].value)
         /\ file[q] = Finish(file[p].op_id, file[q].value)
         /\ Value(Searched, i, "call") = file[p].value
         /\ Label(Searched, i) = <<file[p].value, parse_finish(file[q].value)>>
<1>1. file[p] \in Lines /\ file[q] \in Lines
  BY DEF FileInv, LinesOf
<1>2. /\ file[p] \in [op_id : Nat, event : {"Start"}, value : S2Input]
      /\ file[q] \in [op_id : Nat, event : {"Finish"}, value : S2Output]
  BY <1>1 DEF LinesOf, Lines
<1>3. /\ file[p] = Start(file[p].op_id, file[p].value)
      /\ file[q] = Finish(file[p].op_id, file[q].value)
  <2>1. file[p] = [op_id |-> file[p].op_id, event |-> "Start", value |-> file[p].value]
    BY <1>2
  <2>2. file[q] = [op_id |-> file[q].op_id, event |-> "Finish", value |-> file[q].value]
    BY <1>2
  <2>. QED BY <2>1, <2>2 DEF Start, Finish, LinesOf
<1>4. /\ Value(Searched, i, "call") = parse_start(file[p].value)
      /\ Value(Searched, i, "return") = parse_finish(file[q].value)
  BY ValuesOfFile DEF LinesOf, WellFormedFile
<1>5. parse_start(file[p].value) = file[p].value
  BY <1>2, StartIsParsed
<1>. QED BY <1>2, <1>3, <1>4, <1>5 DEF Label

(* An order of the operations names each of them once.                     *)
LEMMA OrderIs ==
  ASSUME FileInv, WellFormedFile, NEW order \in Orders(Searched)
  PROVE  /\ Len(order) \in Nat
         /\ order \in [1..Len(order) -> SearchedIds]
         /\ \A j, k \in 1..Len(order) : order[j] = order[k] => j = k
         /\ \A i \in SearchedIds : \E k \in 1..Len(order) : order[k] = i
         /\ \A j, k \in 1..Len(order) : j < k => ~ Before(Searched, order[k], order[j])
<1>. DEFINE N == Cardinality(SearchedIds)
<1>1. IsFiniteSet(SearchedIds)
  <2>. DEFINE f == [p \in DOMAIN Searched |-> Searched[p].id]
  <2>1. IsFiniteSet(DOMAIN Searched)
    <3>1. DOMAIN Searched = 1..Len(file) /\ Len(file) \in Nat
      BY ListOfFile DEF FileInv, WellFormedFile
    <3>. QED BY <3>1, FS_Interval
  <2>2. f \in Surjection(DOMAIN Searched, SearchedIds)
    BY DEF Surjection, SearchedIds
  <2>. HIDE DEF f
  <2>. QED BY <2>1, <2>2, FS_Surjection
<1>2. N \in Nat
  BY <1>1, FS_CardinalityType
<1>3. /\ order \in [1..N -> SearchedIds]
      /\ \A j, k \in 1..N : j # k => order[j] # order[k]
      /\ \A j, k \in DOMAIN order : j < k => ~ Before(Searched, order[k], order[j])
  BY DEF Orders, SetToSeqs, SearchedIds
<1>4. Len(order) = N
  <2>. HIDE DEF N
  <2>1. order \in Seq(SearchedIds)
    BY <1>2, <1>3, SeqDef
  <2>. QED BY <1>2, <1>3, <2>1
<1>5. order \in Surjection(1..N, SearchedIds)
  <2>1. order \in Injection(1..N, SearchedIds)
    BY <1>3 DEF Injection, IsInjective
  <2>2. Cardinality(1..N) = N
    BY <1>2, FS_Interval
  <2>. HIDE DEF N
  <2>. QED BY <1>1, <2>1, <2>2, FS_Injection DEF N
<1>. HIDE DEF N
<1>. QED BY <1>2, <1>3, <1>4, <1>5 DEF Surjection

(* Whatever does so in real time is such an order.                         *)
LEMMA IsAnOrder ==
  ASSUME NEW n \in Nat, NEW order \in [1..n -> SearchedIds],
         \A j, k \in 1..n : order[j] = order[k] => j = k,
         \A i \in SearchedIds : \E k \in 1..n : order[k] = i,
         \A j, k \in 1..n : j < k => ~ Before(Searched, order[k], order[j])
  PROVE  order \in Orders(Searched) /\ Len(order) = n
<1>1. order \in Bijection(1..n, SearchedIds)
  BY DEF Bijection, Injection, Surjection, IsInjective
<1>2. IsFiniteSet(1..n) /\ Cardinality(1..n) = n
  BY FS_Interval
<1>3. Cardinality(SearchedIds) = n
  <2>1. ExistsBijection(1..n, SearchedIds)
    BY <1>1 DEF ExistsBijection
  <2>. QED BY <1>2, <2>1, FS_Bijection
<1>4. Len(order) = n
  <2>1. order \in Seq(SearchedIds)
    BY SeqDef
  <2>. QED BY <2>1
<1>5. order \in SetToSeqs(SearchedIds)
  BY <1>3 DEF SetToSeqs
<1>. QED BY <1>4, <1>5 DEF Orders, SearchedIds

-----------------------------------------------------------------------------
(* The search follows every run of the file: whatever state the stream is  *)
(* in is one of those of the walk, unless that panics.                     *)
LEMMA RunWalks ==
  ASSUME FileInv, WellFormedFile, NEW reply, NEW n, NEW ops, NEW at, Run(reply, n, ops, at)
  PROVE  \E order \in Orders(Searched) : Walk(Searched, order) # NoPower
<1>. DEFINE order == [k \in 1..n |-> New(ops[k].id)]
<1>1. /\ n \in Nat /\ ops \in [1..n -> Steps] /\ at \in [0..n -> Streams]
      /\ at[0] = S2Init[1]
      /\ \A k \in 1..n : at[k] \in Range(S2Step(at[k - 1], ops[k].input, ops[k].output))
      /\ RunOrdered(n, ops) /\ RunAsked(n, ops)
      /\ \A c \in Clients : pending[c] = Idle
      /\ Whole
  BY WellFormedIsAnswered DEF Run, RunTyped, RunSteps, WellFormedFile
<1>2. ASSUME NEW k \in 1..n
      PROVE  \E p, q : /\ LinesOf(New(ops[k].id), p, q) /\ file[p].op_id = ops[k].id
                       /\ file[p].value = ops[k].input /\ file[q].value = ops[k].output
  <2>1. PICK q \in DOMAIN file : file[q] = Finish(ops[k].id, ops[k].output)
    BY <1>1 DEF Run, RunAnswered, FileAnswers, ReplyAnswers
  <2>2. PICK p \in DOMAIN file : file[p] = Start(ops[k].id, ops[k].input)
    BY <1>1 DEF RunAsked
  <2>3. PICK r \in DOMAIN file :
          /\ file[r].event = "Start" /\ file[r].op_id = file[q].op_id
          /\ file[r].value \in Inputs /\ file[q].value \in Replies(file[r].value)
    BY <2>1 DEF FileInv, AnswersAsked, Finish
  <2>4. r = p
    BY <2>1, <2>2, <2>3 DEF FileInv, OneLineEach, Start, Finish
  <2>. QED BY <2>1, <2>2, <2>3, <2>4 DEF LinesOf, Start, Finish
<1>3. order \in [1..n -> SearchedIds]
  <2>1. ASSUME NEW k \in 1..n PROVE New(ops[k].id) \in SearchedIds
    <3>1. PICK p, q : LinesOf(New(ops[k].id), p, q)
      BY <1>2
    <3>. QED BY <1>1, <3>1, ListOfFile DEF LinesOf, SearchedIds
  <2>. QED BY <2>1
<1>4. ASSUME NEW j \in 1..n, NEW k \in 1..n, order[j] = order[k] PROVE j = k
  <2>1. PICK p \in DOMAIN file : file[p].op_id = ops[j].id
    BY <1>2 DEF LinesOf
  <2>2. PICK q \in DOMAIN file : file[q].op_id = ops[k].id
    BY <1>2 DEF LinesOf
  <2>3. ops[j].id = ops[k].id
    BY <1>1, <1>4, <2>1, <2>2, NewIdsDiffer
  <2>4. ~ (j < k) /\ ~ (k < j)
    BY <1>1, <2>3 DEF RunOrdered
  <2>. QED BY <1>1, <2>4
<1>5. ASSUME NEW i \in SearchedIds PROVE \E k \in 1..n : order[k] = i
  <2>1. PICK p, q : LinesOf(i, p, q)
    BY OperationsOfFile
  <2>2. Finished(file[p].op_id)
    BY <2>1 DEF LinesOf, Finished
  <2>3. PICK k \in 1..n : ops[k].id = file[p].op_id
    BY <2>2 DEF Run, RunComplete
  <2>. QED BY <2>1, <2>3 DEF LinesOf
<1>6. ASSUME NEW j \in 1..n, NEW k \in 1..n, j < k
      PROVE  ~ Before(Searched, order[k], order[j])
  <2>1. PICK p \in DOMAIN file : file[p].op_id = ops[j].id
    BY <1>2 DEF LinesOf
  <2>2. PICK q \in DOMAIN file : file[q].op_id = ops[k].id
    BY <1>2 DEF LinesOf
  <2>3. ~ FileBefore(ops[k].id, ops[j].id)
    BY <1>1, <1>6 DEF RunOrdered
  <2>4. ~ Before(Searched, New(ops[k].id), New(ops[j].id))
    BY <1>1, <2>1, <2>2, <2>3, BeforeOfFile
  <2>. QED BY <2>4
<1>7. \A k \in 1..n : order[k] = New(ops[k].id)
  OBVIOUS
<1>. HIDE DEF order
<1>8. order \in Orders(Searched) /\ Len(order) = n
  BY <1>1, <1>3, <1>4, <1>5, <1>6, IsAnOrder
<1>9. ASSUME NEW k \in 1..n
      PROVE  /\ ops[k].input \in S2Input /\ ops[k].output \in S2Output
             /\ Value(Searched, order[k], "call") = ops[k].input
             /\ Label(Searched, order[k]) = <<ops[k].input, parse_finish(ops[k].output)>>
  BY <1>2, <1>7, LinesAre
<1>10. PICK f : WalkCourse(order, f)
  BY <1>1, <1>8, <1>9, WalkRuns
<1>11. /\ f[0] \in Seq(S2StreamState) /\ Range(f[0]) = {S2Init[1]}
       /\ \A k \in 1..n : f[k] = StepOrPanic(f[k - 1], Label(Searched, order[k]))
       /\ Walk(Searched, order) = f[n]
  BY <1>8, <1>10 DEF WalkCourse
<1>. DEFINE OnWalk(k) == f[k] = Panicked \/ (f[k] \in Seq(S2StreamState) /\ at[k] \in Range(f[k]))
            D           == { k \in 0..n : ~ OnWalk(k) }
<1>12. ASSUME NEW k \in 1..n, OnWalk(k - 1) PROVE OnWalk(k)
  <2>. DEFINE input == ops[k].input
              o     == ops[k].output
              o2    == parse_finish(ops[k].output)
  <2>1. /\ input \in S2Input /\ o \in S2Output /\ f[k] = StepOrPanic(f[k - 1], <<input, o2>>)
        /\ at[k] \in Range(S2Step(at[k - 1], input, o))
    BY <1>1, <1>9, <1>11
  <2>. HIDE DEF input, o
  <2>2. CASE f[k - 1] = Panicked
    BY <2>1, <2>2 DEF StepOrPanic
  <2>3. CASE f[k - 1] \in Seq(S2StreamState) /\ at[k - 1] \in Range(f[k - 1])
    <3>1. CASE \E s \in Range(f[k - 1]) : Overflows(s, input)
      BY <2>1, <2>3, <3>1, StepOrPanicIs
    <3>2. CASE \A s \in Range(f[k - 1]) : ~ Overflows(s, input)
      <4>1. Range(f[k - 1]) \subseteq S2StreamState
        BY <2>3 DEF Range
      <4>2. o2 = o
        BY <2>1, <2>3, <3>2, <4>1, StepIsParsed DEF o
      <4>3. at[k] \in Leads(f[k - 1], input, o2)
        BY <2>1, <2>3, <4>2 DEF Leads
      <4>4. f[k] \in Seq(S2StreamState) /\ Range(f[k]) = Leads(f[k - 1], input, o2)
        <5>. HIDE DEF Leads, o2
        <5>. QED BY <2>1, <2>3, <3>2, <4>3, StepOrPanicIs
      <4>. QED BY <4>3, <4>4
    <3>. QED BY <3>1, <3>2
  <2>. QED BY <1>12, <2>2, <2>3
<1>13. D = {}
  <2>1. SUFFICES ASSUME D # {} PROVE FALSE
    OBVIOUS
  <2>2. PICK k \in D : \A j \in D : ~ (j < k)
    <3>1. D \subseteq Nat
      OBVIOUS
    <3>. HIDE DEF D
    <3>. QED BY <2>1, <3>1, LeastNumber
  <2>3. OnWalk(0)
    BY <1>1, <1>11
  <2>. HIDE DEF OnWalk
  <2>4. k \in 1..n /\ k - 1 \in 0..n /\ k - 1 < k
    BY <1>1, <2>2, <2>3
  <2>5. OnWalk(k - 1)
    BY <2>2, <2>4
  <2>. QED BY <1>12, <2>2, <2>4, <2>5
<1>14. f[n] # NoPower
  <2>1. OnWalk(n)
    BY <1>1, <1>13
  <2>. QED BY <2>1, CheckerAssumption
<1>. QED BY <1>8, <1>11, <1>14

-----------------------------------------------------------------------------
(* A walk that ends in a state went through states only, none of which     *)
(* overflows.                                                              *)
LEMMA WalkStays ==
  ASSUME FileInv, WellFormedFile, NEW order \in Orders(Searched),
         NEW f, WalkCourse(order, f), f[Len(order)] \notin {NoPower, Panicked},
         NEW k \in 0..Len(order)
  PROVE  f[k] \in Seq(S2StreamState)
<1>. DEFINE n == Len(order)
            D == { x \in 0..n : f[n - x] \notin Seq(S2StreamState) }
<1>1. /\ n \in Nat /\ \A x \in 0..n : f[x] \in Powers
      /\ \A x \in 1..n : f[x] = StepOrPanic(f[x - 1], Label(Searched, order[x]))
      /\ f[n] \notin {NoPower, Panicked}
  BY OrderIs DEF WalkCourse
<1>2. D = {}
  <2>1. SUFFICES ASSUME D # {} PROVE FALSE
    OBVIOUS
  <2>2. PICK x \in D : \A y \in D : ~ (y < x)
    <3>1. D \subseteq Nat
      OBVIOUS
    <3>. HIDE DEF D
    <3>. QED BY <2>1, <3>1, LeastNumber
  <2>. HIDE DEF n
  <2>3. x # 0
    <3>1. f[n] \in Seq(S2StreamState) /\ n - 0 = n
      BY <1>1 DEF Powers
    <3>. QED BY <2>2, <3>1
  <2>4. x - 1 \in 0..n /\ x - 1 < x /\ n - (x - 1) \in 1..n /\ (n - (x - 1)) - 1 = n - x
        /\ n - x \in 0..n
    BY <1>1, <2>2, <2>3
  <2>5. f[n - (x - 1)] \in Seq(S2StreamState)
    BY <2>2, <2>4
  <2>6. f[n - x] \in {NoPower, Panicked}
    BY <1>1, <2>2, <2>4 DEF Powers
  <2>7. f[n - (x - 1)] = f[n - x]
    BY <1>1, <2>4, <2>6 DEF StepOrPanic
  <2>. QED BY <2>5, <2>6, <2>7, CheckerAssumption
<1>3. n - k \in 0..n /\ n - (n - k) = k
  BY <1>1
<1>. QED BY <1>2, <1>3

(* And every state it ends in was come to from the initial one.            *)
Path(order, outputs, k, at) ==
  /\ at \in [0..k -> S2StreamState]
  /\ at[0] = S2Init[1]
  /\ \A x \in 1..k :
       at[x] \in Range(S2Step(at[x - 1], Value(Searched, order[x], "call"), outputs[x]))

HasPath(order, outputs, k, t) == \E at : Path(order, outputs, k, at) /\ at[k] = t

(* The file says of each operation what the search is to take as such.     *)
Recorded(order, outputs) ==
  \A k \in 1..Len(order) :
    /\ Value(Searched, order[k], "call") \in S2Input
    /\ outputs[k] \in S2Output
    /\ Fits(Value(Searched, order[k], "call"), outputs[k])
    /\ Label(Searched, order[k]) =
         <<Value(Searched, order[k], "call"), parse_finish(outputs[k])>>

(* So is every state that the walk goes through.                           *)
LEMMA WalkHasPath ==
  ASSUME NEW order, Len(order) \in Nat, NEW outputs, Recorded(order, outputs),
         NEW f, WalkCourse(order, f),
         \A k \in 0..Len(order) : f[k] \in Seq(S2StreamState),
         NEW m \in 0..Len(order), NEW t \in Range(f[m])
  PROVE  HasPath(order, outputs, m, t)
<1>. DEFINE n      == Len(order)
            Led(k) == \A s \in Range(f[k]) : HasPath(order, outputs, k, s)
            D      == { k \in 0..n : ~ Led(k) }
<1>1. Led(0)
  <2>. SUFFICES ASSUME NEW s \in Range(f[0])
       PROVE  HasPath(order, outputs, 0, s)
    OBVIOUS
  <2>1. s = S2Init[1] /\ s \in S2StreamState
    <3>1. 0 \in 0..n /\ Range(f[0]) = {S2Init[1]}
      BY DEF WalkCourse
    <3>2. f[0] \in Seq(S2StreamState)
      BY <3>1
    <3>3. Range(f[0]) \subseteq S2StreamState
      BY <3>2 DEF Range
    <3>. QED BY <3>1, <3>3
  <2>. DEFINE at == [k \in 0..0 |-> s]
  <2>2. at \in [0..0 -> S2StreamState] /\ at[0] = s
    BY <2>1
  <2>. HIDE DEF at
  <2>3. Path(order, outputs, 0, at)
    BY <2>1, <2>2 DEF Path
  <2>. QED BY <2>2, <2>3 DEF HasPath
<1>2. ASSUME NEW k \in 1..n, Led(k - 1) PROVE Led(k)
  <2>. SUFFICES ASSUME NEW s \in Range(f[k])
       PROVE  HasPath(order, outputs, k, s)
    OBVIOUS
  <2>. DEFINE input == Value(Searched, order[k], "call")
              o     == outputs[k]
              o2    == parse_finish(outputs[k])
  <2>1. /\ k - 1 \in 0..n /\ k \in 0..n
        /\ f[k - 1] \in Seq(S2StreamState) /\ f[k] \in Seq(S2StreamState)
        /\ Range(f[k - 1]) \subseteq S2StreamState /\ Range(f[k]) \subseteq S2StreamState
    <3>1. k - 1 \in 0..n /\ k \in 0..n
      OBVIOUS
    <3>. QED BY <3>1 DEF Range
  <2>2. /\ f[k] = StepOrPanic(f[k - 1], <<input, o2>>)
        /\ input \in S2Input /\ o \in S2Output /\ Fits(input, o)
    BY DEF WalkCourse, Recorded
  <2>. HIDE DEF input, o, o2
  <2>3. Range(f[k]) = Leads(f[k - 1], input, o2)
    <3>1. f[k] # Panicked /\ f[k] # NoPower
      BY <2>1, CheckerAssumption
    <3>. HIDE DEF Leads
    <3>. QED BY <2>1, <2>2, <3>1, StepOrPanicIs
  <2>4. PICK r \in Range(f[k - 1]) : s \in Range(S2Step(r, input, o2))
    BY <2>3 DEF Leads
  <2>5. s \in Range(S2Step(r, input, o))
    BY <2>1, <2>2, <2>4, ParsedIsStep DEF o, o2
  <2>6. PICK at0 : Path(order, outputs, k - 1, at0) /\ at0[k - 1] = r
    BY <1>2, <2>4 DEF HasPath
  <2>. DEFINE at == [x \in 0..k |-> IF x = k THEN s ELSE at0[x]]
  <2>7. /\ at \in [0..k -> S2StreamState] /\ at[k] = s
        /\ \A x \in 0..(k - 1) : at[x] = at0[x]
    BY <2>1, <2>6 DEF Path
  <2>. HIDE DEF at
  <2>8. at[0] = S2Init[1]
    BY <2>6, <2>7 DEF Path
  <2>9. ASSUME NEW x \in 1..k
        PROVE  at[x] \in Range(S2Step(at[x - 1], Value(Searched, order[x], "call"), outputs[x]))
    <3>1. x - 1 \in 0..(k - 1)
      OBVIOUS
    <3>2. CASE x = k
      BY <2>5, <2>6, <2>7, <3>1, <3>2 DEF input, o
    <3>3. CASE x # k
      <4>1. x \in 1..(k - 1) /\ x \in 0..(k - 1)
        BY <3>3
      <4>2. at0[x] \in Range(S2Step(at0[x - 1], Value(Searched, order[x], "call"), outputs[x]))
        BY <2>6, <4>1 DEF Path
      <4>. QED BY <2>7, <3>1, <4>1, <4>2
    <3>. QED BY <3>2, <3>3
  <2>10. Path(order, outputs, k, at)
    BY <2>7, <2>8, <2>9 DEF Path
  <2>. QED BY <2>7, <2>10 DEF HasPath
<1>3. D = {}
  <2>1. SUFFICES ASSUME D # {} PROVE FALSE
    OBVIOUS
  <2>2. PICK k \in D : \A j \in D : ~ (j < k)
    <3>1. D \subseteq Nat
      OBVIOUS
    <3>. HIDE DEF D
    <3>. QED BY <2>1, <3>1, LeastNumber
  <2>. HIDE DEF Led
  <2>3. k \in 1..n /\ k - 1 \in 0..n /\ k - 1 < k
    BY <1>1, <2>2
  <2>4. Led(k - 1)
    BY <2>2, <2>3
  <2>. QED BY <1>2, <2>2, <2>3, <2>4
<1>. QED BY <1>3

(* So the order of a walk that is accepted is one of a run of the file.    *)
LEMMA WalkIsRun ==
  ASSUME FileInv, WellFormedFile, TailsFit, NEW order \in Orders(Searched),
         Walk(Searched, order) \notin {NoPower, Panicked}
  PROVE  \E n, ops, at :
           /\ Run([c \in Clients |-> Idle], n, ops, at)
           /\ n = 0 \/ Finished(ops[n].id)
<1>. DEFINE n       == Len(order)
            P(k)    == CHOOSE p : \E q : LinesOf(order[k], p, q)
            Q(k)    == CHOOSE q : LinesOf(order[k], P(k), q)
            outputs == [k \in 1..n |-> file[Q(k)].value]
            op(k)   == [id |-> file[P(k)].op_id, input |-> file[P(k)].value, output |-> outputs[k]]
            ops     == [k \in 1..n |-> op(k)]
            reply   == [c \in Clients |-> Idle]
<1>1. /\ n \in Nat
      /\ order \in [1..n -> SearchedIds]
      /\ \A j, k \in 1..n : order[j] = order[k] => j = k
      /\ \A i \in SearchedIds : \E k \in 1..n : order[k] = i
      /\ \A j, k \in 1..n : j < k => ~ Before(Searched, order[k], order[j])
  BY OrderIs
<1>2. ASSUME NEW k \in 1..n PROVE LinesOf(order[k], P(k), Q(k))
  <2>1. \E p, q : LinesOf(order[k], p, q)
    BY <1>1, OperationsOfFile
  <2>. QED BY <2>1
<1>. HIDE DEF P, Q, n
<1>3. ASSUME NEW k \in 1..n
      PROVE  /\ P(k) \in DOMAIN file /\ Q(k) \in DOMAIN file
             /\ op(k) \in Steps
             /\ file[P(k)] = Start(op(k).id, op(k).input)
             /\ file[Q(k)] = Finish(op(k).id, op(k).output)
             /\ order[k] = New(op(k).id) /\ op(k).id = file[P(k)].op_id
             /\ Value(Searched, order[k], "call") = op(k).input
             /\ op(k).output = outputs[k]
             /\ op(k).input \in S2Input /\ outputs[k] \in S2Output
             /\ Fits(op(k).input, outputs[k])
             /\ Label(Searched, order[k]) = <<op(k).input, parse_finish(outputs[k])>>
  <2>1. LinesOf(order[k], P(k), Q(k))
    BY <1>2
  <2>2. outputs[k] = file[Q(k)].value
    OBVIOUS
  <2>3. /\ op(k).id = file[P(k)].op_id /\ op(k).input = file[P(k)].value
        /\ op(k).output = outputs[k]
    OBVIOUS
  <2>4. op(k) = [id |-> op(k).id, input |-> op(k).input, output |-> op(k).output]
    OBVIOUS
  <2>5. Fits(file[P(k)].value, file[Q(k)].value)
    BY <2>1 DEF LinesOf, TailsFit
  <2>. HIDE DEF op, outputs
  <2>6. op(k) \in Steps
    <3>1. op(k).id \in Nat /\ op(k).input \in S2Input /\ op(k).output \in S2Output
      BY <2>1, <2>2, <2>3, LinesAre
    <3>. QED BY <2>4, <3>1 DEF Steps
  <2>. QED BY <2>1, <2>2, <2>3, <2>5, <2>6, LinesAre DEF LinesOf
<1>4. \A k \in 1..n : ops[k] = op(k)
  OBVIOUS
<1>5. ops \in [1..n -> Steps]
  <2>. HIDE DEF op
  <2>. QED BY <1>3
<1>. HIDE DEF op, ops, outputs
<1>6. PICK f : WalkCourse(order, f)
  BY <1>1, <1>3, WalkRuns DEF n
<1>7. Walk(Searched, order) = f[n] /\ f[n] \notin {NoPower, Panicked}
  BY <1>6 DEF WalkCourse, n
<1>8. \A k \in 0..n : f[k] \in Seq(S2StreamState)
  BY <1>6, <1>7, WalkStays DEF n
<1>9. \E t : t \in Range(f[n])
  <2>1. CASE n = 0
    BY <1>6, <2>1 DEF WalkCourse
  <2>2. CASE n # 0
    <3>1. n \in 1..n /\ n - 1 \in 0..n /\ n \in 0..n
      BY <1>1, <2>2
    <3>2. f[n] = StepOrPanic(f[n - 1], <<op(n).input, parse_finish(outputs[n])>>)
      BY <1>3, <1>6, <3>1 DEF WalkCourse, n
    <3>3. Range(f[n]) = Leads(f[n - 1], op(n).input, parse_finish(outputs[n]))
          /\ Leads(f[n - 1], op(n).input, parse_finish(outputs[n])) # {}
      <4>1. f[n - 1] \in Seq(S2StreamState) /\ op(n).input \in S2Input
        BY <1>3, <1>8, <3>1
      <4>. HIDE DEF Leads
      <4>. QED BY <1>7, <3>2, <4>1, StepOrPanicIs
    <3>. QED BY <3>3
  <2>. QED BY <2>1, <2>2
<1>10. PICK at : Path(order, outputs, n, at)
  <2>1. PICK t : t \in Range(f[n])
    BY <1>9
  <2>2. n = Len(order) /\ n \in 0..n
    BY <1>1 DEF n
  <2>3. Recorded(order, outputs)
    BY <1>3 DEF Recorded, n
  <2>4. HasPath(order, outputs, n, t)
    BY <1>1, <1>6, <1>8, <2>1, <2>2, <2>3, WalkHasPath DEF n
  <2>. QED BY <2>4 DEF HasPath
<1>11. RunTyped(n, ops, at)
  <2>1. at \in [0..n -> Streams]
    BY <1>10, StatesAreStreams DEF Path
  <2>. QED BY <1>1, <1>5, <2>1 DEF RunTyped
<1>12. RunSteps(n, ops, at)
  BY <1>3, <1>4, <1>10 DEF Path, RunSteps
<1>13. RunOrdered(n, ops)
  <2>. SUFFICES ASSUME NEW j \in 1..n, NEW k \in 1..n, j < k
       PROVE  ops[j].id # ops[k].id /\ ~ FileBefore(ops[k].id, ops[j].id)
    BY DEF RunOrdered
  <2>1. j # k
    BY <1>1
  <2>2. order[j] # order[k] /\ ~ Before(Searched, order[k], order[j])
    BY <1>1, <2>1
  <2>3. /\ P(j) \in DOMAIN file /\ P(k) \in DOMAIN file
        /\ ops[j].id = file[P(j)].op_id /\ ops[k].id = file[P(k)].op_id
        /\ order[j] = New(file[P(j)].op_id) /\ order[k] = New(file[P(k)].op_id)
    BY <1>3, <1>4
  <2>4. ~ FileBefore(file[P(k)].op_id, file[P(j)].op_id)
    BY <2>2, <2>3, BeforeOfFile DEF WellFormedFile
  <2>. QED BY <2>2, <2>3, <2>4
<1>14. RunAsked(n, ops)
  BY <1>3, <1>4 DEF RunAsked
<1>15. RunAnswered(reply, n, ops)
  BY <1>3, <1>4 DEF RunAnswered, FileAnswers
<1>16. RunComplete(reply, n, ops)
  <2>1. ASSUME NEW i, Finished(i) PROVE \E k \in 1..n : ops[k].id = i
    <3>1. PICK q \in DOMAIN file : file[q].event = "Finish" /\ file[q].op_id = i
      BY <2>1 DEF Finished
    <3>2. New(i) \in SearchedIds
      BY <3>1, ListOfFile DEF SearchedIds, WellFormedFile
    <3>3. PICK k \in 1..n : order[k] = New(i)
      BY <1>1, <3>2
    <3>4. P(k) \in DOMAIN file /\ ops[k].id = file[P(k)].op_id /\ New(file[P(k)].op_id) = New(i)
      BY <1>3, <1>4, <3>3
    <3>. QED BY <3>1, <3>4, NewIdsDiffer DEF WellFormedFile
  <2>. QED BY <2>1 DEF RunComplete
<1>17. Run(reply, n, ops, at)
  BY <1>11, <1>12, <1>13, <1>14, <1>15, <1>16 DEF Run
<1>18. n = 0 \/ Finished(ops[n].id)
  <2>1. CASE n # 0
    <3>1. n \in 1..n
      BY <1>1, <2>1
    <3>2. /\ Q(n) \in DOMAIN file /\ file[Q(n)] = Finish(op(n).id, op(n).output)
          /\ ops[n] = op(n)
      BY <1>3, <1>4, <3>1
    <3>3. file[Q(n)].event = "Finish" /\ file[Q(n)].op_id = ops[n].id
      BY <3>2 DEF Finish
    <3>. QED BY <3>2, <3>3 DEF Finished
  <2>. QED BY <2>1
<1>. QED BY <1>17, <1>18

-----------------------------------------------------------------------------
(* What the world keeps as long as the file is whole.                      *)
Faithful ==
  /\ FileInv /\ possible \subseteq Worlds /\ Sound
  /\ Disciplined => TokensKnown /\ Complete

(* At first nothing was asked.                                             *)
LEMMA FaithfulInit == WorldInit => Faithful
<1>1. ASSUME WorldInit PROVE TokensKnown
  <2>1. \A c \in Clients : pending[c] = Idle
    BY <1>1 DEF WorldInit
  <2>. QED BY <2>1 DEF TokensKnown
<1>. QED BY <1>1, FileInit, SoundInit, CompleteInit DEF Faithful

(* Every line that is recorded keeps it so,                                *)
LEMMA FaithfulRecord == Faithful /\ Record => Faithful'
<1>. SUFFICES ASSUME Faithful, Record PROVE Faithful'
  OBVIOUS
<1>1. FileInv /\ possible \subseteq Worlds /\ Sound
  BY DEF Faithful
<1>2. ASSUME NEW c \in Clients, NEW request \in Requests, Ask(c, request) PROVE Faithful'
  <2>1. FileInv'
    BY <1>1, <1>2, FileAsk
  <2>2. possible' \subseteq Worlds
    BY <1>1, <1>2, AskAdds
  <2>3. Sound'
    BY <1>1, <1>2, SoundAsk
  <2>4. Disciplined => TokensKnown' /\ Complete'
    BY <1>1, <1>2, TokensAsk, CompleteAsk DEF Faithful
  <2>5. Worlds' = Worlds
    BY DEF Worlds, Streams, S2Output
  <2>. QED BY <2>1, <2>2, <2>3, <2>4, <2>5 DEF Faithful
<1>3. ASSUME NEW c \in Clients, NEW output, Reply(c, output) PROVE Faithful'
  <2>1. FileInv'
    BY <1>1, <1>3, FileReply
  <2>2. possible' \subseteq Worlds
    BY <1>1, <1>3, PossibleTyped
  <2>3. Sound'
    BY <1>1, <1>3, SoundReply
  <2>4. Disciplined => TokensKnown' /\ Complete'
    BY <1>1, <1>3, TokensReply, CompleteReply DEF Faithful
  <2>. QED BY <2>1, <2>2, <2>3, <2>4 DEF Faithful
<1>. QED BY <1>2, <1>3 DEF Record, Reply

(* and nothing else touches the world.                                     *)
LEMMA FaithfulSame == Faithful /\ UNCHANGED world => Faithful'
<1>. SUFFICES ASSUME Faithful, UNCHANGED world PROVE Faithful'
  OBVIOUS
<1>1. file' = file /\ pending' = pending /\ possible' = possible
  BY DEF world
<1>2. FileInv'
  <2>1. IdsAsked' /\ OneLineEach'
    BY <1>1 DEF Faithful, FileInv, IdsAsked, Asked, OneLineEach
  <2>2. AnswersAsked' /\ PendingAsked'
    BY <1>1 DEF Faithful, FileInv, AnswersAsked, PendingAsked
  <2>. QED BY <1>1, <2>1, <2>2 DEF Faithful, FileInv
<1>3. /\ \A i : Finished(i)' <=> Finished(i)
      /\ \A i, j : FileBefore(i, j)' <=> FileBefore(i, j)
      /\ \A op : FileAnswers(op)' <=> FileAnswers(op)
      /\ \A c, reply, op : ReplyAnswers(c, reply, op)' <=> ReplyAnswers(c, reply, op)
  BY <1>1 DEF Finished, FileBefore, FileAnswers, ReplyAnswers
<1>4. ASSUME NEW reply, NEW n, NEW ops, NEW at
      PROVE  Run(reply, n, ops, at)' <=> Run(reply, n, ops, at)
  <2>1. RunOrdered(n, ops)' <=> RunOrdered(n, ops)
    BY <1>3 DEF RunOrdered
  <2>2. RunAsked(n, ops)' <=> RunAsked(n, ops)
    BY <1>1 DEF RunAsked
  <2>3. RunAnswered(reply, n, ops)' <=> RunAnswered(reply, n, ops)
    BY <1>3 DEF RunAnswered
  <2>4. RunComplete(reply, n, ops)' <=> RunComplete(reply, n, ops)
    BY <1>1, <1>3 DEF RunComplete
  <2>. QED BY <2>1, <2>2, <2>3, <2>4 DEF Run, RunTyped, RunSteps
<1>5. Sound'
  <2>. SUFFICES ASSUME NEW w \in possible' PROVE HasRun(w)'
    BY DEF Sound
  <2>1. HasRun(w)
    BY <1>1 DEF Faithful, Sound
  <2>. QED BY <1>4, <2>1 DEF HasRun
<1>6. Disciplined => TokensKnown' /\ Complete'
  BY <1>1, <1>3, <1>4 DEF Faithful, TokensKnown, Complete
<1>. QED BY <1>1, <1>2, <1>5, <1>6 DEF Faithful

(* What the search makes of the worlds that are possible.                  *)
LEMMA RefusedHasNone ==
  ASSUME Faithful, WellFormedFile, "refused" \in SearchOutcomes(Searched)
  PROVE  possible = {}
<1>1. SUFFICES ASSUME NEW w \in possible PROVE FALSE
  OBVIOUS
<1>2. Walks(Searched) = {NoPower}
  BY DEF SearchOutcomes
<1>3. PICK n, ops, at : Run(w.reply, n, ops, at)
  BY <1>1 DEF Faithful, Sound, HasRun
<1>4. PICK order \in Orders(Searched) : Walk(Searched, order) # NoPower
  BY <1>3, RunWalks DEF Faithful
<1>. QED BY <1>2, <1>4 DEF Walks

(* An accepted walk is a run, and its world is possible.                   *)
LEMMA AcceptedHasSome ==
  ASSUME Disciplined, TailsFit, Faithful, WellFormedFile,
         "accepted" \in SearchOutcomes(Searched)
  PROVE  possible # {}
<1>1. PICK w \in Walks(Searched) : w \notin {NoPower, Panicked}
  BY DEF SearchOutcomes
<1>2. PICK order \in Orders(Searched) : w = Walk(Searched, order)
  BY DEF Walks
<1>. DEFINE reply == [c \in Clients |-> Idle]
<1>3. PICK n, ops, at : Run(reply, n, ops, at) /\ (n = 0 \/ Finished(ops[n].id))
  BY <1>1, <1>2, WalkIsRun DEF Faithful
<1>4. reply \in [Clients -> S2Output \cup {Idle}]
  OBVIOUS
<1>5. [stream |-> at[n], reply |-> reply] \in possible
  BY <1>3, <1>4 DEF Faithful, Complete
<1>. QED BY <1>5

-----------------------------------------------------------------------------
(* The inductive invariant.  Once the collector has died nothing is known  *)
(* of the file but that it is torn.                                        *)
IInv ==
  /\ Whole => Faithful
  /\ exit = NotExited => result = "none"
  /\ JudgedIsWhole
  /\ RefusedIsImpossible
  /\ Disciplined /\ TailsFit => AcceptedIsPossible

(* It holds at first.                                                      *)
LEMMA InitIInv == Init => IInv
BY FaithfulInit, CheckerAssumption
   DEF Init, IInv, JudgedIsWhole, RefusedIsImpossible, AcceptedIsPossible

(* A collector that dies leaves a torn file, of which nothing is claimed.  *)
LEMMA DiesIInv == IInv /\ CollectorDies => IInv'
<1>. SUFFICES ASSUME IInv, CollectorDies PROVE IInv'
  OBVIOUS
<1>1. /\ exit = NotExited /\ exit' = exit /\ result = "none" /\ result' = result
      /\ file \in Seq(Lines) /\ file' = Append(file, Torn)
  BY DEF IInv, CollectorDies, Recording, Whole, Faithful, FileInv
<1>2. ~ Whole'
  <2>1. Len(file) + 1 \in 1..Len(file') /\ file'[Len(file) + 1] = Torn
    BY <1>1
  <2>. QED BY <2>1 DEF Whole, Contains
<1>. QED BY <1>1, <1>2, CheckerAssumption
     DEF IInv, JudgedIsWhole, RefusedIsImpossible, AcceptedIsPossible

(* A line that is recorded is no answer.                                   *)
LEMMA RecordsIInv == IInv /\ CollectorRecords => IInv'
<1>. SUFFICES ASSUME IInv, CollectorRecords PROVE IInv'
  OBVIOUS
<1>1. exit = NotExited /\ exit' = exit /\ result = "none" /\ result' = result
  BY DEF IInv, CollectorRecords, Recording
<1>2. Faithful'
  BY FaithfulRecord DEF IInv, CollectorRecords, Recording, Whole
<1>. QED BY <1>1, <1>2, CheckerAssumption
     DEF IInv, JudgedIsWhole, RefusedIsImpossible, AcceptedIsPossible

(* Nor is a call that is rejected.                                         *)
LEMMA RejectsIInv == IInv /\ MainRejects => IInv'
<1>. SUFFICES ASSUME IInv, MainRejects PROVE IInv'
  OBVIOUS
<1>1. exit' = 1 /\ result' = "none" /\ UNCHANGED world
  BY DEF MainRejects, Exit
<1>2. Whole' => Faithful'
  BY <1>1, FaithfulSame DEF IInv, Whole, world
<1>. QED BY <1>1, <1>2 DEF IInv, JudgedIsWhole, RefusedIsImpossible, AcceptedIsPossible

(* An answer is one about a whole file.                                    *)
LEMMA ChecksIInv == IInv /\ MainChecks => IInv'
<1>. SUFFICES ASSUME IInv, MainChecks PROVE IInv'
  OBVIOUS
<1>1. UNCHANGED world
  BY DEF MainChecks, Exit
<1>2. Whole' => Faithful'
  BY <1>1, FaithfulSame DEF IInv, Whole, world
<1>3. CASE exit' = 101 /\ result' = "none"
  BY <1>2, <1>3 DEF IInv, JudgedIsWhole, RefusedIsImpossible, AcceptedIsPossible
<1>4. ASSUME NEW outcome, Judged(outcome) PROVE IInv'
  <2>1. /\ WellFormedFile /\ outcome \in SearchOutcomes(Searched)
        /\ exit' = ExitCode(result')
        /\ result' = "Ok" => outcome = "accepted"
        /\ result' = "Illegal" => outcome = "refused"
    BY <1>4 DEF Judged
  <2>2. Faithful /\ Whole
    BY <2>1 DEF IInv, WellFormedFile
  <2>3. JudgedIsWhole'
    <3>1. \A c \in Clients : pending[c] = Idle
      BY <2>1, <2>2, WellFormedIsAnswered DEF Faithful
    <3>. QED BY <1>1, <2>2, <3>1 DEF JudgedIsWhole, Whole, world
  <2>4. RefusedIsImpossible'
    BY <1>1, <2>1, <2>2, RefusedHasNone DEF RefusedIsImpossible, world
  <2>5. ASSUME Disciplined, TailsFit PROVE AcceptedIsPossible'
    <3>1. exit' = 0 => result' = "Ok"
      BY <2>1 DEF ExitCode
    <3>. QED BY <1>1, <2>1, <2>2, <2>5, <3>1, AcceptedHasSome DEF AcceptedIsPossible, world
  <2>6. exit' # NotExited
    BY <2>1, CheckerAssumption DEF ExitCode
  <2>. QED BY <1>2, <2>3, <2>4, <2>5, <2>6 DEF IInv
<1>. QED BY <1>3, <1>4, MainEnds

(* The process that has ended changes nothing.                             *)
LEMMA StutterIInv == IInv /\ UNCHANGED vars => IInv'
<1>. SUFFICES ASSUME IInv, UNCHANGED vars PROVE IInv'
  OBVIOUS
<1>1. UNCHANGED world /\ result' = result /\ exit' = exit
  BY DEF vars
<1>2. Whole' => Faithful'
  BY <1>1, FaithfulSame DEF IInv, Whole, world
<1>. QED BY <1>1, <1>2
     DEF IInv, JudgedIsWhole, RefusedIsImpossible, AcceptedIsPossible, world

(* So every step keeps the invariant,                                      *)
LEMMA StepIInv == IInv /\ [Next]_vars => IInv'
BY DiesIInv, RecordsIInv, RejectsIInv, ChecksIInv, StutterIInv DEF Next, Exited

(* and it always holds.                                                    *)
LEMMA AlwaysIInv == Spec => []IInv
BY InitIInv, StepIInv, PTL DEF Spec

(* A file that the collector has not completed is never judged: whatever   *)
(* it has recorded when it dies or the file is read, main gives no result  *)
(* for it.                                                                 *)
THEOREM JudgesOnlyWhole == Spec => []JudgedIsWhole
<1>1. IInv => JudgedIsWhole
  BY DEF IInv
<1>. QED BY <1>1, AlwaysIInv, PTL

(* FAIL is no false alarm: it is printed only for a history that no stream *)
(* that honours its guards can have produced, whatever the clients ask, in *)
(* whatever overlap, and whatever fails, and also if tails overflow.       *)
THEOREM NoFalseAlarm == Spec => []RefusedIsImpossible
<1>1. IInv => RefusedIsImpossible
  BY DEF IInv
<1>. QED BY <1>1, AlwaysIInv, PTL

(* PASS is given only to a history that such a stream can have produced,   *)
(* if clients name tokens only where one is known and no tail that is      *)
(* recorded is too large to be told from a smaller one.                    *)
THEOREM NoFalsePass ==
  ASSUME Disciplined, TailsFit
  PROVE  Spec => []AcceptedIsPossible
<1>1. IInv => AcceptedIsPossible
  BY DEF IInv
<1>. QED BY <1>1, AlwaysIInv, PTL
============================================================================
