------------------------------ MODULE S2Service ------------------------------
(***************************************************************************)
(* The world around examples/s2_checker.rs, which is not in this           *)
(* repository: clients of an S2 stream and the collector that records what *)
(* they ask and are answered, one line at a time.  The answers are any     *)
(* answers; `possible` keeps what a stream that honours its guards, and    *)
(* acts on every request between its two lines, can be in after the lines  *)
(* so far, so that it is empty once no such stream can have given them.    *)
(***************************************************************************)
EXTENDS S2StreamModel, Naturals, FiniteSets

CONSTANTS
  Clients,
  Idle,          \* nothing asked, nothing answered
  Requests,      \* what clients ask, but for the xxh3 of an append
  Replies(_),    \* the answers recorded for a request
  MaxOps,        \* bound: the most requests
  Disciplined    \* TRUE if a client names a fencing token only when the
                 \* stream is known to have one

(* An append is told from the others by its xxh3.                          *)
Labelled(request, op_id) ==
  IF request.op = "Append" THEN [request EXCEPT !.xxh3 = op_id] ELSE request

Inputs == { Labelled(request, n) : request \in Requests, n \in 1..MaxOps }

ASSUME ServiceAssumption ==
  /\ U32 \in Nat \ {0} /\ MaxOps \in Nat /\ None \notin Nat
  /\ IsFiniteSet(Clients) /\ Idle \notin S2Output
  /\ Requests \subseteq S2Input
  /\ \A input \in Inputs : Replies(input) \subseteq S2Output

VARIABLES
  file,      \* the lines recorded
  pending,   \* what each client has asked
  possible   \* the stream, and what each client will be answered

world == <<file, pending, possible>>

Start(op_id, input)   == [op_id |-> op_id, event |-> "Start", value |-> input]
Finish(op_id, output) == [op_id |-> op_id, event |-> "Finish", value |-> output]

WorldInit ==
  /\ file = <<>>
  /\ pending = [c \in Clients |-> Idle]
  /\ possible = { [stream |-> S2Init[1], reply |-> [c \in Clients |-> Idle]] }

(* The guards of an append, as the comments on S2Input state them. *)
Admits(s, input) ==
  /\ input.match_seq_num # None => input.match_seq_num = s.tail
  /\ input.fencing_token # None => input.fencing_token = s.fencing_token

(* What the stream may answer, and the stream after it. *)
Serve(s, input) ==
  CASE input.op = "Append" ->
         { <<AppendDefiniteFailure, s>>, <<AppendIndefiniteFailure, s>> }
         \cup { <<answer, Optimistic(s, input)>> :
                  answer \in IF Admits(s, input)
                             THEN { AppendSuccess(s.tail + input.num_records),
                                    AppendIndefiniteFailure }
                             ELSE {} }
    [] input.op = "Read" -> { <<ReadSuccess(s.tail, s.xxh3), s>>, <<ReadFailure, s>> }
    [] input.op = "CheckTail" -> { <<CheckTailSuccess(s.tail), s>>, <<CheckTailFailure, s>> }

(* Any of the requests pending may be served, one after another. *)
Served(worlds) ==
  worlds \cup
  UNION { UNION { { [stream |-> r[2], reply |-> [w.reply EXCEPT ![c] = r[1]]] :
                      r \in Serve(w.stream, pending[c].input) } :
                    c \in { d \in Clients : pending[d] # Idle /\ w.reply[d] = Idle } } :
            w \in worlds }

Reachable ==
  LET after[n \in 0..Cardinality(Clients)] ==
        IF n = 0 THEN possible ELSE Served(after[n - 1])
  IN  after[Cardinality(Clients)]

Asked == Cardinality({ p \in DOMAIN file : file[p].event = "Start" })

(* Clients go on asking whatever they have been answered; once no stream   *)
(* explains the answers, none is known to lack a token.                    *)
Ask(c, request) ==
  /\ Asked < MaxOps /\ pending[c] = Idle
  /\ Disciplined /\ request.op = "Append" =>
       \/ request.fencing_token = None
       \/ \A w \in possible : w.stream.fencing_token # None
  /\ LET op_id == Asked + 1
         input == Labelled(request, op_id)
     IN  /\ file' = Append(file, Start(op_id, input))
         /\ pending' = [pending EXCEPT ![c] = [op_id |-> op_id, input |-> input]]
  /\ UNCHANGED possible

Answered(c, output) ==
  /\ pending[c] # Idle
  /\ file' = Append(file, Finish(pending[c].op_id, output))
  /\ possible' = { [w EXCEPT !.reply[c] = Idle] : w \in { v \in Reachable : v.reply[c] = output } }
  /\ pending' = [pending EXCEPT ![c] = Idle]

Record ==
  \E c \in Clients :
    \/ \E request \in Requests : Ask(c, request)
    \/ pending[c] # Idle /\ \E output \in Replies(pending[c].input) : Answered(c, output)
=============================================================================
