------------------------------- MODULE Search -------------------------------
(***************************************************************************)
(* The backtracking search of check_single (src/checker.rs), on sets and   *)
(* positions: the linked list is the set of its live entries, the bitset   *)
(* the set of its operations and the hash-bucketed cache a set of pairs.   *)
(* Module CheckSingle gives these their pointers, words and buckets and is *)
(* shown to implement this one.                                            *)
(*                                                                         *)
(* One action is one iteration of the search loop, which begins by reading *)
(* the kill flag.  The flag belongs to the environment: the timer thread   *)
(* and the searches of the other partitions set it, and nothing clears it. *)
(***************************************************************************)
EXTENDS History, FiniteSets

CONSTANT Histories   \* the entry lists a search may be started on

ASSUME HistoriesAssumption == \A E \in Histories : WellFormed(E)

VARIABLES
  entries,      \* the argument of check_single
  kill,         \* the kill flag, as this thread sees it
  linearized,   \* the operations linearized so far
  state,        \* the model's state after them
  calls,        \* the stack: call position and the state before it
  cursor,       \* the position under examination; End if there is none
  cache,        \* the pairs of operations and state ever entered
  returned      \* "no" while searching, else the value returned

vars == <<entries, kill, linearized, state, calls, cursor, cache, returned>>

(* The None of head_next and next_of: one past the last position. *)
End(E) == Len(E) + 1

Live(E, L) == { p \in DOMAIN E : E[p].id \notin L }

(* q is the first live position after p (head_next when p is 0). *)
FirstAfter(E, L, p, q) ==
  /\ q \in Live(E, L) \cup {End(E)}
  /\ q > p
  /\ \A r \in Live(E, L) : r > p => r >= q

Init ==
  /\ entries \in Histories
  /\ kill \in BOOLEAN
  /\ linearized = {}
  /\ state = InitState
  /\ calls = <<>>
  /\ cursor \in DOMAIN entries \cup {End(entries)}
  /\ FirstAfter(entries, {}, 0, cursor)
  /\ cache = {}
  /\ returned = "no"
-----------------------------------------------------------------------------
Return(v) ==
  /\ returned' = v
  /\ UNCHANGED <<entries, kill, linearized, state, calls, cursor, cache>>

MoveCursor(L, p) ==
  \E q \in DOMAIN entries \cup {End(entries)} :
    FirstAfter(entries, L, p, q) /\ cursor' = q

(* An empty list is accepted before the kill flag is looked at. *)
ReturnEmpty ==
  /\ returned = "no"
  /\ entries = <<>>
  /\ Return("true")

Looping == returned = "no" /\ entries # <<>>

ReturnKilled ==
  /\ Looping /\ kill
  /\ Return("false")

Running == Looping /\ ~kill

(* The cursor ran off the list: everything has been linearized. *)
ReturnTrue ==
  /\ Running
  /\ cursor = End(entries)
  /\ Return("true")

AtCall == Running /\ cursor # End(entries) /\ IsCall(entries, cursor)

NextState == Apply(entries, state, entries[cursor].id)
NextNode  == <<linearized \cup {entries[cursor].id}, NextState>>

CacheHitOnSetAlone == \E n \in cache : n[1] = NextNode[1]   \* mutant
CacheHit           == NextNode \in cache

LinearizeUnchecked ==                                     \* mutant
  /\ AtCall
  /\ ~CacheHit
  /\ cache' = cache \cup {NextNode}
  /\ calls' = Append(calls, [node |-> cursor, state |-> state])
  /\ state' = NextState
  /\ linearized' = linearized \cup {entries[cursor].id}
  /\ MoveCursor(linearized', 0)
  /\ UNCHANGED <<entries, kill, returned>>

Linearize ==
  /\ AtCall
  /\ NextState # Rejected
  /\ ~CacheHit
  /\ cache' = cache \cup {NextNode}
  /\ calls' = Append(calls, [node |-> cursor, state |-> state])
  /\ state' = NextState
  /\ linearized' = linearized \cup {entries[cursor].id}
  /\ MoveCursor(linearized', 0)
  /\ UNCHANGED <<entries, kill, returned>>

Skip ==
  /\ MoveCursor(linearized, cursor)
  /\ UNCHANGED <<entries, kill, linearized, state, calls, cache, returned>>

SkipRejected == AtCall /\ NextState = Rejected /\ Skip

SkipCached == AtCall /\ NextState # Rejected /\ CacheHit /\ Skip

AtReturn == Running /\ cursor # End(entries) /\ IsReturn(entries, cursor)

BacktrackTo(newState, cleared, resumeAt) ==
  /\ AtReturn
  /\ calls # <<>>
  /\ calls' = SubSeq(calls, 1, Len(calls) - 1)
  /\ state' = newState
  /\ linearized' = linearized \ cleared
  /\ MoveCursor(linearized', resumeAt)
  /\ UNCHANGED <<entries, kill, cache, returned>>

Frame   == calls[Len(calls)]
FrameOp == entries[Frame.node].id

BacktrackKeepingState ==                                  \* mutant
  BacktrackTo(state, {FrameOp}, Frame.node)

BacktrackKeepingBit ==                                    \* mutant
  BacktrackTo(Frame.state, {}, Frame.node)

BacktrackPastReturn ==                                    \* mutant
  BacktrackTo(Frame.state, {FrameOp}, ReturnOf(entries, FrameOp))

Backtrack == BacktrackTo(Frame.state, {FrameOp}, Frame.node)

ReturnExhausted ==
  /\ AtReturn
  /\ calls = <<>>
  /\ Return("false")
-----------------------------------------------------------------------------
(* The environment: a timer or a sibling's verdict stops the search. *)
SetKill ==
  /\ ~kill
  /\ kill' = TRUE
  /\ UNCHANGED <<entries, linearized, state, calls, cursor, cache, returned>>

(* The search is over; allows behaviours to end without a deadlock. *)
Returned == returned # "no" /\ UNCHANGED vars

Iterate ==
  \/ ReturnEmpty
  \/ ReturnKilled
  \/ ReturnTrue
  \/ Linearize
  \/ SkipRejected
  \/ SkipCached
  \/ Backtrack
  \/ ReturnExhausted

Next == Iterate \/ SetKill \/ Returned

Spec == Init /\ [][Next]_vars

(* The thread that runs the search is scheduled as long as it has work. *)
FairSpec == Spec /\ WF_vars(Iterate)
-----------------------------------------------------------------------------
TypeOK ==
  /\ WellFormed(entries)
  /\ kill \in BOOLEAN
  /\ linearized \in SUBSET Ops(entries)
  /\ state \in State
  /\ calls \in Seq([node : DOMAIN entries, state : State])
  /\ cursor \in DOMAIN entries \cup {End(entries)}
  /\ cache \in SUBSET ((SUBSET Ops(entries)) \X State)
  /\ returned \in {"no", "true", "false"}

(* The operations on the stack, oldest first, and the states around them. *)
Order == [k \in 1..Len(calls) |-> entries[calls[k].node].id]
Trace == [k \in 0..Len(calls) |->
            IF k = Len(calls) THEN state ELSE calls[k + 1].state]

(* The stack always records a legal beginning of a linearization: distinct *)
(* operations, exactly those of the bitset, whose successive states are    *)
(* the ones saved in the frames and end in the current state.              *)
StackIsExecution ==
  /\ \A j, k \in 1..Len(calls) : j < k => Order[j] # Order[k]
  /\ linearized = { Order[k] : k \in 1..Len(calls) }
  /\ Trace[0] = InitState
  /\ \A k \in 1..Len(calls) : Trace[k] = Apply(entries, Trace[k - 1], Order[k])

(* No operation is linearized over the return of one that was still live:  *)
(* every return before a frame's call belongs to an earlier frame, and     *)
(* every return before the cursor belongs to a linearized operation.       *)
NoReturnJumped ==
  /\ \A k \in 1..Len(calls) :
       /\ IsCall(entries, calls[k].node)
       /\ \A p \in DOMAIN entries :
            p < calls[k].node /\ IsReturn(entries, p)
              => \E j \in 1..(k - 1) : Order[j] = entries[p].id
  /\ \A p \in DOMAIN entries :
       p < cursor /\ IsReturn(entries, p) => entries[p].id \in linearized

(* INV-LIN-01, soundness: when check_single returns true, the stack it     *)
(* leaves behind is a linearization of the whole list.                     *)
AcceptedIsLinearization ==
  returned = "true" => IsLinearization(entries, Len(calls), Order, Trace)

(* INV-LIN-02, completeness, as check_parallel uses it: when check_single  *)
(* returns false and the kill flag is still clear, the list has no         *)
(* linearization.                                                          *)
RefusedIsNotLinearizable ==
  returned = "false" /\ ~kill => ~Linearizable(entries)

(* INV-LIN-04, cache soundness: a branch pruned by a cache hit could not   *)
(* have been completed to a linearization.                                 *)
PrunedIsHopeless ==
  [][SkipCached => LET rest == Ops(entries) \ NextNode[1] IN
       ~Completable(entries, rest, Cardinality(rest), NextNode[2])]_vars

(* docs/spec.md, INV-HIST-03: "op is eligible iff every op' with an        *)
(* earlier call is already linearized".                                    *)
MinimalCallFrontier ==
  [][Linearize => \A p \in Live(entries, linearized) :
                    IsCall(entries, p) => cursor <= p]_vars
=============================================================================
