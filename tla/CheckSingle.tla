---------------------------- MODULE CheckSingle ----------------------------
(***************************************************************************)
(* check_single of src/checker.rs on its own data: the linked list in an   *)
(* arena, the bitset in words, the cache in buckets keyed by the hash of   *)
(* the bitset.  It implements module Search.                               *)
(***************************************************************************)
EXTENDS NodeArena, Bitset

CONSTANT Histories   \* the entry lists a search may be started on

(* The ids of a list are dense: 0, 1, ... up to the number of operations. *)
ASSUME HistoriesAssumption ==
  \A E \in Histories : WellFormed(E) /\ Ops(E) = 0..(Len(E) \div 2 - 1)

VARIABLES
  entries,      \* the argument of check_single
  kill,         \* the kill flag, as this thread sees it
  arena, linearized, state, calls, cursor, cache,   \* its local variables
  returned      \* "no" while searching, else the value returned

vars == <<entries, kill, arena, linearized, state, calls, cursor, cache, returned>>

Init ==
  /\ entries \in Histories
  /\ kill \in BOOLEAN
  /\ arena = from_entries(entries)
  /\ linearized = New(Len(entries) \div 2)
  /\ state = InitState
  /\ calls = <<>>
  /\ cursor = head_next(arena)
  /\ cache = <<>>   \* the function with no buckets
  /\ returned = "no"
-----------------------------------------------------------------------------
Return(v) ==
  /\ returned' = v
  /\ UNCHANGED <<entries, kill, arena, linearized, state, calls, cursor, cache>>

ReturnEmpty ==
  /\ returned = "no"
  /\ entries = <<>>
  /\ Return("true")

Looping == returned = "no" /\ entries # <<>>

ReturnKilled == Looping /\ kill /\ Return("false")

Running == Looping /\ ~kill

ReturnTrueKilled == Looping /\ cursor = NONE /\ Return("true")   \* mutant
ReturnTrue       == Running /\ cursor = NONE /\ Return("true")

AtCall == Running /\ cursor # NONE /\ match_of(arena, cursor) # NONE

OpId == arena[cursor].id

NextState ==
  Step(state, entries[cursor].value, entries[match_of(arena, cursor)].value)

Probe == HashWithBit(linearized, OpId)

Bucket(h) == IF h \in DOMAIN cache THEN cache[h] ELSE <<>>

cache_contains_with_bit(h, op_id, s) ==
  \E k \in 1..Len(Bucket(h)) :
    /\ EqWithBit(linearized, op_id, Bucket(h)[k].linearized)
    /\ Bucket(h)[k].state = s

CacheHit == cache_contains_with_bit(Probe, OpId, NextState)

Insert(h, e) ==
  cache' = [k \in DOMAIN cache \cup {h} |->
              IF k = h THEN Append(Bucket(h), e) ELSE cache[k]]

LinearizeUnder(h) ==
  /\ AtCall
  /\ NextState # Rejected
  /\ ~CacheHit
  /\ Insert(h, [linearized |-> Set(linearized, OpId), state |-> NextState])
  /\ calls' = Append(calls, [node_ref |-> cursor, state |-> state])
  /\ state' = NextState
  /\ linearized' = Set(linearized, OpId)
  /\ arena' = lift(arena, cursor)
  /\ cursor' = head_next(arena')
  /\ UNCHANGED <<entries, kill, returned>>

LinearizeUnderHash == LinearizeUnder(Hash(Set(linearized, OpId)))   \* mutant
Linearize          == LinearizeUnder(Probe)

SkipToHead ==                                             \* mutant
  /\ cursor' = head_next(arena)
  /\ UNCHANGED <<entries, kill, arena, linearized, state, calls, cache, returned>>

Skip ==
  /\ cursor' = next_of(arena, cursor)
  /\ UNCHANGED <<entries, kill, arena, linearized, state, calls, cache, returned>>

SkipRejected == AtCall /\ NextState = Rejected /\ Skip

SkipCached == AtCall /\ NextState # Rejected /\ CacheHit /\ Skip

AtReturn == Running /\ cursor # NONE /\ match_of(arena, cursor) = NONE

Frame == calls[Len(calls)]

Backtrack ==
  /\ AtReturn
  /\ calls # <<>>
  /\ calls' = SubSeq(calls, 1, Len(calls) - 1)
  /\ state' = Frame.state
  /\ linearized' = Clear(linearized, arena[Frame.node_ref].id)
  /\ arena' = unlift(arena, Frame.node_ref)
  /\ cursor' = next_of(arena', Frame.node_ref)
  /\ UNCHANGED <<entries, kill, cache, returned>>

ReturnExhausted == AtReturn /\ calls = <<>> /\ Return("false")

(* The environment: a timer or a sibling's verdict stops the search. *)
SetKill ==
  /\ ~kill
  /\ kill' = TRUE
  /\ UNCHANGED <<entries, arena, linearized, state, calls, cursor, cache, returned>>

(* The search is over; allows behaviours to end without a deadlock. *)
Returned == returned # "no" /\ UNCHANGED vars

Iterate ==
  \/ ReturnEmpty
  \/ ReturnKilled
  \/ ReturnTrue
  \/ Linearize
  \/ SkipRejected
  \/ SkipCached
  \/ Backtrack
  \/ ReturnExhausted

Next == Iterate \/ SetKill \/ Returned

Spec == Init /\ [][Next]_vars

FairSpec == Spec /\ WF_vars(Iterate)
-----------------------------------------------------------------------------
NodeRefs  == DOMAIN entries
CacheEntries == UNION { { cache[h][k] : k \in 1..Len(cache[h]) } : h \in DOMAIN cache }

TypeOK ==
  /\ WellFormed(entries)
  /\ kill \in BOOLEAN
  /\ arena \in [0..Len(entries) ->
                  [id : Ops(entries) \cup {NONE}, match_idx : NodeRefs \cup {NONE},
                   prev : NodeRefs \cup {0}, next : NodeRefs \cup {NONE}]]
  /\ linearized \in Bitsets(Len(entries) \div 2)
  /\ state \in State
  /\ calls \in Seq([node_ref : NodeRefs, state : State])
  /\ cursor \in NodeRefs \cup {NONE}
  /\ \A h \in DOMAIN cache :
       h \in Word /\ cache[h] \in Seq([linearized : Bitsets(Len(entries) \div 2),
                                       state : State])
  /\ returned \in {"no", "true", "false"}

Live == { p \in NodeRefs : entries[p].id \notin Members(linearized) }

(* After any sequence of lifts and unlifts the list still holds exactly    *)
(* the live entries in the order of time, and its prev links mirror its    *)
(* next links, so that the next lift or unlift finds its neighbours.       *)
ListIsLive == Links(arena, Live)

(* Every pair is cached once, in the bucket where every later probe for it *)
(* will look, whatever the path that leads there.                          *)
CachedOnceInItsBucket ==
  \A g, h \in DOMAIN cache : \A j \in 1..Len(cache[g]), k \in 1..Len(cache[h]) :
    cache[g][j] = cache[h][k] => g = h /\ j = k

(* The detailed search takes the abstract one's steps: pointers, words and *)
(* buckets lose and invent nothing.                                        *)
Abstract == INSTANCE Search WITH
  linearized <- Members(linearized),
  calls      <- [k \in 1..Len(calls) |->
                   [node |-> calls[k].node_ref, state |-> calls[k].state]],
  cursor     <- IF cursor = NONE THEN Len(entries) + 1 ELSE cursor,
  cache      <- { <<Members(e.linearized), e.state>> : e \in CacheEntries }

ImplementsSearch == Abstract!FairSpec

(* With its thread scheduled, check_single returns, killed or not: neither *)
(* skipping nor backtracking can cycle.                                    *)
Termination == <>(returned # "no")

(* It keeps the promise that check_parallel relies on: a verdict is right, *)
(* and one given with kill set is `false`.                                 *)
Contract == INSTANCE Decision WITH
  empty <- entries = <<>>, linearizable <- Linearizable(entries)

KeepsContract == Contract!FairSpec
=============================================================================
