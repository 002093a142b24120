------------------------- MODULE CheckSingle_proof -------------------------
(***************************************************************************)
(* Proofs about CheckSingle: its list, bitset and cache are kept right for *)
(* every history, every model and every width of a word, and each of its   *)
(* steps is a step of Search.                                              *)
(***************************************************************************)
EXTENDS CheckSingle, Integers, SequenceTheorems, FiniteSetTheorems, TLAPS

-----------------------------------------------------------------------------
(* The two entries of an operation, and their order, in a well-formed list *)
(* (what match_idx is filled in from).                                     *)
LEMMA OpEntries ==
  ASSUME NEW E, WellFormed(E), NEW i \in Ops(E)
  PROVE  /\ CallOf(E, i) \in DOMAIN E /\ E[CallOf(E, i)].id = i
         /\ IsCall(E, CallOf(E, i)) /\ E[CallOf(E, i)].value \in Input
         /\ ReturnOf(E, i) \in DOMAIN E /\ E[ReturnOf(E, i)].id = i
         /\ IsReturn(E, ReturnOf(E, i)) /\ E[ReturnOf(E, i)].value \in Output
         /\ CallOf(E, i) < ReturnOf(E, i)
         /\ \A p \in DOMAIN E :
              E[p].id = i => p = CallOf(E, i) \/ p = ReturnOf(E, i)
<1>1. PICK c, r \in DOMAIN E :
        /\ c < r
        /\ IsCall(E, c) /\ E[c].value \in Input
        /\ IsReturn(E, r) /\ E[r].value \in Output
        /\ \A p \in DOMAIN E : E[p].id = i <=> p \in {c, r}
  BY DEF WellFormed
<1>2. ~IsCall(E, r) /\ ~IsReturn(E, c)
  BY <1>1 DEF IsCall, IsReturn
<1>3. CallOf(E, i) = c
  BY <1>1, <1>2 DEF CallOf
<1>4. ReturnOf(E, i) = r
  BY <1>1, <1>2 DEF ReturnOf
<1>. QED BY <1>1, <1>3, <1>4

(* Every position of a well-formed list is the call or the return of its   *)
(* operation and never both, so check_single's match_of tells them apart.  *)
LEMMA EntryKind ==
  ASSUME NEW E, WellFormed(E), NEW p \in DOMAIN E
  PROVE  /\ E[p].id \in Ops(E)
         /\ IsCall(E, p) \/ IsReturn(E, p)
         /\ ~ (IsCall(E, p) /\ IsReturn(E, p))
         /\ IsCall(E, p) => p = CallOf(E, E[p].id)
         /\ IsReturn(E, p) => p = ReturnOf(E, E[p].id)
<1>1. E[p].id \in Ops(E)
  BY DEF Ops
<1>2. ~ (IsCall(E, p) /\ IsReturn(E, p))
  BY DEF IsCall, IsReturn
<1>3. p = CallOf(E, E[p].id) \/ p = ReturnOf(E, E[p].id)
  BY <1>1, OpEntries
<1>4. /\ IsCall(E, CallOf(E, E[p].id))
      /\ IsReturn(E, ReturnOf(E, E[p].id))
      /\ ~ IsReturn(E, CallOf(E, E[p].id))
      /\ ~ IsCall(E, ReturnOf(E, E[p].id))
  BY <1>1, OpEntries DEF IsCall, IsReturn
<1>. QED BY <1>1, <1>2, <1>3, <1>4

(* Model::step answers with a state or refuses.                            *)
LEMMA ApplyType ==
  ASSUME NEW E, WellFormed(E), NEW i \in Ops(E), NEW s \in State
  PROVE  Apply(E, s, i) \in State \cup {Rejected}
BY OpEntries, ModelAssumption DEF Apply
-----------------------------------------------------------------------------
(* What pushing a frame does to the stack.                                 *)
LEMMA Push ==
  ASSUME NEW S, NEW s \in Seq(S), NEW f \in S
  PROVE  /\ Append(s, f) \in Seq(S)
         /\ Len(s) \in Nat
         /\ Len(Append(s, f)) = Len(s) + 1
         /\ \A k \in 1..Len(s) : Append(s, f)[k] = s[k]
         /\ Append(s, f)[Len(s) + 1] = f
OBVIOUS

(* The first n elements of a sequence.                                     *)
LEMMA Prefix ==
  ASSUME NEW S, NEW s \in Seq(S), NEW n \in 0..Len(s)
  PROVE  /\ SubSeq(s, 1, n) \in Seq(S)
         /\ Len(SubSeq(s, 1, n)) = n
         /\ \A k \in 1..n : SubSeq(s, 1, n)[k] = s[k]
OBVIOUS

(* What popping a frame does to the stack.                                 *)
LEMMA Pop ==
  ASSUME NEW S, NEW s \in Seq(S), s # <<>>
  PROVE  /\ Len(s) \in Nat \ {0}
         /\ s[Len(s)] \in S
         /\ SubSeq(s, 1, Len(s) - 1) \in Seq(S)
         /\ Len(SubSeq(s, 1, Len(s) - 1)) = Len(s) - 1
         /\ \A k \in 1..(Len(s) - 1) : SubSeq(s, 1, Len(s) - 1)[k] = s[k]
<1>1. Len(s) \in Nat \ {0}
  BY EmptySeq
<1>2. s[Len(s)] \in S
  BY <1>1, ElementOfSeq
<1>3. Len(s) - 1 \in 0..Len(s)
  BY <1>1
<1>. QED BY <1>1, <1>2, <1>3, Prefix, Zenon

-----------------------------------------------------------------------------
(***************************************************************************)
(* NodeArena, for every list of entries: what is built, what lift leaves   *)
(* behind and what unlift brings back.                                     *)
(***************************************************************************)

(* Arenas of n entries, whatever their ids and matches are.                *)
Arenas(n, Ids, Matches) ==
  [0..n -> [id : Ids, match_idx : Matches,
            prev : 0..n, next : (1..n) \cup {NONE}]]

(* The successor of the predecessor of p is p, and the other way round.    *)
LEMMA PrevNext ==
  ASSUME NEW S, S \subseteq Nat \ {0}, NEW p \in S, NEW a, NEW q,
         IsPrev(S, p, a), IsNext(S, a, q)
  PROVE  q = p
<1>1. a \in Nat /\ p \in Nat /\ a < p /\ \A r \in S : r < p => r <= a
  BY DEF IsPrev
<1>2. q \in S /\ q > a /\ p >= q
  BY <1>1 DEF IsNext
<1>3. q \in Nat
  BY <1>2
<1>. QED BY <1>1, <1>2, <1>3

LEMMA NextPrev ==
  ASSUME NEW S, S \subseteq Nat \ {0}, NEW p \in S \cup {0}, NEW b, NEW q, b # NONE,
         IsNext(S, p, b), IsPrev(S, b, q)
  PROVE  q = p
<1>1. b \in S /\ b > p /\ \A r \in S : r > p => r >= b
  BY DEF IsNext
<1>2. q \in Nat /\ q < b /\ p <= q /\ (q = 0 \/ q \in S) /\ p \in Nat /\ b \in Nat
  BY <1>1 DEF IsPrev
<1>. QED BY <1>1, <1>2
(* Without p its neighbours follow one another, and no other node notices. *)
LEMMA NextSkips ==
  ASSUME NEW S, S \subseteq Nat \ {0}, NEW p \in S, NEW a, NEW b,
         IsPrev(S, p, a), IsNext(S, p, b)
  PROVE  IsNext(S \ {p}, a, b)
<1>1. p \in Nat /\ a \in Nat /\ a < p /\ \A r \in S : r < p => r <= a
  BY DEF IsPrev
<1>2. \A r \in S \ {p} : r > a <=> r > p
  BY <1>1
<1>3. CASE \E r \in S : r > p
  <2>1. b \in S \ {p} /\ b > a /\ \A r \in S : r > p => r >= b
    <3>1. b \in S /\ b > p /\ \A r \in S : r > p => r >= b
      BY <1>3 DEF IsNext
    <3>. QED BY <1>1, <3>1
  <2>. QED BY <1>2, <2>1 DEF IsNext
<1>4. CASE ~ \E r \in S : r > p
  BY <1>2, <1>4 DEF IsNext
<1>. QED BY <1>3, <1>4

LEMMA NextStays ==
  ASSUME NEW S, S \subseteq Nat \ {0}, NEW p \in S, NEW x \in (S \ {p}) \cup {0},
         NEW y, y # p, IsNext(S, x, y)
  PROVE  IsNext(S \ {p}, x, y)
<1>1. CASE \E r \in S : r > x
  BY <1>1 DEF IsNext
<1>2. CASE ~ \E r \in S : r > x
  BY <1>2 DEF IsNext
<1>. QED BY <1>1, <1>2

LEMMA PrevSkips ==
  ASSUME NEW S, S \subseteq Nat \ {0}, NEW p \in S, NEW a, NEW b, b # NONE,
         IsPrev(S, p, a), IsNext(S, p, b)
  PROVE  IsPrev(S \ {p}, b, a)
<1>1. b \in S /\ b > p /\ \A r \in S : r > p => r >= b
  BY DEF IsNext
<1>2. a \in Nat /\ a < p /\ a # p /\ a \in S \cup {0} /\ \A r \in S : r < p => r <= a
  BY DEF IsPrev
<1>3. \A r \in S \ {p} : r < b => r < p
  BY <1>1
<1>4. a < b
  BY <1>1, <1>2
<1>. QED BY <1>2, <1>3, <1>4 DEF IsPrev

LEMMA PrevStays ==
  ASSUME NEW S, S \subseteq Nat \ {0}, NEW p \in S, NEW x, NEW y, y # p, IsPrev(S, x, y)
  PROVE  IsPrev(S \ {p}, x, y)
BY DEF IsPrev

(* B is A with q written into next, or into prev, of node p.               *)
NextWritten(n, A, B, p, q) ==
  \A x \in 0..n : /\ B[x].id = A[x].id /\ B[x].match_idx = A[x].match_idx
                  /\ B[x].next = IF x = p THEN q ELSE A[x].next
                  /\ B[x].prev = A[x].prev

PrevWritten(n, A, B, p, q) ==
  \A x \in 0..n : /\ B[x].id = A[x].id /\ B[x].match_idx = A[x].match_idx
                  /\ B[x].next = A[x].next
                  /\ B[x].prev = IF x = p THEN q ELSE A[x].prev

(* What writing one link does, and that nodes are what their fields are.   *)
LEMMA WriteNext ==
  ASSUME NEW n \in Nat, NEW Ids, NEW Matches, NEW A \in Arenas(n, Ids, Matches),
         NEW p \in 0..n, NEW q \in (1..n) \cup {NONE}
  PROVE  /\ SetNext(A, p, q) \in Arenas(n, Ids, Matches)
         /\ NextWritten(n, A, SetNext(A, p, q), p, q)
BY DEF SetNext, Arenas, NextWritten

LEMMA WritePrev ==
  ASSUME NEW n \in Nat, NEW Ids, NEW Matches, NEW A \in Arenas(n, Ids, Matches),
         NEW p \in (1..n) \cup {NONE}, NEW q \in 0..n
  PROVE  /\ SetPrev(A, p, q) \in Arenas(n, Ids, Matches)
         /\ PrevWritten(n, A, SetPrev(A, p, q), p, q)
<1>1. CASE p = NONE
  BY <1>1, NoneAssumption DEF SetPrev, Arenas, PrevWritten
<1>2. CASE p # NONE
  <2>1. p \in 0..n /\ SetPrev(A, p, q) = [A EXCEPT ![p].prev = q]
    BY <1>2 DEF SetPrev
  <2>. QED BY <2>1 DEF Arenas, PrevWritten
<1>. QED BY <1>1, <1>2

LEMMA SameNodes ==
  ASSUME NEW n \in Nat, NEW Ids, NEW Matches,
         NEW A \in Arenas(n, Ids, Matches), NEW B \in Arenas(n, Ids, Matches),
         \A x \in 0..n :
           /\ A[x].id = B[x].id /\ A[x].match_idx = B[x].match_idx
           /\ A[x].next = B[x].next /\ A[x].prev = B[x].prev
  PROVE  A = B
<1>. DEFINE Node == [id : Ids, match_idx : Matches,
                     prev : 0..n, next : (1..n) \cup {NONE}]
<1>1. ASSUME NEW x \in 0..n PROVE A[x] = B[x]
  <2>1. A[x] \in Node /\ B[x] \in Node
    BY DEF Arenas
  <2>2. \A r \in Node : r = [id |-> r.id, match_idx |-> r.match_idx,
                            prev |-> r.prev, next |-> r.next]
    OBVIOUS
  <2>. HIDE DEF Node
  <2>. QED BY <2>1, <2>2
<1>. QED BY <1>1 DEF Arenas

(* The neighbours of a node of the list.                                   *)
LEMMA Neighbours ==
  ASSUME NEW n \in Nat, NEW Ids, NEW Matches, NEW A \in Arenas(n, Ids, Matches),
         NEW S \in SUBSET (1..n), Links(A, S), NEW p \in S
  PROVE  /\ p \in 1..n /\ S \subseteq Nat \ {0}
         /\ A[p].prev \in 0..n /\ A[p].next \in (1..n) \cup {NONE}
         /\ A[p].prev # p /\ A[p].next # p /\ A[A[p].prev].next = p
         /\ A[p].next # NONE => A[A[p].next].prev = p
         /\ IsPrev(S, p, A[p].prev) /\ IsNext(S, p, A[p].next)
<1>. DEFINE a == A[p].prev
            b == A[p].next
<1>1. p \in 1..n /\ p \in S \cup {0} /\ S \subseteq Nat \ {0}
  OBVIOUS
<1>2. a \in 0..n /\ b \in (1..n) \cup {NONE}
  BY <1>1 DEF Arenas
<1>3. IsPrev(S, p, a) /\ IsNext(S, p, b)
  BY <1>1 DEF Links
<1>4. a # p /\ b # p
  BY <1>1, <1>3, NoneAssumption DEF IsPrev, IsNext
<1>5. A[a].next = p
  <2>1. a \in S \cup {0}
    BY <1>3 DEF IsPrev
  <2>2. IsNext(S, a, A[a].next)
    BY <2>1 DEF Links
  <2>. QED BY <1>1, <1>3, <2>2, PrevNext, Zenon
<1>6. ASSUME b # NONE PROVE A[b].prev = p
  <2>1. b \in S
    BY <1>3, <1>6 DEF IsNext
  <2>2. IsPrev(S, b, A[b].prev)
    BY <2>1 DEF Links
  <2>. QED BY <1>1, <1>3, <1>6, <2>2, NextPrev, Zenon
<1>. QED BY <1>1, <1>2, <1>3, <1>4, <1>5, <1>6

(* Unlinking a node changes one link of each neighbour and nothing else.   *)
LEMMA UnlinkChanges ==
  ASSUME NEW n \in Nat, NEW Ids, NEW Matches, NEW A \in Arenas(n, Ids, Matches),
         NEW S \in SUBSET (1..n), Links(A, S), NEW p \in S
  PROVE  /\ Unlink(A, p) \in Arenas(n, Ids, Matches)
         /\ \A x \in 0..n :
              /\ Unlink(A, p)[x].id = A[x].id
              /\ Unlink(A, p)[x].match_idx = A[x].match_idx
              /\ Unlink(A, p)[x].next = IF x = A[p].prev THEN A[p].next ELSE A[x].next
              /\ Unlink(A, p)[x].prev = IF x = A[p].next THEN A[p].prev ELSE A[x].prev
<1>. DEFINE a == A[p].prev
            b == A[p].next
            C == SetNext(A, a, b)
<1>1. a \in 0..n /\ b \in (1..n) \cup {NONE}
  BY Neighbours
<1>. HIDE DEF a, b
<1>2. C \in Arenas(n, Ids, Matches) /\ NextWritten(n, A, C, a, b)
  BY <1>1, WriteNext
<1>. HIDE DEF C
<1>3. /\ SetPrev(C, b, a) \in Arenas(n, Ids, Matches)
      /\ PrevWritten(n, C, SetPrev(C, b, a), b, a)
  BY <1>1, <1>2, WritePrev
<1>4. Unlink(A, p) = SetPrev(C, b, a)
  BY DEF Unlink, C, a, b
<1>. QED BY <1>2, <1>3, <1>4 DEF a, b, NextWritten, PrevWritten

LEMMA UnlinkLinks ==
  ASSUME NEW n \in Nat, NEW Ids, NEW Matches, NEW A \in Arenas(n, Ids, Matches),
         NEW S \in SUBSET (1..n), Links(A, S), NEW p \in S
  PROVE  Links(Unlink(A, p), S \ {p})
<1>. DEFINE a == A[p].prev
            b == A[p].next
            B == Unlink(A, p)
<1>1. \A x \in 0..n :
        /\ B[x].next = IF x = a THEN b ELSE A[x].next
        /\ B[x].prev = IF x = b THEN a ELSE A[x].prev
  BY UnlinkChanges
<1>. HIDE DEF B
<1>2. /\ p \in 1..n /\ S \subseteq Nat \ {0} /\ p # NONE
      /\ IsPrev(S, p, a) /\ IsNext(S, p, b)
  BY Neighbours, NoneAssumption
<1>3. ASSUME NEW x \in (S \ {p}) \cup {0} PROVE IsNext(S \ {p}, x, B[x].next)
  <2>1. x \in 0..n /\ x \in S \cup {0}
    OBVIOUS
  <2>2. IsNext(S, x, A[x].next)
    BY <2>1 DEF Links
  <2>3. CASE x = a
    <3>1. B[x].next = b
      BY <1>1, <2>1, <2>3
    <3>. HIDE DEF a, b
    <3>2. IsNext(S \ {p}, a, b)
      BY <1>2, NextSkips, Zenon
    <3>. QED BY <2>3, <3>1, <3>2, Zenon
  <2>4. CASE x # a
    <3>1. B[x].next = A[x].next
      BY <1>1, <2>1, <2>4
    <3>. HIDE DEF a, b
    <3>2. A[x].next # p
      BY <1>2, <2>1, <2>2, <2>4, NextPrev, Zenon
    <3>3. IsNext(S \ {p}, x, A[x].next)
      BY <1>2, <2>2, <3>2, NextStays, Zenon
    <3>. QED BY <3>1, <3>3, Zenon
  <2>. QED BY <2>3, <2>4
<1>4. ASSUME NEW x \in S \ {p} PROVE IsPrev(S \ {p}, x, B[x].prev)
  <2>1. x \in 0..n /\ x \in S /\ x # NONE
    BY NoneAssumption
  <2>2. IsPrev(S, x, A[x].prev)
    BY <2>1 DEF Links
  <2>3. CASE x = b
    <3>1. B[x].prev = a
      BY <1>1, <2>1, <2>3
    <3>. HIDE DEF a, b
    <3>2. IsPrev(S \ {p}, b, a)
      BY <1>2, <2>1, <2>3, PrevSkips, Zenon
    <3>. QED BY <2>3, <3>1, <3>2, Zenon
  <2>4. CASE x # b
    <3>1. B[x].prev = A[x].prev
      BY <1>1, <2>1, <2>4
    <3>. HIDE DEF a, b
    <3>2. A[x].prev # p
      BY <1>2, <2>1, <2>2, <2>4, PrevNext, Zenon
    <3>3. IsPrev(S \ {p}, x, A[x].prev)
      BY <1>2, <2>2, <3>2, PrevStays, Zenon
    <3>. QED BY <3>1, <3>3, Zenon
  <2>. QED BY <2>3, <2>4
<1>. QED BY <1>3, <1>4 DEF Links, B

(* A node that was unlinked last is put back where it was: its neighbours  *)
(* are those its own links, which nobody has touched, still name.          *)
LEMMA RelinkUndoes ==
  ASSUME NEW n \in Nat, NEW Ids, NEW Matches, NEW A \in Arenas(n, Ids, Matches),
         NEW S \in SUBSET (1..n), Links(A, S), NEW p \in S
  PROVE  Relink(Unlink(A, p), p) = A
<1>. DEFINE a == A[p].prev
            b == A[p].next
            B == Unlink(A, p)
            C == SetNext(B, a, p)
            D == SetPrev(C, b, p)
<1>1. /\ B \in Arenas(n, Ids, Matches)
      /\ \A x \in 0..n :
           /\ B[x].id = A[x].id /\ B[x].match_idx = A[x].match_idx
           /\ B[x].next = IF x = a THEN b ELSE A[x].next
           /\ B[x].prev = IF x = b THEN a ELSE A[x].prev
  <2>1. B \in Arenas(n, Ids, Matches)
    BY UnlinkChanges
  <2>2. \A x \in 0..n : B[x].id = A[x].id /\ B[x].match_idx = A[x].match_idx
    BY UnlinkChanges
  <2>3. \A x \in 0..n : /\ B[x].next = IF x = a THEN b ELSE A[x].next
                       /\ B[x].prev = IF x = b THEN a ELSE A[x].prev
    BY UnlinkChanges
  <2>. QED BY <2>1, <2>2, <2>3
<1>2. /\ p \in 0..n /\ p \in (1..n) \cup {NONE}
      /\ a \in 0..n /\ b \in (1..n) \cup {NONE} /\ p # a /\ p # b
      /\ A[a].next = p
      /\ b # NONE => A[b].prev = p
  <2>1. p \in 0..n /\ p \in (1..n) \cup {NONE}
    OBVIOUS
  <2>. QED BY <2>1, Neighbours
<1>. HIDE DEF B
<1>3. B[p].prev = a /\ B[p].next = b
  BY <1>1, <1>2
<1>4. Relink(B, p) = D
  BY <1>3 DEF Relink
<1>. HIDE DEF a, b
<1>5. C \in Arenas(n, Ids, Matches) /\ NextWritten(n, B, C, a, p)
  BY <1>1, <1>2, WriteNext
<1>. HIDE DEF C
<1>6. D \in Arenas(n, Ids, Matches) /\ PrevWritten(n, C, D, b, p)
  BY <1>2, <1>5, WritePrev
<1>. HIDE DEF D
<1>7. ASSUME NEW x \in 0..n
      PROVE  /\ D[x].id = A[x].id /\ D[x].match_idx = A[x].match_idx
             /\ D[x].next = A[x].next /\ D[x].prev = A[x].prev
  <2>1. x # NONE
    BY NoneAssumption
  <2>. QED BY <1>1, <1>2, <1>5, <1>6, <2>1 DEF NextWritten, PrevWritten
<1>8. D = A
  BY <1>6, <1>7, SameNodes, Zenon
<1>. QED BY <1>4, <1>8 DEF B
-----------------------------------------------------------------------------
(* What lift and unlift never touch.                                       *)
Kept(n, A, B) ==
  \A p \in 0..n : B[p].id = A[p].id /\ B[p].match_idx = A[p].match_idx

(* What unlinking p does, all together.                                    *)
LEMMA UnlinkKeeps ==
  ASSUME NEW n \in Nat, NEW Ids, NEW Matches, NEW A \in Arenas(n, Ids, Matches),
         NEW S \in SUBSET (1..n), Links(A, S), NEW p \in S
  PROVE  /\ Unlink(A, p) \in Arenas(n, Ids, Matches) /\ Kept(n, A, Unlink(A, p))
         /\ Links(Unlink(A, p), S \ {p})
BY UnlinkChanges, UnlinkLinks DEF Kept

(* lift takes a call and its return out of the list and leaves the rest    *)
(* of it in order.                                                         *)
THEOREM LiftLinks ==
  ASSUME NEW n \in Nat, NEW Ids, NEW Matches, NEW A \in Arenas(n, Ids, Matches),
         NEW S \in SUBSET (1..n), Links(A, S),
         NEW c \in S, A[c].match_idx \in S \ {c}
  PROVE  /\ lift(A, c) \in Arenas(n, Ids, Matches)
         /\ Kept(n, A, lift(A, c))
         /\ Links(lift(A, c), S \ {c, A[c].match_idx})
<1>. DEFINE r == A[c].match_idx
            B == Unlink(A, c)
            D == Unlink(B, r)
<1>1. B \in Arenas(n, Ids, Matches) /\ Kept(n, A, B) /\ Links(B, S \ {c})
  BY UnlinkKeeps
<1>2. r \in S \ {c} /\ S \ {c} \in SUBSET (1..n)
  OBVIOUS
<1>. HIDE DEF r, B
<1>3. D \in Arenas(n, Ids, Matches) /\ Kept(n, B, D) /\ Links(D, (S \ {c}) \ {r})
  BY <1>1, <1>2, UnlinkKeeps
<1>4. (S \ {c}) \ {r} = S \ {c, r}
  OBVIOUS
<1>. HIDE DEF D
<1>5. Kept(n, A, D)
  BY <1>1, <1>3 DEF Kept
<1>6. lift(A, c) = D
  BY DEF lift, B, D, r
<1>. QED BY <1>3, <1>4, <1>5, <1>6 DEF r

(* unlift, called on what lift left behind, restores the arena to the last *)
(* link.                                                                   *)
THEOREM UnliftRestores ==
  ASSUME NEW n \in Nat, NEW Ids, NEW Matches, NEW A \in Arenas(n, Ids, Matches),
         NEW S \in SUBSET (1..n), Links(A, S),
         NEW c \in S, A[c].match_idx \in S \ {c}
  PROVE  unlift(lift(A, c), c) = A
<1>. DEFINE r == A[c].match_idx
            B == Unlink(A, c)
            D == Unlink(B, r)
<1>1. /\ B \in Arenas(n, Ids, Matches) /\ Links(B, S \ {c}) /\ Relink(B, c) = A
  BY UnlinkKeeps, RelinkUndoes
<1>2. r \in S \ {c} /\ S \ {c} \in SUBSET (1..n) /\ c \in 0..n
  OBVIOUS
<1>. HIDE DEF r, B
<1>3. Relink(D, r) = B
  BY <1>1, <1>2, RelinkUndoes
<1>. HIDE DEF D
<1>4. lift(A, c) = D
  BY DEF lift, B, D, r
<1>5. D[c].match_idx = r
  <2>1. Kept(n, A, lift(A, c))
    BY LiftLinks, Zenon
  <2>. QED BY <1>2, <1>4, <2>1 DEF Kept, r
<1>. QED BY <1>1, <1>3, <1>4, <1>5 DEF unlift

(* from_entries links all the entries, in order.                           *)
THEOREM BuiltLinked ==
  ASSUME NEW E, WellFormed(E)
  PROVE  Links(from_entries(E), DOMAIN E)
<1>. DEFINE n == Len(E)
            A == from_entries(E)
<1>1. n \in Nat /\ DOMAIN E = 1..n
  BY DEF WellFormed
<1>2. \A p \in 0..n : /\ A[p].next = IF p < n THEN p + 1 ELSE NONE
                     /\ A[p].prev = IF p = 0 THEN 0 ELSE p - 1
  BY DEF from_entries
<1>. HIDE DEF A, n
<1>3. ASSUME NEW p \in (1..n) \cup {0} PROVE IsNext(1..n, p, A[p].next)
  <2>1. CASE p < n
    <3>1. A[p].next = p + 1 /\ p + 1 \in 1..n /\ p + 1 > p
      BY <1>1, <1>2, <2>1
    <3>. QED BY <1>1, <3>1 DEF IsNext
  <2>2. CASE ~ (p < n)
    <3>1. A[p].next = NONE /\ ~ \E r \in 1..n : r > p
      BY <1>1, <1>2, <2>2
    <3>. QED BY <3>1 DEF IsNext
  <2>. QED BY <2>1, <2>2
<1>4. ASSUME NEW p \in 1..n PROVE IsPrev(1..n, p, A[p].prev)
  <2>1. A[p].prev = p - 1 /\ p - 1 \in (1..n) \cup {0}
    BY <1>1, <1>2
  <2>. QED BY <1>1, <2>1 DEF IsPrev
<1>. QED BY <1>1, <1>3, <1>4 DEF Links, A, n

(***************************************************************************)
(* Bitset, for every width of a word and every length: what set and clear  *)
(* do to the set of bits, and that a probe with a bit adjusted finds what  *)
(* was stored with the bit set.                                            *)
(***************************************************************************)

(* A position is its chunk and its bit, and they are it.                   *)
LEMMA Position ==
  ASSUME NEW p \in Nat
  PROVE  Major(p) \in Nat /\ Minor(p) \in 0..(W - 1) /\ p = W * Major(p) + Minor(p)
BY WidthAssumption DEF Major, Minor

LEMMA PositionOf ==
  ASSUME NEW c \in Nat, NEW b \in 0..(W - 1)
  PROVE  W * c + b \in Nat /\ Major(W * c + b) = c /\ Minor(W * c + b) = b
BY WidthAssumption DEF Major, Minor

LEMMA ChunkCount ==
  ASSUME NEW n \in Nat
  PROVE  \E k \in Nat : /\ Chunks(n) = 0..(k - 1)
                        /\ Cardinality(Chunks(n)) = k /\ IsFiniteSet(Chunks(n))
                        /\ \A p \in 0..(n - 1) : Major(p) \in Chunks(n)
                        /\ \A p \in Nat : Major(p) \in Chunks(n) => p \in 0..(W * k)
<1>. DEFINE k == (n + W - 1) \div W
<1>1. k \in Nat /\ Chunks(n) = 0..(k - 1)
  BY WidthAssumption DEF Chunks
<1>2. ASSUME NEW p \in 0..(n - 1) PROVE Major(p) <= k - 1
  BY WidthAssumption DEF Major
<1>. HIDE DEF k
<1>3. ASSUME NEW p \in Nat, Major(p) \in 0..(k - 1) PROVE p \in 0..(W * k)
  <2>1. Major(p) <= k - 1
    BY <1>3
  <2>. QED BY <1>1, <2>1, WidthAssumption DEF Major
<1>4. /\ IsFiniteSet(0..(k - 1))
      /\ Cardinality(0..(k - 1)) = IF 0 > k - 1 THEN 0 ELSE (k - 1) - 0 + 1
  <2>1. 0 \in Int /\ k - 1 \in Int
    BY <1>1
  <2>. QED BY <2>1, FS_Interval, Zenon
<1>5. Cardinality(0..(k - 1)) = k
  BY <1>1, <1>4
<1>6. \A p \in 0..(n - 1) : Major(p) \in 0..(k - 1)
  <2>. SUFFICES ASSUME NEW p \in 0..(n - 1) PROVE Major(p) \in 0..(k - 1)
    OBVIOUS
  <2>1. p \in Nat
    OBVIOUS
  <2>2. Major(p) \in Nat
    BY <2>1, Position
  <2>. QED BY <1>1, <1>2, <2>2
<1>. QED BY <1>1, <1>3, <1>4, <1>5, <1>6

LEMMA MembersAre ==
  ASSUME NEW n \in Nat, NEW B \in Bitsets(n)
  PROVE  /\ \A p : p \in Members(B) <=>
               p \in Nat /\ Major(p) \in Chunks(n) /\ Minor(p) \in B[Major(p)]
         /\ IsFiniteSet(Members(B))
<1>1. PICK k \in Nat : /\ Cardinality(Chunks(n)) = k
                       /\ \A p \in Nat : Major(p) \in Chunks(n) => p \in 0..(W * k)
  BY ChunkCount
<1>2. DOMAIN B = Chunks(n) /\ W * k \in Nat
  BY WidthAssumption DEF Bitsets
<1>3. \A p : p \in Members(B) <=>
         p \in Nat /\ Major(p) \in Chunks(n) /\ Minor(p) \in B[Major(p)]
  BY <1>1, <1>2 DEF Members
<1>4. Members(B) \in SUBSET (0..(W * k))
  BY <1>1, <1>2 DEF Members
<1>5. IsFiniteSet(0..(W * k))
  <2>1. 0 \in Int /\ W * k \in Int
    BY <1>2
  <2>. QED BY <2>1, FS_Interval, Zenon
<1>6. IsFiniteSet(Members(B))
  BY <1>4, <1>5, FS_Subset, Zenon
<1>. QED BY <1>3, <1>6

LEMMA NewMembers ==
  ASSUME NEW n \in Nat
  PROVE  New(n) \in Bitsets(n) /\ Members(New(n)) = {}
<1>1. New(n) \in Bitsets(n)
  BY DEF New, Bitsets, Word
<1>2. \A p : p \notin Members(New(n))
  BY <1>1, MembersAre DEF New
<1>. QED BY <1>1, <1>2

(* Positions that differ differ in their chunk or in their bit.            *)
LEMMA Apart ==
  ASSUME NEW p \in Nat, NEW q \in Nat
  PROVE  p = q <=> Major(p) = Major(q) /\ Minor(p) = Minor(q)
BY Position

LEMMA Written ==
  ASSUME NEW n \in Nat, NEW B \in Bitsets(n), NEW p \in 0..(n - 1)
  PROVE  /\ p \in Nat /\ Major(p) \in Chunks(n) /\ Minor(p) \in 0..(W - 1)
         /\ Set(B, p) \in Bitsets(n) /\ Clear(B, p) \in Bitsets(n)
<1>1. p \in Nat /\ Major(p) \in Chunks(n) /\ Minor(p) \in 0..(W - 1)
  <2>1. p \in Nat
    OBVIOUS
  <2>2. Major(p) \in Chunks(n)
    BY ChunkCount
  <2>. QED BY <2>1, <2>2, Position
<1>. QED BY <1>1 DEF Set, Clear, Bitsets, Word

(* set adds a bit and clear takes one away, in whatever chunk it is.       *)
LEMMA SetMembers ==
  ASSUME NEW n \in Nat, NEW B \in Bitsets(n), NEW p \in 0..(n - 1)
  PROVE  Members(Set(B, p)) = Members(B) \cup {p}
<1>1. \A q : q \in Members(Set(B, p)) <=> q \in Members(B) \/ q = p
  <2>. SUFFICES ASSUME NEW q
                PROVE  q \in Members(Set(B, p)) <=> q \in Members(B) \/ q = p
    OBVIOUS
  <2>1. /\ q \in Members(Set(B, p)) <=>
             q \in Nat /\ Major(q) \in Chunks(n) /\ Minor(q) \in Set(B, p)[Major(q)]
        /\ q \in Members(B) <=>
             q \in Nat /\ Major(q) \in Chunks(n) /\ Minor(q) \in B[Major(q)]
    BY Written, MembersAre
  <2>2. q \in Nat => (p = q <=> Major(p) = Major(q) /\ Minor(p) = Minor(q))
    <3>1. p \in Nat
      OBVIOUS
    <3>. QED BY <3>1, Apart, Zenon
  <2>3. p \in Nat /\ Major(p) \in Chunks(n)
    BY Written
  <2>4. Major(q) \in Chunks(n) =>
            /\ Major(q) = Major(p) => Set(B, p)[Major(q)] = B[Major(q)] \cup {Minor(p)}
            /\ Major(q) # Major(p) => Set(B, p)[Major(q)] = B[Major(q)]
    BY DEF Set, Clear, Bitsets
  <2>. QED BY <2>1, <2>2, <2>3, <2>4
<1>. QED BY <1>1

LEMMA ClearMembers ==
  ASSUME NEW n \in Nat, NEW B \in Bitsets(n), NEW p \in 0..(n - 1)
  PROVE  Members(Clear(B, p)) = Members(B) \ {p}
<1>1. \A q : q \in Members(Clear(B, p)) <=> q \in Members(B) /\ q # p
  <2>. SUFFICES ASSUME NEW q
                PROVE  q \in Members(Clear(B, p)) <=> q \in Members(B) /\ q # p
    OBVIOUS
  <2>1. /\ q \in Members(Clear(B, p)) <=>
             q \in Nat /\ Major(q) \in Chunks(n) /\ Minor(q) \in Clear(B, p)[Major(q)]
        /\ q \in Members(B) <=>
             q \in Nat /\ Major(q) \in Chunks(n) /\ Minor(q) \in B[Major(q)]
    BY Written, MembersAre
  <2>2. q \in Nat => (p = q <=> Major(p) = Major(q) /\ Minor(p) = Minor(q))
    <3>1. p \in Nat
      OBVIOUS
    <3>. QED BY <3>1, Apart, Zenon
  <2>3. p \in Nat /\ Major(p) \in Chunks(n)
    BY Written
  <2>4. Major(q) \in Chunks(n) =>
            /\ Major(q) = Major(p) => Clear(B, p)[Major(q)] = B[Major(q)] \ {Minor(p)}
            /\ Major(q) # Major(p) => Clear(B, p)[Major(q)] = B[Major(q)]
    BY DEF Set, Clear, Bitsets
  <2>. QED BY <2>1, <2>2, <2>3, <2>4
<1>. QED BY <1>1

(* A bitset is the set of its bits: no word holds anything else.           *)
LEMMA SameMembers ==
  ASSUME NEW n \in Nat, NEW B \in Bitsets(n), NEW C \in Bitsets(n),
         Members(B) = Members(C)
  PROVE  B = C
<1>1. ASSUME NEW c \in Chunks(n), NEW b \in 0..(W - 1)
      PROVE  b \in B[c] <=> b \in C[c]
  <2>1. c \in Nat
    <3>1. PICK k \in Nat : Chunks(n) = 0..(k - 1)
      BY ChunkCount
    <3>. QED BY <3>1
  <2>2. W * c + b \in Nat /\ Major(W * c + b) = c /\ Minor(W * c + b) = b
    BY <2>1, PositionOf
  <2>. DEFINE p == W * c + b
  <2>. HIDE DEF p
  <2>3. /\ p \in Members(B) <=> p \in Nat /\ Major(p) \in Chunks(n) /\ Minor(p) \in B[Major(p)]
        /\ p \in Members(C) <=> p \in Nat /\ Major(p) \in Chunks(n) /\ Minor(p) \in C[Major(p)]
    BY MembersAre
  <2>4. p \in Nat /\ Major(p) = c /\ Minor(p) = b
    BY <2>2 DEF p
  <2>. QED BY <2>3, <2>4
<1>2. \A c \in Chunks(n) : B[c] \in SUBSET (0..(W - 1)) /\ C[c] \in SUBSET (0..(W - 1))
  BY DEF Bitsets, Word
<1>3. \A c \in Chunks(n) : B[c] = C[c]
  BY <1>1, <1>2
<1>. QED BY <1>3 DEF Bitsets

LEMMA EqMeansSet ==
  ASSUME NEW n \in Nat, NEW B \in Bitsets(n), NEW C \in Bitsets(n), NEW p \in 0..(n - 1)
  PROVE  EqWithBit(B, p, C) <=> C = Set(B, p)
<1>1. DOMAIN B = Chunks(n) /\ DOMAIN C = Chunks(n)
  BY DEF Bitsets
<1>2. EqWithBit(B, p, C) <=> \A c \in Chunks(n) : C[c] = Set(B, p)[c]
  <2>1. \A c \in Chunks(n) :
          /\ c = Major(p) => Set(B, p)[c] = B[c] \cup {Minor(p)}
          /\ c # Major(p) => Set(B, p)[c] = B[c]
    BY DEF Set, Clear, Bitsets
  <2>. QED BY <1>1, <2>1 DEF EqWithBit
<1>3. (\A c \in Chunks(n) : C[c] = Set(B, p)[c]) => C = Set(B, p)
  BY Written DEF Bitsets
<1>. QED BY <1>2, <1>3
-----------------------------------------------------------------------------
(* Setting a bit that was clear turns one bit of the xor of the chunks.    *)
LEMMA XorOfSet ==
  ASSUME NEW n \in Nat, NEW B \in Bitsets(n), NEW p \in 0..(n - 1), p \notin Members(B)
  PROVE  XorChunks(B) = Xor(XorChunks(Set(B, p)), {Minor(p)})
<1>. DEFINE D == Set(B, p)
            in(b) == { c \in Chunks(n) : b \in B[c] }
            on(b) == { c \in Chunks(n) : b \in D[c] }
<1>1. /\ p \in Nat /\ Major(p) \in Chunks(n) /\ Minor(p) \in 0..(W - 1)
      /\ Minor(p) \notin B[Major(p)]
      /\ DOMAIN B = Chunks(n) /\ DOMAIN D = Chunks(n)
  <2>1. p \in Nat /\ Major(p) \in Chunks(n) /\ Minor(p) \in 0..(W - 1) /\ D \in Bitsets(n)
    BY Written, Zenon
  <2>2. Minor(p) \notin B[Major(p)]
    BY <2>1, MembersAre
  <2>. QED BY <2>1, <2>2 DEF Bitsets
<1>2. \A c \in Chunks(n) :
        /\ c = Major(p) => D[c] = B[c] \cup {Minor(p)}
        /\ c # Major(p) => D[c] = B[c]
  BY DEF Set, Clear, Bitsets
<1>3. XorChunks(B) = { b \in 0..(W - 1) : Cardinality(in(b)) % 2 = 1 }
  BY <1>1 DEF XorChunks
<1>4. XorChunks(D) = { b \in 0..(W - 1) : Cardinality(on(b)) % 2 = 1 }
  BY <1>1 DEF XorChunks
<1>. HIDE DEF D
<1>5. ASSUME NEW b \in 0..(W - 1), b # Minor(p) PROVE on(b) = in(b)
  <2>1. \A c \in Chunks(n) : b \in D[c] <=> b \in B[c]
    BY <1>1, <1>2, <1>5
  <2>. QED BY <2>1
<1>6. on(Minor(p)) = in(Minor(p)) \cup {Major(p)} /\ Major(p) \notin in(Minor(p))
  <2>1. \A c \in Chunks(n) : Minor(p) \in D[c] <=> Minor(p) \in B[c] \/ c = Major(p)
    BY <1>1, <1>2
  <2>. QED BY <1>1, <2>1
<1>7. /\ Cardinality(in(Minor(p))) \in Nat
      /\ Cardinality(on(Minor(p))) = Cardinality(in(Minor(p))) + 1
  <2>1. IsFiniteSet(Chunks(n)) /\ in(Minor(p)) \in SUBSET Chunks(n)
    BY ChunkCount
  <2>. HIDE DEF in, on
  <2>2. IsFiniteSet(in(Minor(p)))
    BY <2>1, FS_Subset, Zenon
  <2>3. Cardinality(on(Minor(p))) = Cardinality(in(Minor(p))) + 1
    BY <1>6, <2>2, FS_AddElement, Zenon
  <2>. QED BY <2>2, <2>3, FS_CardinalityType, Zenon
<1>. HIDE DEF in, on
<1>8. Cardinality(in(Minor(p))) % 2 = 1 <=> ~ (Cardinality(on(Minor(p))) % 2 = 1)
  BY <1>7
<1>9. \A b \in 0..(W - 1) :
        b \in XorChunks(B) <=> ~ (b \in XorChunks(D) <=> b \in {Minor(p)})
  BY <1>3, <1>4, <1>5, <1>8
<1>10. XorChunks(B) \subseteq 0..(W - 1) /\ XorChunks(D) \subseteq 0..(W - 1)
  BY <1>3, <1>4
<1>. QED BY <1>1, <1>9, <1>10 DEF Xor, D

(* What hash_with_bit computes, in terms of the result alone: not its hash,*)
(* but its hash as if the population were one less and then xor one.       *)
Key(D) == Xor(Xor(AsWord(Popcnt(D) - 1), XorChunks(D)), AsWord(1))

LEMMA HashIsKey ==
  ASSUME NEW n \in Nat, NEW B \in Bitsets(n), NEW p \in 0..(n - 1), p \notin Members(B)
  PROVE  HashWithBit(B, p) = Key(Set(B, p))
<1>. DEFINE D == Set(B, p)
            old == B[Major(p)]
            x == AsWord(Popcnt(B))
            y == XorChunks(D)
            z == AsWord(1)
            m == Minor(p)
<1>1. Popcnt(B) = Popcnt(D) - 1
  <2>1. Members(D) = Members(B) \cup {p} /\ IsFiniteSet(Members(B))
    BY SetMembers, MembersAre
  <2>. HIDE DEF D
  <2>2. Cardinality(Members(D)) = Cardinality(Members(B)) + 1
    BY <2>1, FS_AddElement, Zenon
  <2>3. Cardinality(Members(B)) \in Nat
    BY <2>1, FS_CardinalityType, Zenon
  <2>. QED BY <2>2, <2>3 DEF Popcnt
<1>2. XorChunks(B) = Xor(y, {m})
  BY XorOfSet
<1>3. m \notin old
  <2>1. p \in Nat /\ Major(p) \in Chunks(n)
    BY Written, Zenon
  <2>. QED BY <2>1, MembersAre
<1>4. HashWithBit(B, p) = Xor(Xor(Xor(Xor(x, Xor(y, {m})), old), old \cup {m}), z)
  <2>1. Hash(B) = Xor(x, Xor(y, {m}))
    BY <1>2 DEF Hash
  <2>. QED BY <2>1 DEF HashWithBit
<1>5. Key(D) = Xor(Xor(x, y), z)
  BY <1>1 DEF Key
<1>. HIDE DEF old, x, y, z, m
<1>6. Xor(Xor(Xor(x, Xor(y, {m})), old), old \cup {m}) = Xor(x, y)
  BY <1>3 DEF Xor
<1>. QED BY <1>4, <1>5, <1>6 DEF D

(* Whatever bitset a probe adjusts, and in whatever bit, it looks under    *)
(* the same key for the same result.  (What it finds there is compared bit *)
(* by bit.)                                                                *)
THEOREM KeyOfResult ==
  ASSUME NEW n \in Nat, NEW B \in Bitsets(n), NEW C \in Bitsets(n),
         NEW p \in 0..(n - 1), p \notin Members(B),
         NEW q \in 0..(n - 1), q \notin Members(C),
         Members(B) \cup {p} = Members(C) \cup {q}
  PROVE  HashWithBit(B, p) = HashWithBit(C, q)
<1>1. /\ Members(Set(B, p)) = Members(B) \cup {p}
      /\ Members(Set(C, q)) = Members(C) \cup {q}
  BY SetMembers
<1>2. Set(B, p) = Set(C, q)
  <2>1. Set(B, p) \in Bitsets(n) /\ Set(C, q) \in Bitsets(n)
    BY Written, Zenon
  <2>. QED BY <1>1, <2>1, SameMembers, Zenon
<1>3. HashWithBit(B, p) = Key(Set(B, p)) /\ HashWithBit(C, q) = Key(Set(C, q))
  BY HashIsKey, Zenon
<1>. QED BY <1>2, <1>3

(***************************************************************************)
(* CheckSingle: the invariants of the list, the bitset and the cache, and  *)
(* the refinement of Search.                                               *)
(***************************************************************************)

Bits  == Len(entries) \div 2
Lists == Arenas(Len(entries), Ops(entries) \cup {NONE}, NodeRefs \cup {NONE})

(* No list ever changes the ids and the matches that from_entries filled in. *)
Faithful(A) ==
  /\ A \in Lists
  /\ \A p \in NodeRefs :
       /\ A[p].id = entries[p].id
       /\ IsCall(entries, p) => A[p].match_idx = ReturnOf(entries, entries[p].id)
       /\ IsReturn(entries, p) => A[p].match_idx = NONE

(* The operations of the first k frames, and what is live below them.      *)
Done(k)      == { entries[calls[j].node_ref].id : j \in 1..k }
LiveAfter(k) == { p \in NodeRefs : entries[p].id \notin Done(k) }

(* Under every frame lies the list that its lift was applied to.           *)
Layered(h) ==
  /\ h[Len(calls)] = arena
  /\ \A k \in 0..Len(calls) : Faithful(h[k]) /\ Links(h[k], LiveAfter(k))
  /\ \A k \in 1..Len(calls) : h[k] = lift(h[k - 1], calls[k].node_ref)

ListsLayered == \E h : Layered(h)

FramesAreCalls ==
  /\ \A k \in 1..Len(calls) :
       IsCall(entries, calls[k].node_ref) /\ calls[k].node_ref \in LiveAfter(k - 1)
  /\ Members(linearized) = Done(Len(calls))

CursorIsLive == cursor \in Live \cup {NONE}

BucketsKeyed ==
  \A h \in DOMAIN cache :
    /\ \A k \in 1..Len(cache[h]) : Key(cache[h][k].linearized) = h
    /\ \A j, k \in 1..Len(cache[h]) : cache[h][j] = cache[h][k] => j = k

IInv ==
  /\ TypeOK
  /\ entries \in Histories
  /\ ListsLayered
  /\ FramesAreCalls
  /\ CursorIsLive
  /\ BucketsKeyed
-----------------------------------------------------------------------------
(* What from_entries builds.                                               *)
LEMMA Built ==
  ASSUME entries \in Histories
  PROVE  Faithful(from_entries(entries)) /\ Links(from_entries(entries), NodeRefs)
<1>. DEFINE n == Len(entries)
<1>1. WellFormed(entries) /\ n \in Nat /\ NodeRefs = 1..n
  BY HistoriesAssumption DEF WellFormed, NodeRefs
<1>2. \A p \in NodeRefs :
        /\ entries[p].id \in Ops(entries)
        /\ ReturnOf(entries, entries[p].id) \in NodeRefs
        /\ ~ (IsCall(entries, p) /\ IsReturn(entries, p))
        /\ IsCall(entries, p) =>
             return_idx(entries, entries[p].id) = ReturnOf(entries, entries[p].id)
  <2>. SUFFICES ASSUME NEW p \in NodeRefs
                PROVE  /\ entries[p].id \in Ops(entries)
                       /\ ReturnOf(entries, entries[p].id) \in NodeRefs
                       /\ ~ (IsCall(entries, p) /\ IsReturn(entries, p))
                       /\ return_idx(entries, entries[p].id)
                            = ReturnOf(entries, entries[p].id)
    OBVIOUS
  <2>1. entries[p].id \in Ops(entries) /\ ~ (IsCall(entries, p) /\ IsReturn(entries, p))
    BY <1>1, EntryKind DEF NodeRefs
  <2>2. /\ ReturnOf(entries, entries[p].id) \in NodeRefs
        /\ entries[ReturnOf(entries, entries[p].id)].id = entries[p].id
        /\ IsReturn(entries, ReturnOf(entries, entries[p].id))
    BY <1>1, <2>1, OpEntries, Zenon DEF NodeRefs
  <2>. QED BY <2>1, <2>2 DEF return_idx, NodeRefs
<1>. DEFINE A == from_entries(entries)
            id(p)    == IF p = 0 THEN NONE ELSE entries[p].id
            match(p) == IF p > 0 /\ IsCall(entries, p)
                        THEN return_idx(entries, entries[p].id) ELSE NONE
            prev(p)  == IF p = 0 THEN 0 ELSE p - 1
            next(p)  == IF p < n THEN p + 1 ELSE NONE
<1>3. A = [p \in 0..n |-> [id |-> id(p), match_idx |-> match(p),
                           prev |-> prev(p), next |-> next(p)]]
  BY Zenon DEF from_entries
<1>4. ASSUME NEW p \in 0..n
      PROVE  /\ id(p) \in Ops(entries) \cup {NONE}
             /\ match(p) \in NodeRefs \cup {NONE}
             /\ prev(p) \in 0..n /\ next(p) \in (1..n) \cup {NONE}
  <2>1. p # 0 => p \in NodeRefs
    BY <1>1
  <2>. QED BY <1>1, <1>2, <2>1
<1>5. ASSUME NEW p \in NodeRefs
      PROVE  /\ p \in 0..n /\ id(p) = entries[p].id
             /\ IsCall(entries, p) => match(p) = ReturnOf(entries, entries[p].id)
             /\ IsReturn(entries, p) => match(p) = NONE
  BY <1>1, <1>2
<1>. HIDE DEF A, id, match, prev, next
<1>6. A \in Lists
  BY <1>3, <1>4 DEF Lists, Arenas
<1>7. \A p \in NodeRefs :
        /\ A[p].id = entries[p].id
        /\ IsCall(entries, p) => A[p].match_idx = ReturnOf(entries, entries[p].id)
        /\ IsReturn(entries, p) => A[p].match_idx = NONE
  BY <1>3, <1>5
<1>8. Links(A, NodeRefs)
  BY <1>1, BuiltLinked DEF A, NodeRefs
<1>. QED BY <1>6, <1>7, <1>8 DEF Faithful, A

(* Operations are the bits of the bitset.                                  *)
LEMMA OpsAreBits ==
  ASSUME entries \in Histories
  PROVE  /\ WellFormed(entries) /\ NodeRefs = 1..Len(entries) /\ Len(entries) \in Nat
         /\ Bits \in Nat
         /\ \A i \in Ops(entries) : i \in 0..(Bits - 1)
<1>1. WellFormed(entries) /\ Ops(entries) = 0..(Len(entries) \div 2 - 1)
  BY HistoriesAssumption
<1>. QED BY <1>1 DEF WellFormed, Bits, NodeRefs

(* The list is the live entries, as its last layer.                        *)
LEMMA ListNow ==
  ASSUME IInv
  PROVE  Faithful(arena) /\ Links(arena, Live)
<1>1. PICK h : Layered(h)
  BY DEF IInv, ListsLayered
<1>2. Len(calls) \in Nat
  BY LenProperties DEF IInv, TypeOK
<1>3. LiveAfter(Len(calls)) = Live
  BY DEF IInv, FramesAreCalls, LiveAfter, Live
<1>4. Faithful(h[Len(calls)]) /\ Links(h[Len(calls)], LiveAfter(Len(calls)))
  BY <1>1, <1>2 DEF Layered
<1>. QED BY <1>1, <1>3, <1>4 DEF Layered

(* The entry under the cursor is live; it is a call iff it has a match.    *)
LEMMA AtEntry ==
  ASSUME IInv, cursor # NONE
  PROVE  /\ cursor \in Live /\ cursor \in NodeRefs
         /\ OpId = entries[cursor].id /\ OpId \in Ops(entries)
         /\ OpId \in 0..(Bits - 1) /\ OpId \notin Members(linearized)
         /\ match_of(arena, cursor) # NONE <=> IsCall(entries, cursor)
         /\ IsCall(entries, cursor) <=> ~ IsReturn(entries, cursor)
<1>1. cursor \in Live /\ cursor \in NodeRefs
  BY DEF IInv, CursorIsLive, Live
<1>2. Faithful(arena)
  BY ListNow
<1>3. WellFormed(entries)
  BY OpsAreBits DEF IInv
<1>4. OpId = entries[cursor].id
  BY <1>1, <1>2 DEF Faithful, OpId
<1>5. OpId \in Ops(entries) /\ OpId \in 0..(Bits - 1) /\ OpId \notin Members(linearized)
  BY <1>1, <1>4, OpsAreBits DEF IInv, Ops, NodeRefs, Live
<1>6. /\ IsCall(entries, cursor) \/ IsReturn(entries, cursor)
      /\ ~ (IsCall(entries, cursor) /\ IsReturn(entries, cursor))
  BY <1>1, <1>3, EntryKind DEF NodeRefs
<1>7. ReturnOf(entries, OpId) \in Nat
  <2>1. ReturnOf(entries, OpId) \in NodeRefs
    BY <1>3, <1>5, OpEntries DEF NodeRefs
  <2>. QED BY <2>1, OpsAreBits DEF IInv
<1>8. /\ IsCall(entries, cursor) => arena[cursor].match_idx = ReturnOf(entries, OpId)
      /\ IsReturn(entries, cursor) => arena[cursor].match_idx = NONE
  BY <1>1, <1>2, <1>4 DEF Faithful
<1>. QED BY <1>1, <1>4, <1>5, <1>6, <1>7, <1>8, NoneAssumption DEF match_of

LEMMA AtCallFacts ==
  ASSUME IInv, AtCall
  PROVE  /\ cursor \in Live /\ cursor \in NodeRefs /\ IsCall(entries, cursor)
         /\ OpId = entries[cursor].id /\ OpId \in Ops(entries)
         /\ OpId \in 0..(Bits - 1) /\ OpId \notin Members(linearized)
         /\ match_of(arena, cursor) = ReturnOf(entries, OpId)
         /\ match_of(arena, cursor) \in Live \ {cursor}
         /\ { p \in NodeRefs : entries[p].id = OpId } = {cursor, match_of(arena, cursor)}
         /\ NextState = Apply(entries, state, OpId)
         /\ NextState \in State \cup {Rejected}
<1>1. /\ cursor \in Live /\ cursor \in NodeRefs /\ IsCall(entries, cursor)
      /\ OpId = entries[cursor].id /\ OpId \in Ops(entries)
      /\ OpId \in 0..(Bits - 1) /\ OpId \notin Members(linearized)
  BY AtEntry DEF AtCall
<1>. DEFINE r == ReturnOf(entries, OpId)
<1>2. match_of(arena, cursor) = r
  BY <1>1, ListNow DEF Faithful, match_of
<1>3. WellFormed(entries)
  BY OpsAreBits DEF IInv
<1>4. cursor = CallOf(entries, OpId)
  BY <1>1, <1>3, EntryKind, Zenon DEF NodeRefs
<1>5. /\ r \in NodeRefs /\ entries[r].id = OpId /\ cursor < r
      /\ \A p \in NodeRefs : entries[p].id = OpId => p = cursor \/ p = r
  BY <1>1, <1>3, <1>4, OpEntries DEF NodeRefs
<1>6. r \in Live \ {cursor}
  <2>1. cursor \in Nat
    BY <1>1, OpsAreBits DEF IInv
  <2>. QED BY <1>1, <1>5, <2>1 DEF Live
<1>7. NextState = Apply(entries, state, OpId)
  BY <1>2, <1>4 DEF NextState, Apply
<1>8. state \in State
  BY DEF IInv, TypeOK
<1>9. NextState \in State \cup {Rejected}
  BY <1>1, <1>3, <1>7, <1>8, ApplyType, Zenon
<1>10. { p \in NodeRefs : entries[p].id = OpId } = {cursor, r}
  BY <1>1, <1>5
<1>. QED BY <1>1, <1>2, <1>6, <1>7, <1>9, <1>10
-----------------------------------------------------------------------------
CacheEntry == [linearized : Bitsets(Bits), state : State]

NewEntry == [linearized |-> Set(linearized, OpId), state |-> NextState]

LEMMA InCache ==
  ASSUME TypeOK
  PROVE  /\ \A h \in DOMAIN cache : cache[h] \in Seq(CacheEntry)
         /\ \A e : e \in CacheEntries <=>
              \E h \in DOMAIN cache : \E k \in 1..Len(cache[h]) : e = cache[h][k]
         /\ CacheEntries \subseteq CacheEntry
<1>1. \A h \in DOMAIN cache : cache[h] \in Seq(CacheEntry)
  BY DEF TypeOK, CacheEntry, Bits
<1>2. \A e : e \in CacheEntries <=>
        \E h \in DOMAIN cache : \E k \in 1..Len(cache[h]) : e = cache[h][k]
  BY DEF CacheEntries
<1>3. ASSUME NEW h \in DOMAIN cache, NEW k \in 1..Len(cache[h])
      PROVE  cache[h][k] \in CacheEntry
  BY <1>1, ElementOfSeq
<1>. QED BY <1>1, <1>2, <1>3

(* Comparing with a bit adjusted finds exactly what was stored with the    *)
(* bit set: the probe looks in the right bucket and knows its entry.       *)
LEMMA HitIsEntry ==
  ASSUME IInv, AtCall
  PROVE  /\ CacheHit <=> NewEntry \in CacheEntries
         /\ Probe = Key(Set(linearized, OpId))
         /\ Set(linearized, OpId) \in Bitsets(Bits)
         /\ Members(Set(linearized, OpId)) = Members(linearized) \cup {OpId}
<1>1. TypeOK /\ linearized \in Bitsets(Bits) /\ Bits \in Nat
  BY OpsAreBits DEF IInv, TypeOK, Bits
<1>2. OpId \in 0..(Bits - 1) /\ OpId \notin Members(linearized)
  BY AtCallFacts
<1>3. Probe = Key(Set(linearized, OpId))
  BY <1>1, <1>2, HashIsKey, Zenon DEF Probe
<1>4. Set(linearized, OpId) \in Bitsets(Bits)
  BY <1>1, <1>2, Written, Zenon
<1>5. Members(Set(linearized, OpId)) = Members(linearized) \cup {OpId}
  BY <1>1, <1>2, SetMembers, Zenon
<1>6. ASSUME NEW h \in DOMAIN cache, NEW k \in 1..Len(cache[h])
      PROVE  cache[h][k] = NewEntry <=>
               /\ EqWithBit(linearized, OpId, cache[h][k].linearized)
               /\ cache[h][k].state = NextState
  <2>1. cache[h][k] \in CacheEntry
    BY <1>1, InCache
  <2>2. cache[h][k].linearized \in Bitsets(Bits)
    BY <2>1 DEF CacheEntry
  <2>3. EqWithBit(linearized, OpId, cache[h][k].linearized)
          <=> cache[h][k].linearized = Set(linearized, OpId)
    BY <1>1, <1>2, <2>2, EqMeansSet, Zenon
  <2>. QED BY <2>1, <2>3 DEF CacheEntry, NewEntry
<1>7. ASSUME CacheHit PROVE NewEntry \in CacheEntries
  <2>1. PICK k \in 1..Len(Bucket(Probe)) :
          /\ EqWithBit(linearized, OpId, Bucket(Probe)[k].linearized)
          /\ Bucket(Probe)[k].state = NextState
    BY <1>7 DEF CacheHit, cache_contains_with_bit
  <2>2. Probe \in DOMAIN cache /\ Bucket(Probe) = cache[Probe]
    BY <2>1 DEF Bucket
  <2>3. NewEntry = cache[Probe][k]
    BY <1>6, <2>1, <2>2
  <2>. QED BY <1>1, <2>1, <2>2, <2>3, InCache
<1>8. ASSUME NewEntry \in CacheEntries PROVE CacheHit
  <2>0. PICK h \in DOMAIN cache : \E k \in 1..Len(cache[h]) : NewEntry = cache[h][k]
    BY <1>1, <1>8, InCache
  <2>1. PICK k \in 1..Len(cache[h]) : NewEntry = cache[h][k]
    BY <2>0
  <2>2. h = Probe
    <3>1. Key(cache[h][k].linearized) = h
      BY DEF IInv, BucketsKeyed
    <3>. QED BY <1>3, <2>1, <3>1 DEF NewEntry
  <2>3. Bucket(Probe) = cache[h]
    BY <2>2 DEF Bucket
  <2>4. /\ EqWithBit(linearized, OpId, cache[h][k].linearized)
        /\ cache[h][k].state = NextState
    BY <1>6, <2>1
  <2>. QED BY <2>3, <2>4 DEF CacheHit, cache_contains_with_bit
<1>. QED BY <1>3, <1>4, <1>5, <1>7, <1>8
-----------------------------------------------------------------------------
(* The None of a cursor, as Search writes it.                              *)
AbsCursor(E, q) == IF q = NONE THEN Len(E) + 1 ELSE q

LEMMA NextIsLive ==
  ASSUME NEW A, NEW S, Links(A, S), NEW p \in S \cup {0}
  PROVE  A[p].next \in S \cup {NONE}
BY DEF Links, IsNext

(* Following a link of the list moves the cursor as Search moves it.       *)
LEMMA NextIsFirst ==
  ASSUME NEW E, WellFormed(E), NEW L, NEW A,
         NEW S, S = { q \in DOMAIN E : E[q].id \notin L },
         Links(A, S), NEW p \in S \cup {0}
  PROVE  /\ Abstract!FirstAfter(E, L, p, AbsCursor(E, A[p].next))
         /\ AbsCursor(E, A[p].next) \in DOMAIN E \cup {Len(E) + 1}
<1>. DEFINE q == A[p].next
<1>1. IsNext(S, p, q)
  BY DEF Links
<1>. HIDE DEF q
<1>2. /\ DOMAIN E = 1..Len(E) /\ Len(E) \in Nat
      /\ S \subseteq 1..Len(E) /\ p \in 0..Len(E)
  BY DEF WellFormed
<1>3. CASE \E r \in S : r > p
  <2>1. q \in S /\ q > p /\ \A r \in S : r > p => r >= q
    BY <1>1, <1>3 DEF IsNext
  <2>2. q # NONE
    BY <1>2, <2>1, NoneAssumption
  <2>. QED BY <1>2, <2>1, <2>2 DEF AbsCursor, Abstract!FirstAfter, Abstract!Live,
                                   Abstract!End, q
<1>4. CASE ~ \E r \in S : r > p
  <2>1. q = NONE
    BY <1>1, <1>4 DEF IsNext
  <2>. QED BY <1>2, <1>4, <2>1 DEF AbsCursor, Abstract!FirstAfter, Abstract!Live,
                                   Abstract!End, q
<1>. QED BY <1>3, <1>4

LEMMA ListsAreArenas ==
  ASSUME entries \in Histories
  PROVE  Lists = [0..Len(entries) ->
                    [id : Ops(entries) \cup {NONE}, match_idx : NodeRefs \cup {NONE},
                     prev : NodeRefs \cup {0}, next : NodeRefs \cup {NONE}]]
<1>1. NodeRefs = 1..Len(entries) /\ Len(entries) \in Nat
  BY OpsAreBits
<1>2. NodeRefs \cup {0} = 0..Len(entries)
  BY <1>1
<1>. QED BY <1>1, <1>2 DEF Lists, Arenas

LEMMA InitInv == Init => IInv
<1>. SUFFICES ASSUME Init PROVE IInv
  OBVIOUS
<1>1. /\ entries \in Histories /\ arena = from_entries(entries)
      /\ linearized = New(Bits) /\ calls = <<>> /\ cursor = arena[0].next
      /\ cache = <<>> /\ state = InitState /\ kill \in BOOLEAN /\ returned = "no"
  BY DEF Init, Bits, head_next
<1>2. /\ WellFormed(entries) /\ Bits \in Nat
      /\ Faithful(arena) /\ Links(arena, NodeRefs)
  BY <1>1, Built, OpsAreBits
<1>3. linearized \in Bitsets(Bits) /\ Members(linearized) = {}
  BY <1>1, <1>2, NewMembers
<1>4. Len(calls) = 0 /\ Done(0) = {} /\ LiveAfter(0) = NodeRefs
  BY <1>1 DEF Done, LiveAfter
<1>5. Live = NodeRefs /\ Live = { p \in DOMAIN entries : entries[p].id \notin {} }
  BY <1>3 DEF Live, NodeRefs
<1>6. cursor \in Live \cup {NONE}
  <2>1. Links(arena, Live) /\ 0 \in Live \cup {0}
    BY <1>2, <1>5
  <2>2. arena[0].next \in Live \cup {NONE}
    BY <2>1, NextIsLive, Zenon
  <2>. QED BY <1>1, <2>2
<1>7. TypeOK
  <2>1. arena \in Lists
    BY <1>2 DEF Faithful
  <2>2. calls \in Seq([node_ref : NodeRefs, state : State])
    BY <1>1, EmptySeq
  <2>3. cursor \in NodeRefs \cup {NONE}
    BY <1>5, <1>6
  <2>4. DOMAIN cache = {}
    BY <1>1
  <2>. QED BY <1>1, <1>2, <1>3, <2>1, <2>2, <2>3, <2>4, ListsAreArenas, ModelAssumption
           DEF TypeOK, Bits
<1>8. ListsLayered
  <2>. DEFINE g == [k \in {0} |-> arena]
  <2>1. g[0] = arena
    OBVIOUS
  <2>. HIDE DEF g
  <2>2. Layered(g)
    BY <1>2, <1>4, <2>1 DEF Layered
  <2>. QED BY <2>2 DEF ListsLayered
<1>9. FramesAreCalls
  BY <1>3, <1>4 DEF FramesAreCalls
<1>10. BucketsKeyed
  BY <1>1 DEF BucketsKeyed
<1>. QED BY <1>1, <1>6, <1>7, <1>8, <1>9, <1>10 DEF IInv, CursorIsLive

(* What none of the variables of the list, the stack and the cache changes.*)
LEMMA StillInv ==
  ASSUME IInv, TypeOK', CursorIsLive',
         UNCHANGED <<entries, arena, linearized, calls, cache>>
  PROVE  IInv'
<1>1. ASSUME NEW k PROVE LiveAfter(k)' = LiveAfter(k) /\ Done(k)' = Done(k)
  BY DEF Done, LiveAfter, NodeRefs
<1>2. ListsLayered'
  <2>1. PICK h : Layered(h)
    BY DEF IInv, ListsLayered
  <2>2. ASSUME NEW A PROVE Faithful(A)' <=> Faithful(A)
    BY DEF Faithful, Lists, NodeRefs
  <2>3. /\ h[Len(calls')] = arena'
        /\ \A k \in 1..Len(calls') : h[k] = lift(h[k - 1], calls'[k].node_ref)
    BY <2>1 DEF Layered
  <2>4. ASSUME NEW k \in 0..Len(calls')
        PROVE  Faithful(h[k])' /\ Links(h[k], LiveAfter(k)')
    BY <1>1, <2>1, <2>2 DEF Layered
  <2>. QED BY <2>3, <2>4 DEF ListsLayered, Layered
<1>3. FramesAreCalls'
  BY <1>1 DEF IInv, FramesAreCalls
<1>4. BucketsKeyed' /\ entries' \in Histories
  BY DEF IInv, BucketsKeyed
<1>. QED BY <1>2, <1>3, <1>4 DEF IInv
-----------------------------------------------------------------------------
LEMMA KeyIsWord == ASSUME NEW B PROVE Key(B) \in Word
<1>1. \A n : AsWord(n) \in SUBSET (0..(W - 1))
  BY DEF AsWord
<1>2. XorChunks(B) \in SUBSET (0..(W - 1))
  BY DEF XorChunks
<1>. QED BY <1>1, <1>2 DEF Key, Xor, Word

(* A miss is stored once, where every later probe will look for it.        *)
LEMMA InsertCached ==
  ASSUME IInv, AtCall, NextState # Rejected, ~ CacheHit, Insert(Probe, NewEntry)
  PROVE  /\ \A h \in DOMAIN cache' : h \in Word /\ cache'[h] \in Seq(CacheEntry)
         /\ BucketsKeyed'
         /\ CacheEntries' = CacheEntries \cup {NewEntry}
<1>1. PICK g : g = Probe
  OBVIOUS
<1>2. PICK e : e = NewEntry
  OBVIOUS
<1>3. PICK b : b = Bucket(g)
  OBVIOUS
<1>4. /\ DOMAIN cache' = DOMAIN cache \cup {g}
      /\ cache'[g] = Append(b, e)
      /\ \A h \in DOMAIN cache : h # g => cache'[h] = cache[h]
  BY <1>1, <1>2, <1>3 DEF Insert
<1>5. /\ g = Key(e.linearized) /\ g \in Word /\ e \in CacheEntry /\ e \notin CacheEntries
  <2>1. NextState \in State
    BY AtCallFacts
  <2>2. NewEntry \in CacheEntry /\ NewEntry.linearized = Set(linearized, OpId)
    BY <2>1, HitIsEntry DEF CacheEntry, NewEntry
  <2>3. Probe = Key(NewEntry.linearized)
    BY <2>2, HitIsEntry
  <2>. QED BY <1>1, <1>2, <2>2, <2>3, HitIsEntry, KeyIsWord
<1>6. /\ \A h \in DOMAIN cache : h \in Word /\ cache[h] \in Seq(CacheEntry)
      /\ \A x : x \in CacheEntries <=>
           \E h \in DOMAIN cache : \E k \in 1..Len(cache[h]) : x = cache[h][k]
  BY InCache DEF IInv, TypeOK
<1>7. /\ b \in Seq(CacheEntry)
      /\ g \in DOMAIN cache => b = cache[g]
      /\ g \notin DOMAIN cache => b = <<>>
  <2>1. <<>> \in Seq(CacheEntry)
    BY EmptySeq
  <2>. QED BY <1>3, <1>6, <2>1 DEF Bucket
<1>8. PICK n \in Nat : n = Len(b)
  BY <1>7, LenProperties
<1>9. /\ cache'[g] \in Seq(CacheEntry)
      /\ Len(cache'[g]) = n + 1
      /\ \A k \in 1..n : cache'[g][k] = b[k]
      /\ cache'[g][n + 1] = e
  BY <1>4, <1>5, <1>7, <1>8, Push
<1>10. \A k \in 1..n : b[k] \in CacheEntries /\ Key(b[k].linearized) = g
  <2>. SUFFICES ASSUME NEW k \in 1..n
                PROVE  b[k] \in CacheEntries /\ Key(b[k].linearized) = g
    OBVIOUS
  <2>1. g \in DOMAIN cache /\ b = cache[g]
    <3>1. b = <<>> => n = 0
      BY <1>8
    <3>. QED BY <1>7, <3>1
  <2>. QED BY <1>6, <1>8, <2>1 DEF IInv, BucketsKeyed
<1>11. \A h \in DOMAIN cache' : h \in Word /\ cache'[h] \in Seq(CacheEntry)
  BY <1>4, <1>5, <1>6, <1>9
<1>12. ASSUME NEW h \in DOMAIN cache'
       PROVE  /\ \A k \in 1..Len(cache'[h]) : Key(cache'[h][k].linearized) = h
              /\ \A j, k \in 1..Len(cache'[h]) : cache'[h][j] = cache'[h][k] => j = k
  <2>1. CASE h # g
    <3>1. h \in DOMAIN cache /\ cache'[h] = cache[h]
      BY <1>4, <2>1
    <3>. QED BY <3>1 DEF IInv, BucketsKeyed
  <2>2. CASE h = g
    <3>1. ASSUME NEW k \in 1..(n + 1) PROVE Key(cache'[g][k].linearized) = g
      BY <1>5, <1>9, <1>10
    <3>2. ASSUME NEW j \in 1..(n + 1), NEW k \in 1..(n + 1),
                 cache'[g][j] = cache'[g][k]
          PROVE  j = k
      <4>1. CASE j \in 1..n /\ k \in 1..n
        <5>1. b[j] = b[k]
          BY <1>9, <3>2, <4>1
        <5>2. g \in DOMAIN cache /\ b = cache[g]
          <6>1. b = <<>> => n = 0
            BY <1>8
          <6>. QED BY <1>7, <4>1, <6>1
        <5>. QED BY <1>8, <4>1, <5>1, <5>2 DEF IInv, BucketsKeyed
      <4>2. CASE j = n + 1 /\ k = n + 1
        BY <4>2
      <4>3. CASE (j \in 1..n /\ k = n + 1) \/ (j = n + 1 /\ k \in 1..n)
        BY <1>5, <1>9, <1>10, <3>2, <4>3
      <4>. QED BY <4>1, <4>2, <4>3
    <3>. QED BY <1>9, <2>2, <3>1, <3>2
  <2>. QED BY <2>1, <2>2
<1>13. BucketsKeyed'
  BY <1>12 DEF BucketsKeyed
<1>14. ASSUME NEW x
       PROVE  x \in CacheEntries' <=> x \in CacheEntries \/ x = e
  <2>1. x \in CacheEntries' <=>
          \E h \in DOMAIN cache' : \E k \in 1..Len(cache'[h]) : x = cache'[h][k]
    BY DEF CacheEntries
  <2>2. ASSUME NEW h \in DOMAIN cache', NEW k \in 1..Len(cache'[h]), x = cache'[h][k]
        PROVE  x \in CacheEntries \/ x = e
    <3>1. CASE h # g
      BY <1>4, <1>6, <2>2, <3>1
    <3>2. CASE h = g
      <4>1. k \in 1..n \/ k = n + 1
        BY <1>9, <3>2
      <4>. QED BY <1>9, <1>10, <2>2, <3>2, <4>1
    <3>. QED BY <3>1, <3>2
  <2>3. ASSUME x \in CacheEntries PROVE x \in CacheEntries'
    <3>1. PICK h \in DOMAIN cache : \E k \in 1..Len(cache[h]) : x = cache[h][k]
      BY <1>6, <2>3
    <3>2. PICK k \in 1..Len(cache[h]) : x = cache[h][k]
      BY <3>1
    <3>3. CASE h # g
      BY <1>4, <2>1, <3>2, <3>3
    <3>4. CASE h = g
      <4>1. k \in 1..n /\ x = cache'[g][k]
        BY <1>7, <1>8, <1>9, <3>2, <3>4
      <4>2. k \in 1..Len(cache'[g]) /\ g \in DOMAIN cache'
        BY <1>4, <1>8, <1>9, <4>1
      <4>. QED BY <2>1, <4>1, <4>2
    <3>. QED BY <3>3, <3>4
  <2>4. e \in CacheEntries'
    <3>1. g \in DOMAIN cache' /\ n + 1 \in 1..Len(cache'[g]) /\ e = cache'[g][n + 1]
      BY <1>4, <1>9
    <3>2. e \in CacheEntries' <=>
            \E h \in DOMAIN cache' : \E k \in 1..Len(cache'[h]) : e = cache'[h][k]
      BY DEF CacheEntries
    <3>. QED BY <3>1, <3>2
  <2>. QED BY <2>1, <2>2, <2>3, <2>4
<1>. QED BY <1>2, <1>11, <1>13, <1>14
-----------------------------------------------------------------------------
LEMMA LiftFacts ==
  ASSUME IInv, AtCall
  PROVE  /\ Faithful(lift(arena, cursor))
         /\ Links(lift(arena, cursor), { p \in Live : entries[p].id # OpId })
<1>1. /\ entries \in Histories /\ WellFormed(entries)
      /\ Len(entries) \in Nat /\ NodeRefs = 1..Len(entries)
  BY OpsAreBits DEF IInv
<1>2. Faithful(arena) /\ Links(arena, Live)
  BY ListNow
<1>3. /\ cursor \in Live /\ arena[cursor].match_idx \in Live \ {cursor}
      /\ { p \in NodeRefs : entries[p].id = OpId } = {cursor, arena[cursor].match_idx}
  BY AtCallFacts DEF match_of
<1>4. Live \in SUBSET (1..Len(entries)) /\ Live \subseteq NodeRefs
  BY <1>1 DEF Live
<1>5. arena \in Arenas(Len(entries), Ops(entries) \cup {NONE}, NodeRefs \cup {NONE})
  BY <1>2 DEF Faithful, Lists
<1>6. /\ lift(arena, cursor)
           \in Arenas(Len(entries), Ops(entries) \cup {NONE}, NodeRefs \cup {NONE})
      /\ Kept(Len(entries), arena, lift(arena, cursor))
      /\ Links(lift(arena, cursor), Live \ {cursor, arena[cursor].match_idx})
  BY <1>1, <1>2, <1>3, <1>4, <1>5, LiftLinks, Zenon
<1>7. Live \ {cursor, arena[cursor].match_idx} = { p \in Live : entries[p].id # OpId }
  BY <1>3, <1>4
<1>8. \A p \in NodeRefs : p \in 0..Len(entries)
  BY <1>1
<1>. QED BY <1>2, <1>6, <1>7, <1>8 DEF Faithful, Lists, Kept

LEMMA LinearizeInv ==
  ASSUME IInv, Linearize
  PROVE  /\ IInv' /\ CacheEntries' = CacheEntries \cup {NewEntry}
         /\ Live' = { p \in DOMAIN entries :
                        entries[p].id \notin Members(linearized) \cup {OpId} }
         /\ Links(arena', Live')
<1>1. /\ AtCall /\ NextState # Rejected /\ ~ CacheHit /\ Insert(Probe, NewEntry)
      /\ calls' = Append(calls, [node_ref |-> cursor, state |-> state])
      /\ state' = NextState /\ linearized' = Set(linearized, OpId)
      /\ arena' = lift(arena, cursor) /\ cursor' = arena'[0].next
      /\ entries' = entries /\ kill' = kill /\ returned' = returned
  BY DEF Linearize, LinearizeUnder, NewEntry, head_next
<1>2. /\ \A h \in DOMAIN cache' : h \in Word /\ cache'[h] \in Seq(CacheEntry)
      /\ BucketsKeyed' /\ CacheEntries' = CacheEntries \cup {NewEntry}
  BY <1>1, InsertCached
<1>3. PICK n \in Nat : n = Len(calls)
  BY LenProperties DEF IInv, TypeOK
<1>4. PICK c : c = cursor
  OBVIOUS
<1>5. PICK op : op = OpId
  OBVIOUS
<1>6. /\ c \in Live /\ c \in NodeRefs /\ IsCall(entries, c) /\ entries[c].id = op
      /\ NextState \in State
  BY <1>1, <1>4, <1>5, AtCallFacts
<1>7. /\ calls' \in Seq([node_ref : NodeRefs, state : State])
      /\ Len(calls') = n + 1 /\ \A k \in 1..n : calls'[k] = calls[k]
      /\ calls'[n + 1].node_ref = c
  <2>1. /\ calls \in Seq([node_ref : NodeRefs, state : State])
        /\ [node_ref |-> cursor, state |-> state] \in [node_ref : NodeRefs, state : State]
    BY <1>4, <1>6 DEF IInv, TypeOK
  <2>. QED BY <1>1, <1>3, <1>4, <2>1, Push
<1>8. /\ linearized' \in Bitsets(Bits)
      /\ Members(linearized') = Members(linearized) \cup {op}
  BY <1>1, <1>5, HitIsEntry
<1>9. Members(linearized) = Done(n) /\ Live = LiveAfter(n)
  BY <1>3 DEF IInv, FramesAreCalls, Live, LiveAfter
<1>10. ASSUME NEW k \in 0..n
       PROVE  Done(k)' = Done(k) /\ LiveAfter(k)' = LiveAfter(k)
  <2>1. \A j \in 1..k : entries'[calls'[j].node_ref].id = entries[calls[j].node_ref].id
    BY <1>1, <1>7
  <2>2. Done(k)' = Done(k)
    BY <2>1 DEF Done
  <2>. QED BY <1>1, <2>2 DEF LiveAfter, NodeRefs
<1>11. Done(n + 1)' = Done(n) \cup {op}
  <2>1. /\ \A j \in 1..n : entries'[calls'[j].node_ref].id = entries[calls[j].node_ref].id
        /\ entries'[calls'[n + 1].node_ref].id = op
    BY <1>1, <1>6, <1>7
  <2>2. 1..(n + 1) = (1..n) \cup {n + 1}
    OBVIOUS
  <2>. QED BY <2>1, <2>2 DEF Done
<1>12. /\ Live' = { p \in NodeRefs : entries[p].id \notin Members(linearized) \cup {op} }
       /\ Live' = { p \in Live : entries[p].id # op }
       /\ LiveAfter(n + 1)' = Live'
  BY <1>1, <1>8, <1>9, <1>11 DEF Live, LiveAfter, NodeRefs
<1>13. /\ Faithful(arena') /\ Links(arena', Live')
       /\ \A A : Faithful(A)' <=> Faithful(A)
  <2>1. Faithful(arena') /\ Links(arena', Live')
    BY <1>1, <1>5, <1>12, LiftFacts
  <2>. QED BY <1>1, <2>1 DEF Faithful, Lists, NodeRefs
<1>14. cursor' \in Live' \cup {NONE}
  <2>1. 0 \in Live' \cup {0}
    OBVIOUS
  <2>. QED BY <1>1, <1>13, <2>1, NextIsLive, Zenon
<1>15. TypeOK'
  <2>1. arena' \in Lists
    BY <1>13 DEF Faithful
  <2>2. Live' \subseteq NodeRefs
    BY <1>12 DEF Live
  <2>. QED BY <1>1, <1>2, <1>6, <1>7, <1>8, <1>14, <2>1, <2>2, ListsAreArenas
           DEF IInv, TypeOK, CacheEntry, Bits, NodeRefs
<1>16. ListsLayered'
  <2>1. PICK h : Layered(h)
    BY DEF IInv, ListsLayered
  <2>2. PICK a : a = arena'
    OBVIOUS
  <2>. DEFINE g == [k \in 0..(n + 1) |-> IF k \in 0..n THEN h[k] ELSE a]
  <2>3. g[n + 1] = a /\ \A k \in 0..n : g[k] = h[k]
    OBVIOUS
  <2>. HIDE DEF g
  <2>5. ASSUME NEW k \in 0..(n + 1)
        PROVE  Faithful(g[k])' /\ Links(g[k], LiveAfter(k)')
    <3>1. CASE k \in 0..n
      <4>1. Faithful(h[k]) /\ Links(h[k], LiveAfter(k))
        BY <1>3, <2>1, <3>1 DEF Layered
      <4>. QED BY <1>10, <1>13, <2>3, <3>1, <4>1
    <3>2. CASE k = n + 1
      <4>1. g[k] = a /\ LiveAfter(k)' = Live'
        BY <1>12, <2>3, <3>2
      <4>2. Faithful(a)'
        BY <1>13, <2>2
      <4>. QED BY <1>13, <2>2, <4>1, <4>2
    <3>. QED BY <3>1, <3>2
  <2>6. ASSUME NEW k \in 1..(n + 1)
        PROVE  g[k] = lift(g[k - 1], calls'[k].node_ref)
    <3>1. CASE k \in 1..n
      <4>1. h[k] = lift(h[k - 1], calls[k].node_ref)
        BY <1>3, <2>1, <3>1 DEF Layered
      <4>2. g[k] = h[k] /\ g[k - 1] = h[k - 1] /\ calls'[k] = calls[k]
        BY <1>7, <2>3, <3>1
      <4>. QED BY <4>1, <4>2
    <3>2. CASE k = n + 1
      <4>1. h[n] = arena
        BY <1>3, <2>1 DEF Layered
      <4>2. g[k - 1] = h[n] /\ g[k] = a /\ calls'[k].node_ref = c
        BY <1>7, <2>3, <3>2
      <4>. QED BY <1>1, <1>4, <2>2, <4>1, <4>2
    <3>. QED BY <3>1, <3>2
  <2>7. Layered(g)'
    BY <1>7, <2>2, <2>3, <2>5, <2>6 DEF Layered
  <2>. QED BY <2>7 DEF ListsLayered
<1>17. FramesAreCalls'
  <2>1. ASSUME NEW k \in 1..(n + 1)
        PROVE  IsCall(entries', calls'[k].node_ref) /\ calls'[k].node_ref \in LiveAfter(k - 1)'
    <3>1. CASE k \in 1..n
      <4>1. IsCall(entries, calls[k].node_ref) /\ calls[k].node_ref \in LiveAfter(k - 1)
        BY <1>3, <3>1 DEF IInv, FramesAreCalls
      <4>2. k - 1 \in 0..n
        BY <3>1
      <4>3. LiveAfter(k - 1)' = LiveAfter(k - 1)
        BY <1>10, <4>2
      <4>. QED BY <1>1, <1>7, <3>1, <4>1, <4>3
    <3>2. CASE k = n + 1
      <4>1. k - 1 = n /\ n \in 0..n
        BY <3>2
      <4>2. LiveAfter(k - 1)' = LiveAfter(n)
        BY <1>10, <4>1
      <4>. QED BY <1>1, <1>6, <1>7, <1>9, <3>2, <4>2
    <3>. QED BY <3>1, <3>2
  <2>2. Members(linearized') = Done(n + 1)'
    BY <1>8, <1>9, <1>11
  <2>. QED BY <1>7, <2>1, <2>2 DEF FramesAreCalls
<1>18. IInv'
  BY <1>1, <1>2, <1>14, <1>15, <1>16, <1>17 DEF IInv, CursorIsLive
<1>. QED BY <1>2, <1>5, <1>12, <1>13, <1>18 DEF NodeRefs
-----------------------------------------------------------------------------
(* A call and its match are the two entries of their operation.            *)
LEMMA MatchOfLive ==
  ASSUME entries \in Histories, NEW A, Faithful(A), NEW D,
         NEW S, S = { p \in NodeRefs : entries[p].id \notin D },
         NEW c \in S, IsCall(entries, c)
  PROVE  A[c].match_idx \in S \ {c}
<1>1. WellFormed(entries) /\ NodeRefs = 1..Len(entries) /\ c \in DOMAIN entries
  BY OpsAreBits DEF NodeRefs
<1>. DEFINE i == entries[c].id
            r == ReturnOf(entries, i)
<1>2. i \in Ops(entries) /\ c = CallOf(entries, i)
  BY <1>1, EntryKind, Zenon
<1>3. r \in NodeRefs /\ entries[r].id = i /\ c < r
  BY <1>1, <1>2, OpEntries DEF NodeRefs
<1>4. A[c].match_idx = r
  BY <1>1 DEF Faithful, NodeRefs
<1>5. c \in Nat
  BY <1>1
<1>. HIDE DEF r
<1>. QED BY <1>3, <1>4, <1>5

LEMMA BacktrackInv ==
  ASSUME IInv, Backtrack
  PROVE  /\ IInv'
         /\ Members(linearized') = Members(linearized) \ {entries[Frame.node_ref].id}
         /\ Frame.node_ref \in Live'
<1>1. /\ calls # <<>> /\ calls' = SubSeq(calls, 1, Len(calls) - 1)
      /\ state' = Frame.state
      /\ linearized' = Clear(linearized, arena[Frame.node_ref].id)
      /\ arena' = unlift(arena, Frame.node_ref)
      /\ cursor' = arena'[Frame.node_ref].next
      /\ entries' = entries /\ kill' = kill /\ cache' = cache /\ returned' = returned
  BY DEF Backtrack, next_of
<1>2. PICK n : n = Len(calls)
  OBVIOUS
<1>3. PICK c : c = Frame.node_ref
  OBVIOUS
<1>4. PICK op : op = entries[c].id
  OBVIOUS
<1>5. PICK h : Layered(h)
  BY DEF IInv, ListsLayered
<1>6. /\ n \in Nat \ {0}
      /\ Frame \in [node_ref : NodeRefs, state : State]
      /\ calls' \in Seq([node_ref : NodeRefs, state : State])
      /\ Len(calls') = n - 1
      /\ \A k \in 1..(n - 1) : calls'[k] = calls[k]
      /\ calls[n].node_ref = c /\ c \in NodeRefs
  <2>1. calls \in Seq([node_ref : NodeRefs, state : State])
    BY DEF IInv, TypeOK
  <2>2. Frame = calls[Len(calls)]
    BY DEF Frame
  <2>3. /\ Len(calls) \in Nat \ {0}
        /\ calls[Len(calls)] \in [node_ref : NodeRefs, state : State]
        /\ SubSeq(calls, 1, Len(calls) - 1) \in Seq([node_ref : NodeRefs, state : State])
        /\ Len(SubSeq(calls, 1, Len(calls) - 1)) = Len(calls) - 1
        /\ \A k \in 1..(Len(calls) - 1) : SubSeq(calls, 1, Len(calls) - 1)[k] = calls[k]
    BY <1>1, <2>1, Pop, Zenon
  <2>. QED BY <1>1, <1>2, <1>3, <2>2, <2>3
<1>7. IsCall(entries, c) /\ c \in LiveAfter(n - 1)
  BY <1>2, <1>6 DEF IInv, FramesAreCalls
<1>8. n - 1 \in 0..n /\ n - 1 \in 0..Len(calls) /\ n \in 0..Len(calls) /\ n \in 1..Len(calls)
  BY <1>2, <1>6
<1>9. /\ Faithful(h[n - 1]) /\ Links(h[n - 1], LiveAfter(n - 1))
      /\ arena = lift(h[n - 1], c) /\ Faithful(arena)
  <2>1. h[n] = arena
    BY <1>2, <1>5 DEF Layered
  <2>. QED BY <1>2, <1>5, <1>6, <1>8, <2>1 DEF Layered
<1>10. arena' = h[n - 1]
  <2>1. PICK A : A = h[n - 1]
    OBVIOUS
  <2>2. PICK S : S = LiveAfter(n - 1)
    OBVIOUS
  <2>3. A \in Arenas(Len(entries), Ops(entries) \cup {NONE}, NodeRefs \cup {NONE})
    BY <1>9, <2>1 DEF Faithful, Lists
  <2>4. S \in SUBSET (1..Len(entries)) /\ Len(entries) \in Nat
    BY <2>2, OpsAreBits DEF IInv, LiveAfter
  <2>5. c \in S /\ A[c].match_idx \in S \ {c}
    <3>1. S = { p \in NodeRefs : entries[p].id \notin Done(n - 1) }
      BY <2>2 DEF LiveAfter
    <3>2. c \in S /\ Faithful(A) /\ entries \in Histories
      BY <1>7, <1>9, <2>1, <2>2 DEF IInv
    <3>3. A[c].match_idx \in S \ {c}
      BY <1>7, <3>1, <3>2, MatchOfLive, Zenon
    <3>. QED BY <3>2, <3>3
  <2>6. Links(A, S)
    BY <1>9, <2>1, <2>2
  <2>7. unlift(lift(A, c), c) = A
    BY <2>3, <2>4, <2>5, <2>6, UnliftRestores, Zenon
  <2>. QED BY <1>1, <1>3, <1>9, <2>1, <2>7
<1>11. Done(n) = Done(n - 1) \cup {op} /\ op \notin Done(n - 1)
  <2>1. 1..n = (1..(n - 1)) \cup {n}
    BY <1>6
  <2>. QED BY <1>4, <1>6, <1>7, <2>1 DEF Done, LiveAfter
<1>12. /\ linearized' \in Bitsets(Bits)
       /\ Members(linearized') = Members(linearized) \ {op}
  <2>1. arena[c].id = op /\ op \in 0..(Bits - 1) /\ Bits \in Nat
    BY <1>4, <1>6, <1>9, OpsAreBits DEF Faithful, Ops, NodeRefs, IInv
  <2>2. linearized \in Bitsets(Bits) /\ linearized' = Clear(linearized, op)
    BY <1>1, <1>3, <2>1 DEF IInv, TypeOK, Bits
  <2>. QED BY <2>1, <2>2, Written, ClearMembers
<1>13. Members(linearized') = Done(n - 1)
  BY <1>2, <1>11, <1>12 DEF IInv, FramesAreCalls
<1>14. ASSUME NEW k \in 0..(n - 1)
       PROVE  Done(k)' = Done(k) /\ LiveAfter(k)' = LiveAfter(k)
  <2>1. \A j \in 1..k : entries'[calls'[j].node_ref].id = entries[calls[j].node_ref].id
    BY <1>1, <1>6
  <2>2. Done(k)' = Done(k)
    BY <2>1 DEF Done
  <2>. QED BY <1>1, <2>2 DEF LiveAfter, NodeRefs
<1>15. Live' = LiveAfter(n - 1)
  BY <1>1, <1>13 DEF Live, LiveAfter, NodeRefs
<1>16. cursor' \in Live' \cup {NONE}
  <2>1. Links(arena', Live') /\ c \in Live' \cup {0}
    BY <1>7, <1>9, <1>10, <1>15
  <2>2. arena'[c].next \in Live' \cup {NONE}
    BY <2>1, NextIsLive, Zenon
  <2>. QED BY <1>1, <1>3, <2>2
<1>17. TypeOK'
  <2>1. arena' \in Lists
    BY <1>9, <1>10 DEF Faithful
  <2>2. Live' \subseteq NodeRefs
    BY <1>15 DEF LiveAfter
  <2>. QED BY <1>1, <1>6, <1>12, <1>16, <2>1, <2>2, ListsAreArenas
           DEF IInv, TypeOK, Bits, NodeRefs
<1>18. ListsLayered'
  <2>1. \A A : Faithful(A)' <=> Faithful(A)
    BY <1>1 DEF Faithful, Lists, NodeRefs
  <2>2. ASSUME NEW k \in 0..(n - 1)
        PROVE  Faithful(h[k])' /\ Links(h[k], LiveAfter(k)')
    <3>1. k \in 0..Len(calls)
      BY <1>2, <1>6
    <3>2. Faithful(h[k]) /\ Links(h[k], LiveAfter(k))
      BY <1>5, <3>1 DEF Layered
    <3>. QED BY <1>14, <2>1, <3>2
  <2>3. ASSUME NEW k \in 1..(n - 1)
        PROVE  h[k] = lift(h[k - 1], calls'[k].node_ref)
    <3>1. k \in 1..Len(calls)
      BY <1>2, <1>6
    <3>. QED BY <1>5, <1>6, <3>1 DEF Layered
  <2>4. Layered(h)'
    BY <1>6, <1>10, <2>2, <2>3 DEF Layered
  <2>. QED BY <2>4 DEF ListsLayered
<1>19. FramesAreCalls'
  <2>1. ASSUME NEW k \in 1..(n - 1)
        PROVE  IsCall(entries', calls'[k].node_ref) /\ calls'[k].node_ref \in LiveAfter(k - 1)'
    <3>1. IsCall(entries, calls[k].node_ref) /\ calls[k].node_ref \in LiveAfter(k - 1)
      BY <1>2, <1>6 DEF IInv, FramesAreCalls
    <3>2. k - 1 \in 0..(n - 1)
      BY <1>6
    <3>3. LiveAfter(k - 1)' = LiveAfter(k - 1)
      BY <1>14, <3>2
    <3>. QED BY <1>1, <1>6, <3>1, <3>3
  <2>2. Members(linearized') = Done(n - 1)'
    <3>1. n - 1 \in 0..(n - 1)
      BY <1>6
    <3>2. Done(n - 1)' = Done(n - 1)
      BY <1>14, <3>1
    <3>. QED BY <1>13, <3>2
  <2>. QED BY <1>6, <2>1, <2>2 DEF FramesAreCalls
<1>20. BucketsKeyed' /\ entries' \in Histories
  BY <1>1 DEF IInv, BucketsKeyed
<1>21. IInv'
  BY <1>16, <1>17, <1>18, <1>19, <1>20 DEF IInv, CursorIsLive
<1>. QED BY <1>3, <1>4, <1>7, <1>12, <1>15, <1>21

LEMMA SkipInv ==
  ASSUME IInv, AtCall, Skip
  PROVE  IInv'
<1>1. /\ cursor' = arena[cursor].next
      /\ UNCHANGED <<entries, kill, arena, linearized, state, calls, cache, returned>>
  BY DEF Skip, next_of
<1>2. Links(arena, Live) /\ cursor \in Live \cup {0}
  BY ListNow, AtCallFacts
<1>3. arena[cursor].next \in Live \cup {NONE}
  BY <1>2, NextIsLive, Zenon
<1>4. Live' = Live /\ Live \subseteq NodeRefs
  BY <1>1 DEF Live, NodeRefs
<1>5. CursorIsLive'
  BY <1>1, <1>3, <1>4 DEF CursorIsLive
<1>6. TypeOK'
  BY <1>1, <1>3, <1>4 DEF IInv, TypeOK, NodeRefs
<1>. QED BY <1>1, <1>5, <1>6, StillInv

LEMMA StepInv == IInv /\ [Next]_vars => IInv'
<1>. SUFFICES ASSUME IInv, [Next]_vars PROVE IInv'
  OBVIOUS
<1>1. ASSUME UNCHANGED <<entries, arena, linearized, state, calls, cursor, cache>>,
             kill' \in BOOLEAN, returned' \in {"no", "true", "false"}
      PROVE  IInv'
  <2>1. Live' = Live
    BY <1>1 DEF Live, NodeRefs
  <2>2. CursorIsLive'
    BY <1>1, <2>1 DEF IInv, CursorIsLive
  <2>3. TypeOK'
    BY <1>1 DEF IInv, TypeOK, NodeRefs
  <2>. QED BY <1>1, <2>2, <2>3, StillInv
<1>2. kill \in BOOLEAN /\ returned \in {"no", "true", "false"}
  BY DEF IInv, TypeOK
<1>3. CASE ReturnEmpty
  BY <1>1, <1>2, <1>3 DEF ReturnEmpty, Return
<1>4. CASE ReturnKilled
  BY <1>1, <1>2, <1>4 DEF ReturnKilled, Return
<1>5. CASE ReturnTrue
  BY <1>1, <1>2, <1>5 DEF ReturnTrue, Return
<1>6. CASE Linearize
  BY <1>6, LinearizeInv
<1>7. CASE SkipRejected \/ SkipCached
  BY <1>7, SkipInv DEF SkipRejected, SkipCached
<1>8. CASE Backtrack
  BY <1>8, BacktrackInv
<1>9. CASE ReturnExhausted
  BY <1>1, <1>2, <1>9 DEF ReturnExhausted, Return
<1>10. CASE SetKill
  BY <1>1, <1>2, <1>10 DEF SetKill
<1>11. CASE UNCHANGED vars
  BY <1>1, <1>2, <1>11 DEF vars
<1>. QED BY <1>3, <1>4, <1>5, <1>6, <1>7, <1>8, <1>9, <1>10, <1>11
        DEF Next, Iterate, Returned

LEMMA InvLive == IInv => ListIsLive
BY ListNow DEF ListIsLive

LEMMA InvCached == IInv => CachedOnceInItsBucket
<1>. SUFFICES ASSUME IInv, NEW g \in DOMAIN cache, NEW h \in DOMAIN cache,
                     NEW j \in 1..Len(cache[g]), NEW k \in 1..Len(cache[h]),
                     cache[g][j] = cache[h][k]
              PROVE  g = h /\ j = k
  BY DEF CachedOnceInItsBucket
<1>1. Key(cache[g][j].linearized) = g /\ Key(cache[h][k].linearized) = h
  BY DEF IInv, BucketsKeyed
<1>2. g = h
  BY <1>1
<1>. QED BY <1>2 DEF IInv, BucketsKeyed
-----------------------------------------------------------------------------
(* Types, for every history, model and width of a word.                    *)
THEOREM TypeCorrect == Spec => []TypeOK
<1>1. IInv => TypeOK
  BY DEF IInv
<1>. QED BY InitInv, StepInv, <1>1, PTL DEF Spec

(* After any lifts and unlifts check_single's list holds exactly the live  *)
(* entries, in order, with prev links that mirror its next links.          *)
THEOREM ListStaysLive == Spec => []ListIsLive
BY InitInv, StepInv, InvLive, PTL DEF Spec

(* The cache stores no pair twice, because every probe for a pair looks in *)
(* the one bucket that holds it.                                           *)
THEOREM CachedOnce == Spec => []CachedOnceInItsBucket
BY InitInv, StepInv, InvCached, PTL DEF Spec
-----------------------------------------------------------------------------
(* The refinement.  What stands for the stack and the cache of Search.     *)
AbsCalls == [k \in 1..Len(calls) |->
               [node |-> calls[k].node_ref, state |-> calls[k].state]]
AbsCache == { <<Members(e.linearized), e.state>> : e \in CacheEntries }

(* Search reads a list of entries as CheckSingle does.                     *)
LEMMA SameReading ==
  ASSUME NEW E
  PROVE  /\ \A p : Abstract!IsCall(E, p) <=> IsCall(E, p)
         /\ \A p : Abstract!IsReturn(E, p) <=> IsReturn(E, p)
         /\ \A s, i : Abstract!Apply(E, s, i) = Apply(E, s, i)
<1>1. \A p : Abstract!IsCall(E, p) <=> IsCall(E, p)
  BY DEF Abstract!IsCall, IsCall
<1>2. \A p : Abstract!IsReturn(E, p) <=> IsReturn(E, p)
  BY DEF Abstract!IsReturn, IsReturn
<1>3. \A i : Abstract!CallOf(E, i) = CallOf(E, i)
  BY Zenon DEF Abstract!CallOf, CallOf, Abstract!IsCall, IsCall
<1>4. \A i : Abstract!ReturnOf(E, i) = ReturnOf(E, i)
  BY Zenon DEF Abstract!ReturnOf, ReturnOf, Abstract!IsReturn, IsReturn
<1>5. \A s, i : Abstract!Apply(E, s, i) = Apply(E, s, i)
  BY <1>3, <1>4 DEF Abstract!Apply, Apply
<1>. QED BY <1>1, <1>2, <1>5

StackMapped ==
  /\ AbsCalls \in Seq([node : NodeRefs, state : State])
  /\ Len(AbsCalls) = Len(calls) /\ Len(calls) \in Nat
  /\ \A k \in 1..Len(calls) :
       AbsCalls[k] = [node |-> calls[k].node_ref, state |-> calls[k].state]

LEMMA AbsStack == TypeOK => StackMapped
<1>. SUFFICES ASSUME TypeOK PROVE StackMapped
  OBVIOUS
<1>1. PICK n \in Nat : n = Len(calls)
  BY LenProperties DEF TypeOK
<1>2. \A k \in 1..n : calls[k] \in [node_ref : NodeRefs, state : State]
  BY <1>1, ElementOfSeq DEF TypeOK
<1>3. AbsCalls \in [1..n -> [node : NodeRefs, state : State]]
  BY <1>1, <1>2 DEF AbsCalls
<1>4. \A k \in 1..n : AbsCalls[k] = [node |-> calls[k].node_ref, state |-> calls[k].state]
  BY <1>1 DEF AbsCalls
<1>5. AbsCalls \in Seq([node : NodeRefs, state : State])
  <2>. HIDE DEF AbsCalls
  <2>1. [1..n -> [node : NodeRefs, state : State]]
          \in { [1..m -> [node : NodeRefs, state : State]] : m \in Nat }
    OBVIOUS
  <2>2. AbsCalls \in UNION { [1..m -> [node : NodeRefs, state : State]] : m \in Nat }
    BY <1>3, <2>1, Zenon
  <2>. QED BY <2>2, SeqDef, Zenon
<1>6. Len(AbsCalls) = n
  <2>1. Len(AbsCalls) \in Nat /\ 1..n = 1..Len(AbsCalls)
    BY <1>3, <1>5, LenProperties
  <2>. QED BY <1>1, <2>1
<1>. QED BY <1>1, <1>4, <1>5, <1>6 DEF StackMapped

(* Where the cursor is, Search sees it; and it probes for the same pair.   *)
LEMMA AbsPosition ==
  ASSUME IInv
  PROVE  /\ cursor = NONE <=> AbsCursor(entries, cursor) = Len(entries) + 1
         /\ AtCall <=> Abstract!AtCall
         /\ AtReturn <=> Abstract!AtReturn
<1>1. NodeRefs = 1..Len(entries) /\ Len(entries) \in Nat
  BY OpsAreBits DEF IInv
<1>2. cursor # NONE => cursor \in NodeRefs
  BY AtEntry
<1>3. cursor = NONE <=> AbsCursor(entries, cursor) = Len(entries) + 1
  BY <1>1, <1>2 DEF AbsCursor
<1>4. cursor # NONE => /\ match_of(arena, cursor) # NONE <=> Abstract!IsCall(entries, cursor)
                       /\ match_of(arena, cursor) = NONE <=> Abstract!IsReturn(entries, cursor)
  BY AtEntry, SameReading
<1>5. Abstract!Running <=> Running
  BY DEF Abstract!Running, Running, Abstract!Looping, Looping
<1>6. AtCall <=> Abstract!AtCall
  BY <1>3, <1>4, <1>5 DEF AtCall, Abstract!AtCall, AbsCursor, Abstract!End
<1>7. AtReturn <=> Abstract!AtReturn
  BY <1>3, <1>4, <1>5 DEF AtReturn, Abstract!AtReturn, AbsCursor, Abstract!End
<1>. QED BY <1>3, <1>6, <1>7

LEMMA AbsProbe ==
  ASSUME IInv, AtCall
  PROVE  /\ Abstract!NextState = NextState
         /\ Abstract!NextNode = <<Members(linearized) \cup {OpId}, NextState>>
         /\ Abstract!CacheHit <=> CacheHit
<1>1. /\ cursor # NONE /\ OpId = entries[cursor].id
      /\ NextState = Apply(entries, state, OpId)
  BY AtCallFacts DEF AtCall
<1>2. Abstract!NextState = NextState
  BY <1>1, SameReading DEF Abstract!NextState
<1>3. Abstract!NextNode = <<Members(linearized) \cup {OpId}, NextState>>
  BY <1>1, <1>2 DEF Abstract!NextNode
<1>4. Abstract!CacheHit <=> <<Members(linearized) \cup {OpId}, NextState>> \in AbsCache
  BY <1>3 DEF Abstract!CacheHit, AbsCache
<1>. DEFINE D == Set(linearized, OpId)
<1>5. D \in Bitsets(Bits) /\ Members(D) = Members(linearized) \cup {OpId} /\ Bits \in Nat
  BY HitIsEntry, OpsAreBits DEF IInv
<1>6. NewEntry = [linearized |-> D, state |-> NextState]
  BY DEF NewEntry
<1>. HIDE DEF D
<1>7. CacheHit => <<Members(D), NextState>> \in AbsCache
  BY <1>6, HitIsEntry DEF AbsCache
<1>8. ASSUME <<Members(D), NextState>> \in AbsCache PROVE CacheHit
  <2>1. PICK e \in CacheEntries : <<Members(D), NextState>> = <<Members(e.linearized), e.state>>
    BY <1>8 DEF AbsCache
  <2>2. e \in CacheEntry
    BY InCache DEF IInv
  <2>3. e.linearized \in Bitsets(Bits) /\ Members(e.linearized) = Members(D)
    BY <2>1, <2>2 DEF CacheEntry
  <2>4. e.linearized = D
    BY <1>5, <2>3, SameMembers, Zenon
  <2>5. e = NewEntry
    BY <1>6, <2>1, <2>2, <2>4 DEF CacheEntry
  <2>. QED BY <2>5, HitIsEntry
<1>. QED BY <1>2, <1>3, <1>4, <1>5, <1>7, <1>8

LEMMA Moves ==
  ASSUME WellFormed(entries), entries' = entries, NEW L, NEW A,
         NEW S, S = { r \in DOMAIN entries : entries[r].id \notin L },
         Links(A, S), NEW p \in S \cup {0}, cursor' = A[p].next
  PROVE  Abstract!MoveCursor(L, p)
<1>. DEFINE q == AbsCursor(entries, A[p].next)
<1>1. Abstract!FirstAfter(entries, L, p, q) /\ q \in DOMAIN entries \cup {Len(entries) + 1}
  BY NextIsFirst
<1>2. q = IF cursor' = NONE THEN Len(entries') + 1 ELSE cursor'
  BY DEF AbsCursor
<1>. HIDE DEF q
<1>. QED BY <1>1, <1>2 DEF Abstract!MoveCursor, Abstract!End
-----------------------------------------------------------------------------
LEMMA AbsInit == Init => Abstract!Init
<1>. SUFFICES ASSUME Init PROVE Abstract!Init
  OBVIOUS
<1>1. IInv
  BY InitInv
<1>2. /\ entries \in Histories /\ kill \in BOOLEAN /\ state = InitState /\ returned = "no"
      /\ calls = <<>> /\ cache = <<>> /\ cursor = arena[0].next
      /\ linearized = New(Bits)
  BY DEF Init, Bits, head_next
<1>3. Members(linearized) = {}
  BY <1>2, NewMembers, OpsAreBits
<1>4. AbsCalls = <<>>
  <2>1. AbsCalls \in Seq([node : NodeRefs, state : State]) /\ Len(AbsCalls) = 0
    BY <1>1, <1>2, AbsStack DEF IInv, StackMapped
  <2>. QED BY <2>1, EmptySeq
<1>5. AbsCache = {}
  <2>1. CacheEntries = {}
    BY <1>2 DEF CacheEntries
  <2>. QED BY <2>1 DEF AbsCache
<1>6. /\ Abstract!FirstAfter(entries, {}, 0, AbsCursor(entries, cursor))
      /\ AbsCursor(entries, cursor) \in DOMAIN entries \cup {Len(entries) + 1}
  <2>1. Links(arena, Live) /\ 0 \in Live \cup {0} /\ WellFormed(entries)
    BY <1>1, ListNow, OpsAreBits DEF IInv
  <2>2. Live = { q \in DOMAIN entries : entries[q].id \notin {} }
    BY <1>3 DEF Live, NodeRefs
  <2>3. PICK A : A = arena
    OBVIOUS
  <2>4. PICK S : S = Live
    OBVIOUS
  <2>5. PICK L : L = {}
    OBVIOUS
  <2>6. /\ S = { q \in DOMAIN entries : entries[q].id \notin L }
        /\ Links(A, S) /\ 0 \in S \cup {0} /\ WellFormed(entries)
    BY <2>1, <2>2, <2>3, <2>4, <2>5
  <2>7. /\ Abstract!FirstAfter(entries, L, 0, AbsCursor(entries, A[0].next))
        /\ AbsCursor(entries, A[0].next) \in DOMAIN entries \cup {Len(entries) + 1}
    BY <2>6, NextIsFirst
  <2>. QED BY <1>2, <2>3, <2>5, <2>7
<1>. QED BY <1>2, <1>3, <1>4, <1>5, <1>6
        DEF Abstract!Init, Abstract!End, AbsCursor, AbsCalls, AbsCache

LEMMA AbsLinearize ==
  ASSUME IInv, IInv', Linearize
  PROVE  Abstract!Linearize
<1>1. /\ AtCall /\ NextState # Rejected /\ ~ CacheHit
      /\ calls' = Append(calls, [node_ref |-> cursor, state |-> state])
      /\ state' = NextState /\ linearized' = Set(linearized, OpId)
      /\ cursor' = arena'[0].next
      /\ entries' = entries /\ kill' = kill /\ returned' = returned
  BY DEF Linearize, LinearizeUnder, head_next
<1>2. /\ Abstract!AtCall /\ Abstract!NextState = NextState
      /\ Abstract!NextNode = <<Members(linearized) \cup {OpId}, NextState>>
      /\ ~ Abstract!CacheHit
  BY <1>1, AbsPosition, AbsProbe
<1>3. cursor # NONE /\ OpId = entries[cursor].id
  BY <1>1, AtCallFacts DEF AtCall
<1>4. Members(linearized') = Members(linearized) \cup {OpId}
  BY <1>1, HitIsEntry
<1>5. AbsCache' = AbsCache \cup {Abstract!NextNode}
  <2>1. CacheEntries' = CacheEntries \cup {NewEntry}
    BY LinearizeInv
  <2>2. <<Members(NewEntry.linearized), NewEntry.state>> = Abstract!NextNode
    BY <1>1, <1>2, <1>4 DEF NewEntry
  <2>. QED BY <2>1, <2>2 DEF AbsCache
<1>6. AbsCalls' = Append(AbsCalls, [node |-> cursor, state |-> state])
  <2>. DEFINE F == [node : NodeRefs, state : State]
  <2>1. PICK n : n = Len(calls)
    OBVIOUS
  <2>2. /\ AbsCalls \in Seq(F) /\ Len(AbsCalls) = n /\ n \in Nat
        /\ \A k \in 1..n : AbsCalls[k] = [node |-> calls[k].node_ref, state |-> calls[k].state]
    BY <2>1, AbsStack DEF IInv, StackMapped
  <2>3. cursor \in NodeRefs /\ state \in State
    BY <1>1, AtCallFacts DEF IInv, TypeOK
  <2>4. /\ Len(calls') = n + 1 /\ \A k \in 1..n : calls'[k] = calls[k]
        /\ calls'[n + 1] = [node_ref |-> cursor, state |-> state]
    <3>1. calls \in Seq([node_ref : NodeRefs, state : State])
      BY DEF IInv, TypeOK
    <3>2. [node_ref |-> cursor, state |-> state] \in [node_ref : NodeRefs, state : State]
      BY <2>3
    <3>. QED BY <1>1, <2>1, <3>1, <3>2, Push
  <2>5. /\ AbsCalls' \in Seq(F) /\ Len(AbsCalls') = n + 1
        /\ \A k \in 1..(n + 1) :
             AbsCalls'[k] = [node |-> calls'[k].node_ref, state |-> calls'[k].state]
    <3>1. StackMapped'
      <4>1. TypeOK' => StackMapped'
        BY AbsStack, PTL
      <4>. QED BY <4>1 DEF IInv
    <3>. QED BY <1>1, <2>4, <3>1 DEF StackMapped, NodeRefs
  <2>6. PICK f : f = [node |-> cursor, state |-> state]
    OBVIOUS
  <2>7. /\ f \in F /\ Append(AbsCalls, f) \in Seq(F) /\ Len(Append(AbsCalls, f)) = n + 1
        /\ \A k \in 1..n : Append(AbsCalls, f)[k] = AbsCalls[k]
        /\ Append(AbsCalls, f)[n + 1] = f
    <3>1. f \in F
      BY <2>3, <2>6
    <3>. QED BY <2>2, <3>1, Push
  <2>. HIDE DEF F
  <2>8. \A k \in 1..(n + 1) : AbsCalls'[k] = Append(AbsCalls, f)[k]
    BY <2>2, <2>4, <2>5, <2>6, <2>7
  <2>9. AbsCalls' = Append(AbsCalls, f)
    BY <2>5, <2>7, <2>8, SeqEqual
  <2>. QED BY <2>6, <2>9
<1>7. Abstract!MoveCursor(Members(linearized'), 0)
  <2>1. /\ Links(arena', Live') /\ 0 \in Live' \cup {0} /\ WellFormed(entries)
        /\ Live' = { r \in DOMAIN entries : entries[r].id \notin Members(linearized') }
    BY <1>4, LinearizeInv, OpsAreBits DEF IInv
  <2>2. PICK L : L = Members(linearized')
    OBVIOUS
  <2>3. PICK A : A = arena'
    OBVIOUS
  <2>4. PICK S : S = Live'
    OBVIOUS
  <2>5. Abstract!MoveCursor(L, 0)
    BY <1>1, <2>1, <2>2, <2>3, <2>4, Moves
  <2>. QED BY <2>2, <2>5
<1>. QED BY <1>1, <1>2, <1>3, <1>4, <1>5, <1>6, <1>7
        DEF Abstract!Linearize, AbsCalls, AbsCache

LEMMA AbsSkips ==
  ASSUME IInv, AtCall, Skip
  PROVE  Abstract!Skip
<1>1. /\ cursor' = arena[cursor].next
      /\ UNCHANGED <<entries, kill, arena, linearized, state, calls, cache, returned>>
  BY DEF Skip, next_of
<1>2. /\ Links(arena, Live) /\ cursor \in Live \cup {0} /\ cursor # NONE
      /\ WellFormed(entries)
  BY ListNow, AtCallFacts, OpsAreBits DEF IInv, AtCall
<1>3. PICK L : L = Members(linearized)
  OBVIOUS
<1>4. PICK A : A = arena
  OBVIOUS
<1>5. PICK S : S = Live
  OBVIOUS
<1>6. PICK p : p = cursor
  OBVIOUS
<1>7. S = { r \in DOMAIN entries : entries[r].id \notin L }
  BY <1>3, <1>5 DEF Live, NodeRefs
<1>8. Abstract!MoveCursor(L, p)
  BY <1>1, <1>2, <1>4, <1>5, <1>6, <1>7, Moves
<1>9. AbsCalls' = AbsCalls /\ AbsCache' = AbsCache /\ Members(linearized)' = Members(linearized)
  BY <1>1 DEF AbsCalls, AbsCache, CacheEntries
<1>. QED BY <1>1, <1>2, <1>3, <1>6, <1>8, <1>9 DEF Abstract!Skip, AbsCalls, AbsCache

LEMMA AbsBacktrack ==
  ASSUME IInv, IInv', Backtrack
  PROVE  Abstract!Backtrack
<1>1. /\ AtReturn /\ calls # <<>> /\ calls' = SubSeq(calls, 1, Len(calls) - 1)
      /\ state' = Frame.state
      /\ cursor' = arena'[Frame.node_ref].next
      /\ entries' = entries /\ kill' = kill /\ cache' = cache /\ returned' = returned
  BY DEF Backtrack, next_of
<1>2. PICK n : n = Len(calls)
  OBVIOUS
<1>3. PICK c : c = Frame.node_ref
  OBVIOUS
<1>4. /\ calls \in Seq([node_ref : NodeRefs, state : State])
      /\ Len(calls') = n - 1 /\ n \in Nat \ {0} /\ n - 1 \in Nat
      /\ \A k \in 1..(n - 1) : calls'[k] = calls[k]
  <2>1. calls \in Seq([node_ref : NodeRefs, state : State])
    BY DEF IInv, TypeOK
  <2>2. /\ Len(calls) \in Nat \ {0}
        /\ Len(SubSeq(calls, 1, Len(calls) - 1)) = Len(calls) - 1
        /\ \A k \in 1..(Len(calls) - 1) : SubSeq(calls, 1, Len(calls) - 1)[k] = calls[k]
    BY <1>1, <2>1, Pop, Zenon
  <2>. QED BY <1>1, <1>2, <2>1, <2>2
<1>5. /\ AbsCalls \in Seq([node : NodeRefs, state : State]) /\ Len(AbsCalls) = n
      /\ \A k \in 1..n : AbsCalls[k] = [node |-> calls[k].node_ref, state |-> calls[k].state]
  BY <1>2, AbsStack DEF IInv, StackMapped
<1>6. /\ AbsCalls' \in Seq([node : NodeRefs, state : State]) /\ Len(AbsCalls') = n - 1
      /\ \A k \in 1..(n - 1) :
           AbsCalls'[k] = [node |-> calls'[k].node_ref, state |-> calls'[k].state]
  <2>1. StackMapped'
    <3>1. TypeOK' => StackMapped'
      BY AbsStack, PTL
    <3>. QED BY <3>1 DEF IInv
  <2>. QED BY <1>1, <1>4, <2>1 DEF StackMapped, NodeRefs
<1>7. AbsCalls' = SubSeq(AbsCalls, 1, Len(AbsCalls) - 1)
  <2>1. n - 1 \in 0..Len(AbsCalls)
    BY <1>4, <1>5
  <2>2. /\ SubSeq(AbsCalls, 1, n - 1) \in Seq([node : NodeRefs, state : State])
        /\ Len(SubSeq(AbsCalls, 1, n - 1)) = n - 1
        /\ \A k \in 1..(n - 1) : SubSeq(AbsCalls, 1, n - 1)[k] = AbsCalls[k]
    BY <1>5, <2>1, Prefix, Zenon
  <2>3. \A k \in 1..(n - 1) : AbsCalls'[k] = SubSeq(AbsCalls, 1, n - 1)[k]
    BY <1>4, <1>5, <1>6, <2>2
  <2>4. AbsCalls' = SubSeq(AbsCalls, 1, n - 1)
    BY <1>6, <2>2, <2>3, SeqEqual
  <2>. QED BY <1>5, <2>4
<1>8. /\ Abstract!Frame.node = c /\ Abstract!Frame.state = Frame.state
      /\ Abstract!FrameOp = entries[c].id
  <2>1. n \in 1..n /\ AbsCalls[n] = [node |-> calls[n].node_ref, state |-> calls[n].state]
    BY <1>4, <1>5
  <2>2. Abstract!Frame = AbsCalls[n]
    BY <1>5, Zenon DEF Abstract!Frame, AbsCalls
  <2>3. Frame = calls[n]
    BY <1>2 DEF Frame
  <2>4. Abstract!Frame.node = c /\ Abstract!Frame.state = Frame.state
    BY <1>3, <2>1, <2>2, <2>3
  <2>. QED BY <2>4 DEF Abstract!FrameOp
<1>9. AbsCalls # <<>>
  <2>1. Len(<<>>) = 0
    BY EmptySeq
  <2>. QED BY <1>4, <1>5, <2>1
<1>10. Members(linearized') = Members(linearized) \ {entries[c].id} /\ c \in Live'
  BY <1>3, BacktrackInv
<1>11. Abstract!MoveCursor(Members(linearized'), c)
  <2>1. /\ Links(arena', Live') /\ c \in Live' \cup {0} /\ WellFormed(entries)
        /\ Live' = { r \in DOMAIN entries : entries[r].id \notin Members(linearized') }
    <3>1. ListIsLive'
      <4>1. IInv' => ListIsLive'
        BY InvLive, PTL
      <4>. QED BY <4>1
    <3>. QED BY <1>1, <1>10, <3>1, OpsAreBits DEF ListIsLive, Live, NodeRefs, IInv
  <2>2. PICK L : L = Members(linearized')
    OBVIOUS
  <2>3. PICK A : A = arena'
    OBVIOUS
  <2>4. PICK S : S = Live'
    OBVIOUS
  <2>5. cursor' = A[c].next
    BY <1>1, <1>3, <2>3
  <2>6. Abstract!MoveCursor(L, c)
    BY <1>1, <2>1, <2>2, <2>3, <2>4, <2>5, Moves
  <2>. QED BY <2>2, <2>6
<1>12. AbsCache' = AbsCache
  BY <1>1 DEF AbsCache, CacheEntries
<1>13. Abstract!AtReturn
  BY <1>1, AbsPosition
<1>14. Abstract!BacktrackTo(Abstract!Frame.state, {Abstract!FrameOp}, Abstract!Frame.node)
  <2>1. /\ Abstract!AtReturn /\ AbsCalls # <<>>
        /\ AbsCalls' = SubSeq(AbsCalls, 1, Len(AbsCalls) - 1)
        /\ state' = Abstract!Frame.state
        /\ Members(linearized)' = Members(linearized) \ {Abstract!FrameOp}
        /\ Abstract!MoveCursor(Members(linearized)', Abstract!Frame.node)
        /\ entries' = entries /\ kill' = kill /\ AbsCache' = AbsCache /\ returned' = returned
    BY <1>1, <1>7, <1>8, <1>9, <1>10, <1>11, <1>12, <1>13
  <2>. QED BY <2>1, Zenon DEF Abstract!BacktrackTo, AbsCalls, AbsCache
<1>. QED BY <1>14 DEF Abstract!Backtrack

LEMMA AbsStep == IInv /\ IInv' /\ [Next]_vars => [Abstract!Next]_(Abstract!vars)
<1>. SUFFICES ASSUME IInv, IInv', [Next]_vars
              PROVE  [Abstract!Next]_(Abstract!vars)
  OBVIOUS
<1>1. ASSUME UNCHANGED <<entries, linearized, state, calls, cursor, cache>>
      PROVE  /\ AbsCalls' = AbsCalls /\ AbsCache' = AbsCache
             /\ Members(linearized)' = Members(linearized)
             /\ AbsCursor(entries, cursor)' = AbsCursor(entries, cursor)
  BY <1>1 DEF AbsCalls, AbsCache, AbsCursor, CacheEntries
<1>2. ASSUME NEW v, Return(v) PROVE Abstract!Return(v)
  <2>1. /\ returned' = v
        /\ UNCHANGED <<entries, kill, linearized, state, calls, cursor, cache>>
    BY <1>2 DEF Return
  <2>. QED BY <1>1, <2>1 DEF Abstract!Return, AbsCalls, AbsCache, AbsCursor
<1>3. (Abstract!Looping <=> Looping) /\ (Abstract!Running <=> Running)
  BY DEF Abstract!Running, Running, Abstract!Looping, Looping
<1>4. CASE ReturnEmpty
  BY <1>2, <1>4 DEF ReturnEmpty, Abstract!ReturnEmpty, Abstract!Next, Abstract!Iterate
<1>5. CASE ReturnKilled
  BY <1>2, <1>3, <1>5 DEF ReturnKilled, Abstract!ReturnKilled, Abstract!Next, Abstract!Iterate
<1>6. CASE ReturnTrue
  <2>1. AbsCursor(entries, cursor) = Len(entries) + 1
    BY <1>6, AbsPosition DEF ReturnTrue
  <2>. QED BY <1>2, <1>3, <1>6, <2>1 DEF ReturnTrue, Abstract!ReturnTrue, Abstract!End,
                                        AbsCursor, Abstract!Next, Abstract!Iterate
<1>7. CASE Linearize
  BY <1>7, AbsLinearize DEF Abstract!Next, Abstract!Iterate
<1>8. CASE SkipRejected
  <2>1. AtCall /\ NextState = Rejected /\ Skip
    BY <1>8 DEF SkipRejected
  <2>2. Abstract!SkipRejected
    BY <2>1, AbsPosition, AbsProbe, AbsSkips DEF Abstract!SkipRejected
  <2>. QED BY <2>2 DEF Abstract!Next, Abstract!Iterate
<1>9. CASE SkipCached
  <2>1. AtCall /\ NextState # Rejected /\ CacheHit /\ Skip
    BY <1>9 DEF SkipCached
  <2>2. Abstract!SkipCached
    BY <2>1, AbsPosition, AbsProbe, AbsSkips DEF Abstract!SkipCached
  <2>. QED BY <2>2 DEF Abstract!Next, Abstract!Iterate
<1>10. CASE Backtrack
  BY <1>10, AbsBacktrack DEF Abstract!Next, Abstract!Iterate
<1>11. CASE ReturnExhausted
  <2>1. AtReturn /\ calls = <<>> /\ Return("false")
    BY <1>11 DEF ReturnExhausted
  <2>2. AbsCalls = <<>>
    <3>1. AbsCalls \in Seq([node : NodeRefs, state : State]) /\ Len(AbsCalls) = 0
      BY <2>1, AbsStack, EmptySeq DEF IInv, StackMapped
    <3>. QED BY <3>1, EmptySeq
  <2>3. Abstract!ReturnExhausted
    BY <1>2, <2>1, <2>2, AbsPosition DEF Abstract!ReturnExhausted, AbsCalls
  <2>. QED BY <2>3 DEF Abstract!Next, Abstract!Iterate
<1>12. CASE SetKill
  <2>1. /\ ~ kill /\ kill' = TRUE
        /\ UNCHANGED <<entries, linearized, state, calls, cursor, cache, returned>>
    BY <1>12 DEF SetKill
  <2>2. Abstract!SetKill
    BY <1>1, <2>1 DEF Abstract!SetKill, AbsCalls, AbsCache, AbsCursor
  <2>. QED BY <2>2 DEF Abstract!Next
<1>13. CASE UNCHANGED vars
  <2>1. UNCHANGED <<entries, kill, linearized, state, calls, cursor, cache, returned>>
    BY <1>13 DEF vars
  <2>. QED BY <1>1, <2>1 DEF Abstract!vars, AbsCalls, AbsCache, AbsCursor
<1>. QED BY <1>4, <1>5, <1>6, <1>7, <1>8, <1>9, <1>10, <1>11, <1>12, <1>13
        DEF Next, Iterate, Returned

(* check_single on its pointers, words and buckets takes the steps of the  *)
(* search on sets: what is proved of the one holds of the other.           *)
THEOREM Refinement == Spec => Abstract!Spec
BY AbsInit, InitInv, StepInv, AbsStep, PTL DEF Spec, Abstract!Spec
-----------------------------------------------------------------------------
(* What is proved of Search, said of the search that CheckSingle refines.  *)
SearchFacts == INSTANCE Search_proof WITH
  linearized <- Members(linearized),
  calls      <- [k \in 1..Len(calls) |->
                   [node |-> calls[k].node_ref, state |-> calls[k].state]],
  cursor     <- IF cursor = NONE THEN Len(entries) + 1 ELSE cursor,
  cache      <- { <<Members(e.linearized), e.state>> : e \in CacheEntries }

LEMMA SearchAssumptions ==
  /\ \A E \in Histories : SearchFacts!WellFormed(E)
  /\ InitState \in State
  /\ Rejected \notin State
  /\ \A s \in State, i \in Input, o \in Output : Step(s, i, o) \in State \cup {Rejected}
<1>1. \A E : WellFormed(E) <=> SearchFacts!WellFormed(E)
  BY Zenon DEF WellFormed, Ops, IsCall, IsReturn, SearchFacts!WellFormed,
               SearchFacts!Ops, SearchFacts!IsCall, SearchFacts!IsReturn
<1>. QED BY <1>1, HistoriesAssumption, ModelAssumption

(* The two instances are of one specification.                             *)
LEMMA SameInit == Abstract!Init => SearchFacts!Init
BY DEF Abstract!Init, Abstract!End, Abstract!FirstAfter, Abstract!Live,
       SearchFacts!Init, SearchFacts!End, SearchFacts!FirstAfter, SearchFacts!Live

LEMMA SameNext ==
  [Abstract!Next]_(Abstract!vars) => [SearchFacts!Next]_(SearchFacts!vars)
<1>1. UNCHANGED Abstract!vars => UNCHANGED SearchFacts!vars
  BY Zenon DEF Abstract!vars, SearchFacts!vars
<1>2. Abstract!Next => SearchFacts!Next
  BY Zenon DEF
    Abstract!IsCall, Abstract!IsReturn, Abstract!CallOf, Abstract!ReturnOf,
    Abstract!Apply, Abstract!Live, Abstract!End, Abstract!FirstAfter,
    Abstract!Return, Abstract!MoveCursor, Abstract!Looping, Abstract!Running,
    Abstract!AtCall, Abstract!AtReturn, Abstract!NextState, Abstract!NextNode,
    Abstract!CacheHit, Abstract!Skip, Abstract!Frame, Abstract!FrameOp,
    Abstract!BacktrackTo, Abstract!ReturnEmpty, Abstract!ReturnKilled,
    Abstract!ReturnTrue, Abstract!Linearize, Abstract!SkipRejected,
    Abstract!SkipCached, Abstract!Backtrack, Abstract!ReturnExhausted,
    Abstract!SetKill, Abstract!Returned, Abstract!Iterate, Abstract!Next,
    Abstract!vars,
    SearchFacts!IsCall, SearchFacts!IsReturn, SearchFacts!CallOf, SearchFacts!ReturnOf,
    SearchFacts!Apply, SearchFacts!Live, SearchFacts!End, SearchFacts!FirstAfter,
    SearchFacts!Return, SearchFacts!MoveCursor, SearchFacts!Looping, SearchFacts!Running,
    SearchFacts!AtCall, SearchFacts!AtReturn, SearchFacts!NextState, SearchFacts!NextNode,
    SearchFacts!CacheHit, SearchFacts!Skip, SearchFacts!Frame, SearchFacts!FrameOp,
    SearchFacts!BacktrackTo, SearchFacts!ReturnEmpty, SearchFacts!ReturnKilled,
    SearchFacts!ReturnTrue, SearchFacts!Linearize, SearchFacts!SkipRejected,
    SearchFacts!SkipCached, SearchFacts!Backtrack, SearchFacts!ReturnExhausted,
    SearchFacts!SetKill, SearchFacts!Returned, SearchFacts!Iterate, SearchFacts!Next,
    SearchFacts!vars
<1>. QED BY <1>1, <1>2

LEMMA SameQuestion == \A E : Linearizable(E) = SearchFacts!Linearizable(E)
BY Zenon DEF
  Linearizable, Completable, IsOrder, IsRun, Precedes, Apply, CallOf, ReturnOf,
  IsCall, IsReturn, Ops,
  SearchFacts!Linearizable, SearchFacts!Completable, SearchFacts!IsOrder,
  SearchFacts!IsRun, SearchFacts!Precedes, SearchFacts!Apply, SearchFacts!CallOf,
  SearchFacts!ReturnOf, SearchFacts!IsCall, SearchFacts!IsReturn, SearchFacts!Ops

(* check_single on its pointers, words and buckets keeps the promise that  *)
(* check_parallel relies on: for every model, history and width of a word, *)
(* whatever it returns while the kill flag is clear is the right verdict.  *)
THEOREM ContractKept == Spec => Contract!Spec
<1>1. SearchFacts!Spec => SearchFacts!Contract!Spec
  BY SearchAssumptions, SearchFacts!ContractKept, Zenon
<1>2. SearchFacts!Contract!Init => Contract!Init
  BY SameQuestion, Zenon DEF SearchFacts!Contract!Init, Contract!Init
<1>3. [SearchFacts!Contract!Next]_(SearchFacts!Contract!vars) => [Contract!Next]_(Contract!vars)
  <2>1. UNCHANGED SearchFacts!Contract!vars => UNCHANGED Contract!vars
    BY SameQuestion, Zenon DEF SearchFacts!Contract!vars, Contract!vars
  <2>2. SearchFacts!Contract!Next => Contract!Next
    BY SameQuestion, Zenon DEF
      SearchFacts!Contract!Next, SearchFacts!Contract!Decide, SearchFacts!Contract!Abandon,
      SearchFacts!Contract!SetKill, SearchFacts!Contract!Return,
      Contract!Next, Contract!Decide, Contract!Abandon, Contract!SetKill, Contract!Return
  <2>. QED BY <2>1, <2>2
<1>. QED BY Refinement, SameInit, SameNext, <1>1, <1>2, <1>3, PTL
         DEF Abstract!Spec, SearchFacts!Spec, SearchFacts!Contract!Spec, Contract!Spec
=============================================================================
