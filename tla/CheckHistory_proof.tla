------------------------- MODULE CheckHistory_proof -------------------------
(***************************************************************************)
(* Proofs about CheckHistory: that the entry lists are what the search     *)
(* needs, that they keep the order of the history in real time, that they  *)
(* hold every operation once, that the assertions are exact, and           *)
(* that the verdict on the parts is the verdict on the history.            *)
(***************************************************************************)
EXTENDS CheckHistory, SequenceTheorems, FiniteSetTheorems, KvModel, TLAPS

-----------------------------------------------------------------------------
(* Sorting.  In a finite set that R orders, counting what is below each    *)
(* element numbers the elements from 0.                                    *)
IsOrdered(S, R) ==
  /\ \A p \in S : <<p, p>> \notin R
  /\ \A p, q, s \in S : <<p, q>> \in R /\ <<q, s>> \in R => <<p, s>> \in R
  /\ \A p, q \in S : p # q => <<p, q>> \in R \/ <<q, p>> \in R

IsRank(S, R, rank) ==
  /\ rank \in Bijection(S, 0..(Cardinality(S) - 1))
  /\ \A q \in S : rank[q] = Cardinality({ p \in S : <<p, q>> \in R })
  /\ \A p, q \in S : <<p, q>> \in R <=> rank[p] < rank[q]

LEMMA Ranks ==
  ASSUME NEW S, IsFiniteSet(S), NEW R, IsOrdered(S, R)
  PROVE  \E rank : IsRank(S, R, rank)
<1>. DEFINE n == Cardinality(S)
            Below(q) == { p \in S : <<p, q>> \in R }
            rank == [q \in S |-> Cardinality(Below(q))]
<1>1. n \in Nat /\ IsFiniteSet(0..(n - 1)) /\ Cardinality(0..(n - 1)) = n
  <2>1. n \in Nat
    BY FS_CardinalityType
  <2>2. 0 \in Int /\ n - 1 \in Int
    BY <2>1
  <2>3. /\ IsFiniteSet(0..(n - 1))
        /\ Cardinality(0..(n - 1)) = IF 0 > n - 1 THEN 0 ELSE (n - 1) - 0 + 1
    BY <2>2, FS_Interval
  <2>. QED BY <2>1, <2>3
<1>2. \A q \in S : IsFiniteSet(Below(q)) /\ rank[q] \in 0..(n - 1) /\ rank[q] \in Nat
  <2>. SUFFICES ASSUME NEW q \in S
                PROVE  /\ IsFiniteSet(Below(q)) /\ Cardinality(Below(q)) \in 0..(n - 1)
                       /\ Cardinality(Below(q)) \in Nat
    OBVIOUS
  <2>1. Below(q) \in SUBSET S /\ Below(q) # S
    BY DEF IsOrdered
  <2>2. IsFiniteSet(Below(q)) /\ Cardinality(Below(q)) <= n /\ Cardinality(Below(q)) # n
    BY <2>1, FS_Subset
  <2>3. Cardinality(Below(q)) \in Nat
    BY <2>2, FS_CardinalityType
  <2>. QED BY <1>1, <2>2, <2>3
<1>3. ASSUME NEW p \in S, NEW q \in S, <<p, q>> \in R
      PROVE  rank[p] < rank[q]
  <2>1. Below(p) \in SUBSET Below(q) /\ Below(p) # Below(q)
    BY <1>3 DEF IsOrdered
  <2>2. Cardinality(Below(p)) <= Cardinality(Below(q)) /\ Cardinality(Below(p)) # Cardinality(Below(q))
    BY <1>2, <2>1, FS_Subset
  <2>3. rank[p] = Cardinality(Below(p)) /\ rank[q] = Cardinality(Below(q))
    OBVIOUS
  <2>4. rank[p] \in Nat /\ rank[q] \in Nat
    BY <1>2
  <2>. HIDE DEF rank, Below
  <2>. QED BY <2>2, <2>3, <2>4
<1>. HIDE DEF rank
<1>4. \A p, q \in S : <<p, q>> \in R <=> rank[p] < rank[q]
  <2>. SUFFICES ASSUME NEW p \in S, NEW q \in S, rank[p] < rank[q] PROVE <<p, q>> \in R
    BY <1>3
  <2>1. p # q /\ ~ (rank[q] < rank[p])
    <3>1. rank[p] \in Nat /\ rank[q] \in Nat
      BY <1>2
    <3>. QED BY <3>1
  <2>. QED BY <1>3, <2>1 DEF IsOrdered
<1>5. rank \in Injection(S, 0..(n - 1))
  <2>1. rank \in [S -> 0..(n - 1)]
    BY <1>2 DEF rank
  <2>2. ASSUME NEW p \in S, NEW q \in S, rank[p] = rank[q] PROVE p = q
    BY <1>1, <1>2, <1>4, <2>2 DEF IsOrdered
  <2>. QED BY <2>1, <2>2 DEF Injection, IsInjective
<1>6. rank \in Surjection(S, 0..(n - 1))
  BY <1>1, <1>5, FS_Injection
<1>7. rank \in Bijection(S, 0..(n - 1))
  BY <1>5, <1>6 DEF Bijection
<1>8. \A q \in S : rank[q] = Cardinality({ p \in S : <<p, q>> \in R })
  BY DEF rank
<1>. QED BY <1>4, <1>7, <1>8 DEF IsRank

(* Sorted permutes the entries, and puts them in the order it should.      *)
LEMMA SortedPlaces ==
  ASSUME NEW n \in Nat, NEW E, DOMAIN E = 1..n,
         \A p \in 1..n : E[p].time \in Nat /\ E[p].kind \in {"call", "return"}
  PROVE  /\ DOMAIN Sorted(E) = 1..n
         /\ \E place \in Bijection(1..n, 1..n) :
              /\ \A p \in 1..n : Sorted(E)[place[p]] = E[p]
              /\ \A p, q \in 1..n : place[p] < place[q] <=> SortsBefore(E, p, q)
<1>. DEFINE D == 1..n
            R == { z \in D \X D : SortsBefore(E, z[1], z[2]) }
<1>1. IsFiniteSet(D) /\ Cardinality(D) = n
  BY FS_Interval
<1>2. \A p, q \in D : <<p, q>> \in R <=> SortsBefore(E, p, q)
  OBVIOUS
<1>3. \A p \in D : ~ SortsBefore(E, p, p)
  BY DEF SortsBefore, ByTime
<1>4. \A p, q \in D : p # q => SortsBefore(E, p, q) \/ SortsBefore(E, q, p)
  BY DEF SortsBefore, ByTime
<1>5. ASSUME NEW p \in D, NEW q \in D, NEW s \in D, SortsBefore(E, p, q), SortsBefore(E, q, s)
      PROVE  SortsBefore(E, p, s)
  BY <1>5 DEF SortsBefore, ByTime
<1>order. IsOrdered(D, R)
  BY <1>2, <1>3, <1>4, <1>5 DEF IsOrdered
<1>. HIDE DEF R, D
<1>6. PICK rank \in Bijection(D, 0..(n - 1)) :
        /\ \A q \in D : rank[q] = Cardinality({ p \in D : <<p, q>> \in R })
        /\ \A p, q \in D : <<p, q>> \in R <=> rank[p] < rank[q]
  <2>1. PICK rank : IsRank(D, R, rank)
    BY <1>1, <1>order, Ranks
  <2>. QED BY <1>1, <2>1 DEF IsRank
<1>7. \A q \in D : rank[q] = Cardinality({ p \in D : SortsBefore(E, p, q) })
  <2>. SUFFICES ASSUME NEW q \in D
                PROVE  rank[q] = Cardinality({ p \in D : SortsBefore(E, p, q) })
    OBVIOUS
  <2>1. { p \in D : <<p, q>> \in R } = { p \in D : SortsBefore(E, p, q) }
    BY <1>2
  <2>. QED BY <1>6, <2>1
<1>8. /\ rank \in [D -> 0..(n - 1)]
      /\ \A p, q \in D : rank[p] = rank[q] => p = q
      /\ \A k \in 0..(n - 1) : \E p \in D : rank[p] = k
  BY <1>6 DEF Bijection, Injection, Surjection, IsInjective
<1>. USE DEF D
<1>. DEFINE place == [p \in D |-> rank[p] + 1]
<1>9. place \in Bijection(D, D)
  <2>1. place \in [D -> D]
    BY <1>8
  <2>2. \A p, q \in D : place[p] = place[q] => p = q
    BY <1>8
  <2>3. ASSUME NEW k \in D PROVE \E p \in D : place[p] = k
    <3>1. PICK p \in D : rank[p] = k - 1
      BY <1>8
    <3>. QED BY <3>1
  <2>. QED BY <2>1, <2>2, <2>3 DEF Bijection, Injection, Surjection, IsInjective
<1>10. \A p, q \in D : place[p] < place[q] <=> SortsBefore(E, p, q)
  <2>. SUFFICES ASSUME NEW p \in D, NEW q \in D
                PROVE  place[p] < place[q] <=> SortsBefore(E, p, q)
    OBVIOUS
  <2>1. rank[p] \in 0..(n - 1) /\ rank[q] \in 0..(n - 1)
    BY <1>8
  <2>2. place[p] < place[q] <=> rank[p] < rank[q]
    BY <2>1
  <2>. HIDE DEF place, D
  <2>. QED BY <1>2, <1>6, <2>2
<1>11. ASSUME NEW p \in D PROVE Sorted(E)[place[p]] = E[p]
  <2>. DEFINE Chosen == CHOOSE q \in D : rank[q] = place[p] - 1
  <2>1. Chosen = p
    BY <1>8
  <2>2. \A q \in D : rank[q] = place[p] - 1 <=>
                     Cardinality({ s \in D : SortsBefore(E, s, q) }) = place[p] - 1
    BY <1>7
  <2>3. Chosen = CHOOSE q \in D : Cardinality({ s \in D : SortsBefore(E, s, q) }) = place[p] - 1
    BY <2>2
  <2>4. place[p] \in D
    BY <1>8
  <2>. HIDE DEF place, Chosen
  <2>5. Sorted(E)[place[p]] = E[CHOOSE q \in D : Cardinality({ s \in D : SortsBefore(E, s, q) })
                                                 = place[p] - 1]
    BY <2>4 DEF Sorted
  <2>. QED BY <2>1, <2>3, <2>5
<1>12. DOMAIN Sorted(E) = D
  BY DEF Sorted
<1>. QED BY <1>9, <1>10, <1>11, <1>12
-----------------------------------------------------------------------------
(* In list L of m operations, operation a is called at c[a] and returns at *)
(* r[a].                                                                   *)
EndsAt(L, m, c, r) ==
  /\ Len(L) = 2 * m /\ DOMAIN L = 1..(2 * m)
  /\ \A p \in DOMAIN L : L[p].id \in 0..(m - 1)
  /\ \A a \in 0..(m - 1) :
       /\ c[a] \in DOMAIN L /\ r[a] \in DOMAIN L /\ c[a] < r[a]
       /\ IsCall(L, c[a]) /\ L[c[a]].value \in Input
       /\ IsReturn(L, r[a]) /\ L[r[a]].value \in Output
       /\ \A p \in DOMAIN L : L[p].id = a <=> p \in {c[a], r[a]}

(* Such a list is what the search requires, with ids that are dense.       *)
LEMMA ListFacts ==
  ASSUME NEW L, NEW m \in Nat, NEW c, NEW r, EndsAt(L, m, c, r)
  PROVE  /\ WellFormed(L)
         /\ Ops(L) = 0..(m - 1) /\ Ops(L) = 0..(Len(L) \div 2 - 1)
         /\ \A a \in 0..(m - 1) : CallOf(L, a) = c[a] /\ ReturnOf(L, a) = r[a]
         /\ \A p \in DOMAIN L : \/ IsCall(L, p) /\ L[p].value \in Input
                                \/ IsReturn(L, p) /\ L[p].value \in Output
<1>1. Len(L) = 2 * m /\ DOMAIN L = 1..(2 * m) /\ Len(L) \in Nat /\ Len(L) \div 2 = m
  BY DEF EndsAt
<1>2. Ops(L) = 0..(m - 1)
  <2>1. \A a \in 0..(m - 1) : c[a] \in DOMAIN L /\ L[c[a]].id = a
    BY DEF EndsAt
  <2>2. \A p \in DOMAIN L : L[p].id \in 0..(m - 1)
    BY DEF EndsAt
  <2>. QED BY <2>1, <2>2 DEF Ops
<1>3. WellFormed(L)
  <2>. SUFFICES ASSUME NEW i \in Ops(L)
                PROVE  \E x, y \in DOMAIN L :
                         /\ x < y
                         /\ IsCall(L, x) /\ L[x].value \in Input
                         /\ IsReturn(L, y) /\ L[y].value \in Output
                         /\ \A p \in DOMAIN L : L[p].id = i <=> p \in {x, y}
    BY <1>1 DEF WellFormed
  <2>. QED BY <1>2 DEF EndsAt
<1>4. ASSUME NEW a \in 0..(m - 1)
      PROVE  CallOf(L, a) = c[a] /\ ReturnOf(L, a) = r[a]
  <2>1. /\ c[a] \in DOMAIN L /\ r[a] \in DOMAIN L
        /\ \A p \in DOMAIN L : L[p].id = a <=> p \in {c[a], r[a]}
        /\ IsCall(L, c[a]) /\ ~ IsReturn(L, c[a])
        /\ IsReturn(L, r[a]) /\ ~ IsCall(L, r[a])
    BY DEF EndsAt, IsCall, IsReturn
  <2>2. \A p \in DOMAIN L : /\ L[p].id = a /\ IsCall(L, p) <=> p = c[a]
                            /\ L[p].id = a /\ IsReturn(L, p) <=> p = r[a]
    BY <2>1
  <2>. QED BY <2>1, <2>2 DEF CallOf, ReturnOf
<1>5. ASSUME NEW p \in DOMAIN L
      PROVE  \/ IsCall(L, p) /\ L[p].value \in Input
             \/ IsReturn(L, p) /\ L[p].value \in Output
  <2>1. L[p].id \in 0..(m - 1)
    BY DEF EndsAt
  <2>2. p \in {c[L[p].id], r[L[p].id]}
    BY <2>1 DEF EndsAt
  <2>. QED BY <2>1, <2>2 DEF EndsAt
<1>. QED BY <1>1, <1>2, <1>3, <1>4, <1>5

-----------------------------------------------------------------------------
(* The list of the operations at positions x of a history h.               *)

CallAt(a)   == 2 * a + 1
ReturnAt(a) == 2 * a + 2

(* The entries of operation a are pushed one after the other.              *)
LEMMA PushedAre ==
  ASSUME NEW h \in Seq(Operation), NEW x \in Seq(DOMAIN h)
  PROVE  /\ Len(x) \in Nat /\ 2 * Len(x) \in Nat /\ DOMAIN Pushed(h, x) = 1..(2 * Len(x))
         /\ \A a \in 0..(Len(x) - 1) :
              /\ x[a + 1] \in DOMAIN h /\ h[x[a + 1]] \in Operation
              /\ CallAt(a) \in 1..(2 * Len(x)) /\ ReturnAt(a) \in 1..(2 * Len(x))
              /\ Pushed(h, x)[CallAt(a)] = CallEntry(a, h[x[a + 1]])
              /\ Pushed(h, x)[ReturnAt(a)] = ReturnEntry(a, h[x[a + 1]])
         /\ \A p \in 1..(2 * Len(x)) : \E a \in 0..(Len(x) - 1) :
              p = CallAt(a) \/ p = ReturnAt(a)
<1>1. Len(x) \in Nat /\ 2 * Len(x) \in Nat /\ DOMAIN Pushed(h, x) = 1..(2 * Len(x))
  BY DEF Pushed
<1>2. ASSUME NEW a \in 0..(Len(x) - 1)
      PROVE  /\ x[a + 1] \in DOMAIN h /\ h[x[a + 1]] \in Operation
             /\ CallAt(a) \in 1..(2 * Len(x)) /\ ReturnAt(a) \in 1..(2 * Len(x))
             /\ Pushed(h, x)[CallAt(a)] = CallEntry(a, h[x[a + 1]])
             /\ Pushed(h, x)[ReturnAt(a)] = ReturnEntry(a, h[x[a + 1]])
  <2>1. a \in Nat /\ a + 1 \in 1..Len(x)
    BY <1>1
  <2>2. x[a + 1] \in DOMAIN h
    BY <2>1
  <2>3. h[x[a + 1]] \in Operation
    BY <2>2
  <2>4. CallAt(a) \in 1..(2 * Len(x)) /\ ReturnAt(a) \in 1..(2 * Len(x))
    BY <1>1, <2>1 DEF CallAt, ReturnAt
  <2>5. /\ (2 * a + 1) % 2 = 1 /\ (2 * a + 1 + 1) \div 2 = a + 1 /\ (a + 1) - 1 = a
        /\ (2 * a + 2) % 2 # 1 /\ (2 * a + 2 + 1) \div 2 = a + 1
    BY <2>1
  <2>. QED BY <2>2, <2>3, <2>4, <2>5 DEF Pushed, CallAt, ReturnAt
<1>3. ASSUME NEW p \in 1..(2 * Len(x))
      PROVE  \E a \in 0..(Len(x) - 1) : p = CallAt(a) \/ p = ReturnAt(a)
  <2>1. (p - 1) \div 2 \in 0..(Len(x) - 1)
    BY <1>1
  <2>2. p = 2 * ((p - 1) \div 2) + 1 \/ p = 2 * ((p - 1) \div 2) + 2
    BY <1>1
  <2>. QED BY <2>1, <2>2 DEF CallAt, ReturnAt
<1>. QED BY <1>1, <1>2, <1>3

ListsThem(h, x, L, c, r) ==
  /\ EndsAt(L, Len(x), c, r)
  /\ \A a \in 0..(Len(x) - 1) : /\ L[c[a]].value = h[x[a + 1]].input
                                /\ L[r[a]].value = h[x[a + 1]].output
  /\ \A a, b \in 0..(Len(x) - 1) :
       r[a] < c[b] <=> h[x[a + 1]].return_time < h[x[b + 1]].call

LEMMA OperationList ==
  ASSUME NEW h \in Seq(Operation), assert_well_formed(h), NEW x \in Seq(DOMAIN h)
  PROVE  \E c, r : ListsThem(h, x, make_entries_from_indices(h, x), c, r)
<1>. DEFINE E == Pushed(h, x)
            L == make_entries_from_indices(h, x)
            m == Len(x)
            N == 2 * m
<1>1. /\ m \in Nat /\ N \in Nat /\ DOMAIN E = 1..N
      /\ \A a \in 0..(m - 1) :
           /\ x[a + 1] \in DOMAIN h /\ h[x[a + 1]] \in Operation
           /\ CallAt(a) \in 1..N /\ ReturnAt(a) \in 1..N
           /\ E[CallAt(a)] = CallEntry(a, h[x[a + 1]])
           /\ E[ReturnAt(a)] = ReturnEntry(a, h[x[a + 1]])
      /\ \A p \in 1..N : \E a \in 0..(m - 1) : p = CallAt(a) \/ p = ReturnAt(a)
  BY PushedAre, Zenon
<1>. HIDE DEF E, m, N
<1>2. \A a \in 0..(m - 1) :
        /\ E[CallAt(a)].id = a /\ E[ReturnAt(a)].id = a
        /\ E[CallAt(a)].kind = "call" /\ E[ReturnAt(a)].kind = "return"
        /\ E[CallAt(a)].time = h[x[a + 1]].call /\ E[CallAt(a)].time \in Nat
        /\ E[ReturnAt(a)].time = h[x[a + 1]].return_time /\ E[ReturnAt(a)].time \in Nat
        /\ E[CallAt(a)].value = h[x[a + 1]].input /\ E[CallAt(a)].value \in Input
        /\ E[ReturnAt(a)].value = h[x[a + 1]].output /\ E[ReturnAt(a)].value \in Output
        /\ E[CallAt(a)].time <= E[ReturnAt(a)].time
  <2>. SUFFICES ASSUME NEW a \in 0..(m - 1)
                PROVE  /\ E[CallAt(a)].id = a /\ E[ReturnAt(a)].id = a
                       /\ E[CallAt(a)].kind = "call" /\ E[ReturnAt(a)].kind = "return"
                       /\ E[CallAt(a)].time = h[x[a + 1]].call /\ E[CallAt(a)].time \in Nat
                       /\ E[ReturnAt(a)].time = h[x[a + 1]].return_time
                       /\ E[ReturnAt(a)].time \in Nat
                       /\ E[CallAt(a)].value = h[x[a + 1]].input /\ E[CallAt(a)].value \in Input
                       /\ E[ReturnAt(a)].value = h[x[a + 1]].output
                       /\ E[ReturnAt(a)].value \in Output
                       /\ E[CallAt(a)].time <= E[ReturnAt(a)].time
    OBVIOUS
  <2>1. PICK op : op = h[x[a + 1]]
    OBVIOUS
  <2>2. /\ op \in Operation /\ op.call <= op.return_time
        /\ E[CallAt(a)] = CallEntry(a, op) /\ E[ReturnAt(a)] = ReturnEntry(a, op)
    BY <1>1, <2>1 DEF assert_well_formed
  <2>3. op.call \in Nat /\ op.return_time \in Nat /\ op.input \in Input /\ op.output \in Output
    BY <2>2 DEF Operation
  <2>. QED BY <2>1, <2>2, <2>3 DEF CallEntry, ReturnEntry
<1>3. \A p \in 1..N : /\ E[p].time \in Nat /\ E[p].kind \in {"call", "return"}
                      /\ E[p].id \in 0..(m - 1)
  <2>. SUFFICES ASSUME NEW p \in 1..N
                PROVE  /\ E[p].time \in Nat /\ E[p].kind \in {"call", "return"}
                       /\ E[p].id \in 0..(m - 1)
    OBVIOUS
  <2>1. PICK a \in 0..(m - 1) : p = CallAt(a) \/ p = ReturnAt(a)
    BY <1>1
  <2>. QED BY <1>2, <2>1
<1>4. L = Sorted(E)
  BY DEF make_entries_from_indices, E
<1>5. PICK place \in Bijection(1..N, 1..N) :
        /\ \A p \in 1..N : L[place[p]] = E[p]
        /\ \A p, q \in 1..N : place[p] < place[q] <=> SortsBefore(E, p, q)
  <2>1. \E place \in Bijection(1..N, 1..N) :
          /\ \A p \in 1..N : Sorted(E)[place[p]] = E[p]
          /\ \A p, q \in 1..N : place[p] < place[q] <=> SortsBefore(E, p, q)
    BY <1>1, <1>3, SortedPlaces
  <2>. QED BY <1>4, <2>1
<1>6. DOMAIN L = 1..N /\ Len(L) = N
  <2>1. L = [k \in 1..N |-> L[k]] /\ DOMAIN L = 1..N
    BY <1>1, <1>3, <1>4, SortedPlaces DEF Sorted
  <2>. QED BY <1>1, <2>1
<1>7. /\ place \in [1..N -> 1..N]
      /\ \A p, q \in 1..N : place[p] = place[q] => p = q
      /\ \A k \in 1..N : \E p \in 1..N : place[p] = k
  BY <1>5 DEF Bijection, Injection, Surjection, IsInjective
<1>. DEFINE c == [a \in 0..(m - 1) |-> place[CallAt(a)]]
            r == [a \in 0..(m - 1) |-> place[ReturnAt(a)]]
<1>. HIDE DEF L
<1>8. EndsAt(L, m, c, r)
  <2>1. Len(L) = 2 * m /\ DOMAIN L = 1..(2 * m)
    BY <1>6 DEF N
  <2>2. ASSUME NEW p \in DOMAIN L PROVE L[p].id \in 0..(m - 1)
    <3>1. PICK q \in 1..N : place[q] = p
      BY <1>6, <1>7
    <3>2. L[p] = E[q] /\ E[q].id \in 0..(m - 1)
      BY <1>3, <1>5, <3>1
    <3>. QED BY <3>2
  <2>3. ASSUME NEW a \in 0..(m - 1)
        PROVE  /\ c[a] \in DOMAIN L /\ r[a] \in DOMAIN L
               /\ IsCall(L, c[a]) /\ L[c[a]].value \in Input
               /\ IsReturn(L, r[a]) /\ L[r[a]].value \in Output
               /\ L[c[a]].id = a /\ L[r[a]].id = a
    <3>1. c[a] = place[CallAt(a)] /\ r[a] = place[ReturnAt(a)]
      OBVIOUS
    <3>2. CallAt(a) \in 1..N /\ ReturnAt(a) \in 1..N
      BY <1>1
    <3>3. L[c[a]] = E[CallAt(a)] /\ L[r[a]] = E[ReturnAt(a)]
      BY <1>5, <3>1, <3>2
    <3>4. c[a] \in 1..N /\ r[a] \in 1..N
      BY <1>7, <3>1, <3>2
    <3>. HIDE DEF c, r
    <3>. QED BY <1>2, <1>6, <3>3, <3>4 DEF IsCall, IsReturn
  <2>4. ASSUME NEW a \in 0..(m - 1) PROVE c[a] < r[a]
    <3>1. SortsBefore(E, CallAt(a), ReturnAt(a))
      BY <1>2 DEF SortsBefore, ByTime
    <3>. QED BY <1>1, <1>5, <3>1
  <2>5. ASSUME NEW a \in 0..(m - 1), NEW p \in DOMAIN L, L[p].id = a
        PROVE  p \in {c[a], r[a]}
    <3>1. PICK q \in 1..N : place[q] = p
      BY <1>6, <1>7
    <3>2. PICK b \in 0..(m - 1) : q = CallAt(b) \/ q = ReturnAt(b)
      BY <1>1
    <3>3. b = a
      <4>1. L[p] = E[q] /\ E[q].id = b
        BY <1>2, <1>5, <3>1, <3>2
      <4>. QED BY <2>5, <4>1
    <3>. QED BY <3>1, <3>2, <3>3
  <2>. HIDE DEF c, r
  <2>. QED BY <2>1, <2>2, <2>3, <2>4, <2>5 DEF EndsAt
<1>9. \A a \in 0..(m - 1) : /\ L[c[a]].value = h[x[a + 1]].input
                            /\ L[r[a]].value = h[x[a + 1]].output
  <2>. SUFFICES ASSUME NEW a \in 0..(m - 1)
                PROVE  /\ L[c[a]].value = h[x[a + 1]].input
                       /\ L[r[a]].value = h[x[a + 1]].output
    OBVIOUS
  <2>1. L[c[a]] = E[CallAt(a)] /\ L[r[a]] = E[ReturnAt(a)]
    BY <1>1, <1>5
  <2>. QED BY <1>2, <2>1
<1>10. ASSUME NEW a \in 0..(m - 1), NEW b \in 0..(m - 1)
       PROVE  r[a] < c[b] <=> h[x[a + 1]].return_time < h[x[b + 1]].call
  <2>1. r[a] < c[b] <=> SortsBefore(E, ReturnAt(a), CallAt(b))
    BY <1>1, <1>5
  <2>2. SortsBefore(E, ReturnAt(a), CallAt(b)) <=> E[ReturnAt(a)].time < E[CallAt(b)].time
    <3>1. /\ E[ReturnAt(a)].kind = "return" /\ E[CallAt(b)].kind = "call"
          /\ E[ReturnAt(a)].time \in Nat /\ E[CallAt(b)].time \in Nat
      BY <1>2
    <3>. QED BY <3>1 DEF SortsBefore, ByTime
  <2>. QED BY <1>2, <2>1, <2>2
<1>11. ListsThem(h, x, L, c, r)
  BY <1>8, <1>9, <1>10 DEF ListsThem, m
<1>. QED BY <1>11 DEF L
-----------------------------------------------------------------------------
(* The list of a sequence of events that the assertions have let through.  *)
EventIds(events) == { events[p].id : p \in DOMAIN events }

(* Each id is called at c[i] and returns at r[i], and is met nowhere else. *)
PairedAt(events, c, r) ==
  \A i \in EventIds(events) :
    /\ c[i] \in DOMAIN events /\ r[i] \in DOMAIN events /\ c[i] < r[i]
    /\ events[c[i]].kind = "call" /\ events[c[i]].input \in Input
    /\ events[r[i]].kind = "return" /\ events[r[i]].output \in Output
    /\ \A p \in DOMAIN events : events[p].id = i <=> p \in {c[i], r[i]}

LEMMA EventTypes ==
  ASSUME NEW events \in Seq(Event)
  PROVE  /\ Len(events) \in Nat /\ DOMAIN events = 1..Len(events)
         /\ \A p \in DOMAIN events :
              /\ events[p].id \in Nat /\ events[p].kind \in {"call", "return"}
              /\ events[p].input \in Input \cup {NoValue}
              /\ events[p].output \in Output \cup {NoValue}
<1>1. \A p \in DOMAIN events : events[p] \in Event
  OBVIOUS
<1>2. \A e \in Event : /\ e.id \in Nat /\ e.kind \in {"call", "return"}
                       /\ e.input \in Input \cup {NoValue}
                       /\ e.output \in Output \cup {NoValue}
  BY DEF Event
<1>3. Len(events) \in Nat /\ DOMAIN events = 1..Len(events)
  OBVIOUS
<1>. QED BY <1>1, <1>2, <1>3

LEMMA EventPairs ==
  ASSUME NEW events \in Seq(Event), assert_well_formed_events(events)
  PROVE  \E c, r : PairedAt(events, c, r)
<1>. DEFINE D == DOMAIN events
            c == [i \in EventIds(events) |->
                    CHOOSE p \in D : events[p].id = i /\ events[p].kind = "call"]
            r == [i \in EventIds(events) |->
                    CHOOSE p \in D : events[p].id = i /\ events[p].kind = "return"]
<1>1. /\ D \subseteq Nat
      /\ \A p \in D : /\ events[p].kind \in {"call", "return"}
                      /\ events[p].input \in Input \cup {NoValue}
                      /\ events[p].output \in Output \cup {NoValue}
  BY EventTypes
<1>2. /\ \A p \in D : /\ events[p].kind = "call" => events[p].input # NoValue
                      /\ events[p].kind = "return" => events[p].output # NoValue
      /\ \A p, q \in D : events[p].kind = events[q].kind /\ events[p].id = events[q].id => p = q
      /\ \A p \in D : events[p].kind = "call" =>
           \E q \in D : events[q].kind = "return" /\ events[q].id = events[p].id /\ p < q
      /\ \A q \in D : events[q].kind = "return" =>
           \E p \in D : events[p].kind = "call" /\ events[p].id = events[q].id
  <2>1. \A p \in D : Carried(events[p]) # NoValue
    BY DEF assert_well_formed_events
  <2>2. \A p \in D : /\ p \in Positions(events, "call") <=> events[p].kind = "call"
                     /\ p \in Positions(events, "return") <=> events[p].kind = "return"
    BY DEF Positions
  <2>3. /\ Positions(events, "call") \subseteq D
        /\ Positions(events, "return") \subseteq D
    BY DEF Positions
  <2>. QED BY <1>1, <2>1, <2>2, <2>3 DEF assert_well_formed_events, Carried
<1>3. ASSUME NEW i \in EventIds(events)
      PROVE  \E p, q \in D :
               /\ p < q
               /\ events[p].kind = "call" /\ events[p].input \in Input
               /\ events[q].kind = "return" /\ events[q].output \in Output
               /\ \A s \in D : events[s].id = i <=> s \in {p, q}
  <2>1. PICK s \in D : events[s].id = i
    BY DEF EventIds
  <2>2. PICK p \in D : events[p].kind = "call" /\ events[p].id = i
    BY <1>1, <1>2, <2>1
  <2>3. PICK q \in D : events[q].kind = "return" /\ events[q].id = i /\ p < q
    BY <1>2, <2>2
  <2>4. \A t \in D : events[t].id = i <=> t \in {p, q}
    <3>. SUFFICES ASSUME NEW t \in D, events[t].id = i PROVE t \in {p, q}
      BY <2>2, <2>3
    <3>0. \A u \in D : events[t].kind = events[u].kind /\ events[t].id = events[u].id => t = u
      BY <1>2
    <3>1. CASE events[t].kind = "call"
      BY <2>2, <3>0, <3>1
    <3>2. CASE events[t].kind = "return"
      BY <2>3, <3>0, <3>2
    <3>. QED BY <1>1, <3>1, <3>2
  <2>. QED BY <1>1, <1>2, <2>2, <2>3, <2>4
<1>4. ASSUME NEW i \in EventIds(events)
      PROVE  /\ c[i] \in D /\ r[i] \in D /\ c[i] < r[i]
             /\ events[c[i]].kind = "call" /\ events[c[i]].input \in Input
             /\ events[r[i]].kind = "return" /\ events[r[i]].output \in Output
             /\ \A p \in D : events[p].id = i <=> p \in {c[i], r[i]}
  <2>1. PICK p \in D, q \in D :
          /\ p < q
          /\ events[p].kind = "call" /\ events[p].input \in Input
          /\ events[q].kind = "return" /\ events[q].output \in Output
          /\ \A s \in D : events[s].id = i <=> s \in {p, q}
    BY <1>3
  <2>2. \A s \in D : /\ events[s].id = i /\ events[s].kind = "call" <=> s = p
                     /\ events[s].id = i /\ events[s].kind = "return" <=> s = q
    BY <2>1
  <2>3. c[i] = p /\ r[i] = q
    BY <2>2
  <2>. HIDE DEF c, r
  <2>. QED BY <2>1, <2>3
<1>. HIDE DEF c, r
<1>. QED BY <1>4 DEF PairedAt

(* The new ids are dense, and tell apart what the old ones told apart.     *)
LEMMA NewIds ==
  ASSUME NEW events \in Seq(Event), NEW c, NEW r, PairedAt(events, c, r)
  PROVE  /\ IsFiniteSet(EventIds(events))
         /\ \E new \in Bijection(EventIds(events), 0..(Cardinality(EventIds(events)) - 1)) :
              \A i \in EventIds(events) : NewId(events, i) = new[i]
<1>. DEFINE D == DOMAIN events
            I == EventIds(events)
            R == { z \in I \X I : c[z[1]] < c[z[2]] }
<1>1. Len(events) \in Nat /\ D = 1..Len(events)
  BY EventTypes
<1>2. IsFiniteSet(I)
  <2>. DEFINE f == [p \in D |-> events[p].id]
  <2>1. f \in Surjection(D, I)
    BY DEF Surjection, EventIds
  <2>2. IsFiniteSet(D)
    BY <1>1, FS_Interval
  <2>. HIDE DEF f
  <2>. QED BY <2>1, <2>2, FS_Surjection
<1>3. \A i \in I : /\ c[i] \in D /\ r[i] \in D /\ c[i] \in Nat /\ r[i] \in Nat /\ c[i] < r[i]
                   /\ \A p \in D : events[p].id = i <=> p \in {c[i], r[i]}
  BY <1>1 DEF PairedAt
<1>4. \A p \in D : events[p].id \in I /\ c[events[p].id] <= p
  <2>. SUFFICES ASSUME NEW p \in D
                PROVE  events[p].id \in I /\ c[events[p].id] <= p
    OBVIOUS
  <2>1. events[p].id \in I
    BY DEF EventIds
  <2>. QED BY <1>1, <1>3, <2>1
<1>. HIDE DEF I
<1>5. \A i, j \in I : <<i, j>> \in R <=> c[i] < c[j]
  OBVIOUS
<1>6. \A i, j \in I : i # j => c[i] # c[j]
  BY <1>3
<1>. HIDE DEF R
<1>7. IsOrdered(I, R)
  <2>1. \A i \in I : c[i] \in Nat
    BY <1>1, <1>3
  <2>2. \A i, j, k \in I : c[i] < c[j] /\ c[j] < c[k] => c[i] < c[k]
    BY <2>1
  <2>3. \A i, j \in I : i # j => c[i] < c[j] \/ c[j] < c[i]
    BY <1>6, <2>1
  <2>. QED BY <1>5, <2>1, <2>2, <2>3 DEF IsOrdered
<1>8. PICK new : IsRank(I, R, new)
  BY <1>2, <1>7, Ranks
<1>9. ASSUME NEW i \in I PROVE NewId(events, i) = new[i]
  <2>. DEFINE first == CHOOSE p \in D : events[p].id = i /\ \A q \in D : events[q].id = i => p <= q
  <2>1. \A p \in D : (events[p].id = i /\ \A q \in D : events[q].id = i => p <= q) <=> p = c[i]
    BY <1>1, <1>3
  <2>2. first = c[i]
    BY <1>3, <2>1
  <2>3. NewId(events, i) = Cardinality({ events[q].id : q \in 1..(first - 1) })
    BY DEF NewId
  <2>. HIDE DEF first
  <2>4. { events[q].id : q \in 1..(c[i] - 1) } = { j \in I : c[j] < c[i] }
    <3>1. ASSUME NEW q \in 1..(c[i] - 1) PROVE events[q].id \in I /\ c[events[q].id] < c[i]
      <4>1. q \in D /\ q < c[i] /\ q \in Nat /\ c[i] \in Nat
        BY <1>1, <1>3
      <4>2. events[q].id \in I /\ c[events[q].id] <= q
        BY <1>4, <4>1
      <4>. QED BY <1>3, <4>1, <4>2
    <3>2. ASSUME NEW j \in I, c[j] < c[i] PROVE \E q \in 1..(c[i] - 1) : events[q].id = j
      <4>1. c[j] \in 1..(c[i] - 1) /\ events[c[j]].id = j
        BY <1>1, <1>3, <3>2
      <4>. QED BY <4>1
    <3>. QED BY <3>1, <3>2
  <2>5. { j \in I : c[j] < c[i] } = { j \in I : <<j, i>> \in R }
    BY <1>5
  <2>6. new[i] = Cardinality({ j \in I : <<j, i>> \in R })
    BY <1>8 DEF IsRank
  <2>. QED BY <2>2, <2>3, <2>4, <2>5, <2>6
<1>10. new \in Bijection(I, 0..(Cardinality(I) - 1))
  BY <1>8 DEF IsRank
<1>. QED BY <1>2, <1>9, <1>10 DEF I
(* There are twice as many events as ids.                                  *)
LEMMA TwoEventsEach ==
  ASSUME NEW events \in Seq(Event), NEW c, NEW r, PairedAt(events, c, r),
         IsFiniteSet(EventIds(events))
  PROVE  /\ Cardinality(EventIds(events)) \in Nat
         /\ Len(events) = 2 * Cardinality(EventIds(events))
<1>. DEFINE D == DOMAIN events
            I == EventIds(events)
            C == { c[i] : i \in I }
            T == { r[i] : i \in I }
<1>1. Len(events) \in Nat /\ D = 1..Len(events)
  BY EventTypes
<1>2. Cardinality(I) \in Nat
  BY FS_CardinalityType
<1>3. /\ \A i \in I : /\ c[i] \in D /\ r[i] \in D /\ events[c[i]].id = i /\ events[r[i]].id = i
                      /\ events[c[i]].kind = "call" /\ events[r[i]].kind = "return"
      /\ \A p \in D : events[p].id \in I /\ p \in {c[events[p].id], r[events[p].id]}
  BY DEF PairedAt, EventIds
<1>. HIDE DEF I
<1>4. IsFiniteSet(C) /\ Cardinality(C) = Cardinality(I)
  <2>. DEFINE f == [i \in I |-> c[i]]
  <2>1. f \in Bijection(I, C)
    BY <1>3 DEF Bijection, Injection, Surjection, IsInjective
  <2>2. ExistsBijection(I, C)
    BY <2>1 DEF ExistsBijection
  <2>. QED BY <2>2, FS_Bijection DEF I
<1>5. IsFiniteSet(T) /\ Cardinality(T) = Cardinality(I)
  <2>. DEFINE f == [i \in I |-> r[i]]
  <2>1. f \in Bijection(I, T)
    BY <1>3 DEF Bijection, Injection, Surjection, IsInjective
  <2>2. ExistsBijection(I, T)
    BY <2>1 DEF ExistsBijection
  <2>. QED BY <2>2, FS_Bijection DEF I
<1>6. C \cup T = 1..Len(events)
  BY <1>1, <1>3
<1>7. C \cap T = {}
  BY <1>3
<1>. HIDE DEF C, T
<1>8. Cardinality(C \cup T) = Cardinality(C) + Cardinality(T) - Cardinality(C \cap T)
  BY <1>4, <1>5, FS_Union
<1>9. Cardinality(C \cap T) = 0
  BY <1>7, FS_EmptySet
<1>10. Cardinality(1..Len(events)) = Len(events)
  BY <1>1, FS_Interval
<1>11. Len(events) = Cardinality(I) + Cardinality(I) - 0
  BY <1>4, <1>5, <1>6, <1>8, <1>9, <1>10
<1>12. Len(events) = 2 * Cardinality(I)
  BY <1>2, <1>11
<1>. QED BY <1>2, <1>12 DEF I

LEMMA EventList ==
  ASSUME NEW events \in Seq(Event), assert_well_formed_events(events)
  PROVE  \E m \in Nat : \E c, r :
           LET L == convert_entries(renumber(events)) IN
           /\ EndsAt(L, m, c, r)
           /\ DOMAIN L = DOMAIN events
           /\ \A p \in DOMAIN events : /\ L[p].kind = events[p].kind
                                       /\ L[p].value = Carried(events[p])
           /\ \A p, q \in DOMAIN events : L[p].id = L[q].id <=> events[p].id = events[q].id
<1>. DEFINE D == DOMAIN events
            I == EventIds(events)
            m == Cardinality(I)
            L == convert_entries(renumber(events))
<1>1. Len(events) \in Nat /\ D = 1..Len(events)
  BY EventTypes
<1>2. PICK c, r : PairedAt(events, c, r)
  BY EventPairs
<1>3. IsFiniteSet(I) /\ \E new \in Bijection(I, 0..(m - 1)) : \A i \in I : NewId(events, i) = new[i]
  BY <1>2, NewIds
<1>4. PICK new \in Bijection(I, 0..(m - 1)) : \A i \in I : NewId(events, i) = new[i]
  BY <1>3
<1>5. m \in Nat /\ Len(events) = 2 * m
  BY <1>2, <1>3, TwoEventsEach
<1>6. \A p \in D : events[p].id \in I
  BY DEF EventIds
<1>7. \A i \in I :
        /\ c[i] \in D /\ r[i] \in D /\ c[i] < r[i]
        /\ events[c[i]].kind = "call" /\ events[c[i]].input \in Input
        /\ events[r[i]].kind = "return" /\ events[r[i]].output \in Output
        /\ \A p \in D : events[p].id = i <=> p \in {c[i], r[i]}
  BY <1>2 DEF PairedAt
<1>. HIDE DEF I, m
<1>8. /\ new \in [I -> 0..(m - 1)]
      /\ \A i, j \in I : new[i] = new[j] => i = j
      /\ \A a \in 0..(m - 1) : \E i \in I : new[i] = a
  BY <1>4 DEF Bijection, Injection, Surjection, IsInjective
<1>9. \A p \in D : /\ L[p].id = NewId(events, events[p].id)
                   /\ L[p].kind = events[p].kind
                   /\ L[p].value = Carried(events[p])
  <2>. DEFINE N == renumber(events)
  <2>1. DOMAIN N = D
    BY DEF renumber
  <2>2. ASSUME NEW p \in D
        PROVE  /\ N[p].id = NewId(events, events[p].id) /\ N[p].kind = events[p].kind
               /\ N[p].input = events[p].input /\ N[p].output = events[p].output
    <3>1. events[p] \in Event
      OBVIOUS
    <3>2. \A e \in Event : \A i : LET n == [e EXCEPT !.id = i]
                                  IN  /\ n.id = i /\ n.kind = e.kind
                                      /\ n.input = e.input /\ n.output = e.output
      BY DEF Event
    <3>3. N[p] = [events[p] EXCEPT !.id = NewId(events, events[p].id)]
      BY DEF renumber
    <3>. QED BY <3>1, <3>2, <3>3
  <2>. HIDE DEF N
  <2>3. L = convert_entries(N)
    BY DEF N
  <2>4. \A p \in D : L[p] = [id |-> N[p].id, time |-> p - 1, kind |-> N[p].kind, value |-> Carried(N[p])]
    BY <2>1, <2>3 DEF convert_entries
  <2>5. ASSUME NEW p \in D
        PROVE  L[p].id = N[p].id /\ L[p].kind = N[p].kind /\ L[p].value = Carried(N[p])
    <3>1. L[p] = [id |-> N[p].id, time |-> p - 1, kind |-> N[p].kind, value |-> Carried(N[p])]
      BY <2>4
    <3>. HIDE DEF L, D
    <3>. QED BY <3>1
  <2>. QED BY <2>2, <2>5 DEF Carried
<1>10. DOMAIN L = D /\ Len(L) = Len(events)
  <2>1. DOMAIN L = D
    BY DEF convert_entries, renumber
  <2>2. L = [p \in 1..Len(events) |-> L[p]]
    BY <1>1 DEF convert_entries, renumber
  <2>. QED BY <1>1, <2>1, <2>2
<1>. HIDE DEF L
<1>11. \A p \in D : L[p].id = new[events[p].id]
  BY <1>4, <1>6, <1>9
<1>. DEFINE old == [a \in 0..(m - 1) |-> CHOOSE i \in I : new[i] = a]
            nc == [a \in 0..(m - 1) |-> c[old[a]]]
            nr == [a \in 0..(m - 1) |-> r[old[a]]]
<1>12. \A a \in 0..(m - 1) : old[a] \in I /\ new[old[a]] = a
  BY <1>8
<1>13. EndsAt(L, m, nc, nr)
  <2>1. Len(L) = 2 * m /\ DOMAIN L = 1..(2 * m)
    BY <1>1, <1>5, <1>10
  <2>2. \A p \in DOMAIN L : L[p].id \in 0..(m - 1)
    BY <1>6, <1>8, <1>10, <1>11
  <2>3. ASSUME NEW a \in 0..(m - 1)
        PROVE  /\ nc[a] \in DOMAIN L /\ nr[a] \in DOMAIN L /\ nc[a] < nr[a]
               /\ IsCall(L, nc[a]) /\ L[nc[a]].value \in Input
               /\ IsReturn(L, nr[a]) /\ L[nr[a]].value \in Output
               /\ \A p \in DOMAIN L : L[p].id = a <=> p \in {nc[a], nr[a]}
    <3>1. PICK i \in I : i = old[a] /\ new[i] = a /\ nc[a] = c[i] /\ nr[a] = r[i]
      BY <1>12
    <3>. HIDE DEF nc, nr, old
    <3>2. \A p \in D : L[p].id = a <=> events[p].id = i
      BY <1>6, <1>8, <1>11, <3>1
    <3>3. nc[a] \in D /\ nr[a] \in D /\ nc[a] < nr[a]
      BY <1>7, <3>1
    <3>4. \A p \in D : L[p].id = a <=> p \in {nc[a], nr[a]}
      BY <1>7, <3>1, <3>2
    <3>5. /\ IsCall(L, nc[a]) /\ L[nc[a]].value \in Input
          /\ IsReturn(L, nr[a]) /\ L[nr[a]].value \in Output
      BY <1>7, <1>9, <3>1 DEF IsCall, IsReturn, Carried
    <3>. QED BY <1>10, <3>3, <3>4, <3>5
  <2>. HIDE DEF nc, nr
  <2>. QED BY <2>1, <2>2, <2>3 DEF EndsAt
<1>14. \A p, q \in D : L[p].id = L[q].id <=> events[p].id = events[q].id
  BY <1>6, <1>8, <1>11
<1>. HIDE DEF nc, nr
<1>. QED BY <1>5, <1>9, <1>10, <1>13, <1>14 DEF L
-----------------------------------------------------------------------------
(* Partitions.  What scan_partition_covering lets through has each of the  *)
(* positions 1..n at one place.                                            *)
Divides(P, n) ==
  /\ \A k \in DOMAIN P : P[k] \in Seq(1..n)
  /\ \A p \in 1..n : \E k \in DOMAIN P : \E j \in DOMAIN P[k] : P[k][j] = p
  /\ \A k, l \in DOMAIN P : \A i \in DOMAIN P[k], j \in DOMAIN P[l] :
       P[k][i] = P[l][j] => k = l /\ i = j

LEMMA PlacesAre ==
  ASSUME NEW P
  PROVE  /\ \A k \in DOMAIN P : \A j \in DOMAIN P[k] :
              <<k, j>> \in Places(P) /\ IndexAt(P, <<k, j>>) = P[k][j]
         /\ \A a \in Places(P) : \E k \in DOMAIN P : \E j \in DOMAIN P[k] : a = <<k, j>>
BY DEF Places, IndexAt

LEMMA Covered ==
  ASSUME NEW n \in Nat, NEW P \in Seq(Seq(Nat))
  PROVE  /\ scan_partition_covering(P, n) => Divides(P, n)
         /\ Divides(P, n) => scan_partition_covering(P, n)
<1>. DEFINE A == Places(P)
            N == 1..n
            at == [a \in A |-> IndexAt(P, a)]
<1>1. /\ \A k \in DOMAIN P : \A j \in DOMAIN P[k] :
              <<k, j>> \in A /\ IndexAt(P, <<k, j>>) = P[k][j]
      /\ \A a \in A : \E k \in DOMAIN P : \E j \in DOMAIN P[k] : a = <<k, j>>
  BY PlacesAre
<1>2. IsFiniteSet(N) /\ Cardinality(N) = n
  BY FS_Interval
<1>3. \A k \in DOMAIN P : P[k] \in Seq(Nat)
  OBVIOUS
<1>. HIDE DEF A
<1>4. ASSUME scan_partition_covering(P, n) PROVE Divides(P, n)
  <2>1. /\ \A a \in A : IndexAt(P, a) \in N
        /\ \A a, b \in A : IndexAt(P, a) = IndexAt(P, b) => a = b
        /\ Cardinality(A) = n
    BY <1>4 DEF scan_partition_covering, A
  <2>2. at \in Injection(A, N)
    BY <2>1 DEF Injection, IsInjective
  <2>3. at \in Surjection(A, N)
    BY <1>2, <2>1, <2>2, FS_Injection
  <2>4. ASSUME NEW k \in DOMAIN P PROVE P[k] \in Seq(N)
    <3>1. ASSUME NEW j \in DOMAIN P[k] PROVE P[k][j] \in N
      <4>1. <<k, j>> \in A /\ IndexAt(P, <<k, j>>) = P[k][j]
        BY <1>1
      <4>. HIDE DEF N
      <4>. QED BY <2>1, <4>1
    <3>2. Len(P[k]) \in Nat /\ P[k] = [j \in 1..Len(P[k]) |-> P[k][j]]
      BY <1>3
    <3>3. \A j \in 1..Len(P[k]) : P[k][j] \in N
      BY <3>1, <3>2
    <3>4. P[k] \in [1..Len(P[k]) -> N]
      BY <3>2, <3>3
    <3>5. P[k] \in UNION { [1..m -> N] : m \in Nat }
      BY <3>2, <3>4
    <3>. QED BY <3>5, SeqDef, Zenon
  <2>5. ASSUME NEW p \in N PROVE \E k \in DOMAIN P : \E j \in DOMAIN P[k] : P[k][j] = p
    <3>1. PICK a \in A : IndexAt(P, a) = p
      BY <2>3 DEF Surjection
    <3>. QED BY <1>1, <3>1
  <2>6. ASSUME NEW k \in DOMAIN P, NEW l \in DOMAIN P, NEW i \in DOMAIN P[k],
               NEW j \in DOMAIN P[l], P[k][i] = P[l][j]
        PROVE  k = l /\ i = j
    <3>1. PICK a \in A, b \in A : a = <<k, i>> /\ b = <<l, j>>
      BY <1>1
    <3>2. IndexAt(P, a) = IndexAt(P, b)
      BY <1>1, <2>6, <3>1
    <3>3. a = b
      BY <2>1, <3>2
    <3>. QED BY <3>1, <3>3
  <2>. QED BY <2>4, <2>5, <2>6 DEF Divides
<1>5. ASSUME Divides(P, n) PROVE scan_partition_covering(P, n)
  <2>1. \A a \in A : IndexAt(P, a) \in N
    <3>. SUFFICES ASSUME NEW a \in A PROVE IndexAt(P, a) \in N
      OBVIOUS
    <3>1. PICK k \in DOMAIN P : \E j \in DOMAIN P[k] : a = <<k, j>>
      BY <1>1
    <3>2. PICK j \in DOMAIN P[k] : a = <<k, j>>
      BY <3>1
    <3>3. P[k] \in Seq(N)
      BY <1>5 DEF Divides
    <3>. QED BY <1>1, <3>2, <3>3
  <2>2. ASSUME NEW a \in A, NEW b \in A, IndexAt(P, a) = IndexAt(P, b) PROVE a = b
    <3>1. PICK k \in DOMAIN P : \E i \in DOMAIN P[k] : a = <<k, i>>
      BY <1>1
    <3>2. PICK l \in DOMAIN P : \E j \in DOMAIN P[l] : b = <<l, j>>
      BY <1>1
    <3>3. PICK i \in DOMAIN P[k], j \in DOMAIN P[l] : a = <<k, i>> /\ b = <<l, j>>
      BY <3>1, <3>2
    <3>4. P[k][i] = P[l][j]
      BY <1>1, <2>2, <3>3
    <3>. QED BY <1>5, <3>3, <3>4 DEF Divides
  <2>3. \A p \in N : \E a \in A : IndexAt(P, a) = p
    <3>. SUFFICES ASSUME NEW p \in N PROVE \E a \in A : IndexAt(P, a) = p
      OBVIOUS
    <3>1. PICK k \in DOMAIN P : \E j \in DOMAIN P[k] : P[k][j] = p
      BY <1>5 DEF Divides
    <3>2. PICK j \in DOMAIN P[k] : P[k][j] = p
      BY <3>1
    <3>. QED BY <1>1, <3>2
  <2>4. at \in Bijection(A, N)
    BY <2>1, <2>2, <2>3 DEF Bijection, Injection, Surjection, IsInjective
  <2>5. at \in Injection(A, N) /\ at \in Surjection(A, N)
    BY <2>4 DEF Bijection
  <2>6. Cardinality(A) = n
    BY <1>2, <2>5, FS_Injection
  <2>. QED BY <2>1, <2>2, <2>6 DEF scan_partition_covering, A
<1>. QED BY <1>4, <1>5

(* No part is longer than the history.                                     *)
LEMMA PartLength ==
  ASSUME NEW n \in Nat, NEW P, Divides(P, n), NEW k \in DOMAIN P
  PROVE  Len(P[k]) \in Nat /\ DOMAIN P[k] = 1..Len(P[k]) /\ Len(P[k]) <= n
<1>1. P[k] \in Seq(1..n)
  BY DEF Divides
<1>2. Len(P[k]) \in Nat /\ DOMAIN P[k] = 1..Len(P[k])
  BY <1>1
<1>3. P[k] \in Injection(DOMAIN P[k], 1..n)
  <2>1. P[k] \in [DOMAIN P[k] -> 1..n]
    BY <1>1
  <2>2. \A i, j \in DOMAIN P[k] : P[k][i] = P[k][j] => i = j
    BY DEF Divides
  <2>. QED BY <2>1, <2>2 DEF Injection, IsInjective
<1>4. /\ IsFiniteSet(1..n) /\ Cardinality(1..n) = n
      /\ Cardinality(DOMAIN P[k]) = Len(P[k])
  <2>1. \A m \in Nat : IsFiniteSet(1..m) /\ Cardinality(1..m) = m
    BY FS_Interval
  <2>. QED BY <1>2, <2>1
<1>. QED BY <1>2, <1>3, <1>4, FS_Injection

-----------------------------------------------------------------------------
(* The list of the events at positions x of a history, if x is ascending   *)
(* and splits no operation.                                                *)
Ascends(x) == \A i, j \in DOMAIN x : i < j <=> x[i] < x[j]

Closed(events, x) ==
  \A i \in DOMAIN x, p \in DOMAIN events :
    events[x[i]].id = events[p].id => \E j \in DOMAIN x : x[j] = p

LEMMA PartWellFormed ==
  ASSUME NEW h \in Seq(Event), assert_well_formed_events(h),
         NEW x \in Seq(DOMAIN h), Ascends(x), Closed(h, x)
  PROVE  LET events == [k \in DOMAIN x |-> h[x[k]]] IN
         events \in Seq(Event) /\ assert_well_formed_events(events)
<1>. DEFINE events == [k \in DOMAIN x |-> h[x[k]]]
<1>1. \A k \in DOMAIN x : x[k] \in DOMAIN h
  OBVIOUS
<1>2. events \in Seq(Event)
  <2>1. \A k \in DOMAIN x : h[x[k]] \in Event
    BY <1>1
  <2>. QED BY <2>1
<1>3. DOMAIN x \subseteq Nat /\ DOMAIN h \subseteq Nat /\ DOMAIN events = DOMAIN x
  OBVIOUS
<1>4. \A i, j \in DOMAIN x : x[i] = x[j] => i = j
  BY <1>1, <1>3 DEF Ascends
<1>5. \A kind : /\ \A k \in Positions(events, kind) : k \in DOMAIN x /\ x[k] \in Positions(h, kind)
                /\ \A k \in DOMAIN x : x[k] \in Positions(h, kind) => k \in Positions(events, kind)
  BY <1>1 DEF Positions
<1>6. \A k \in DOMAIN x : events[k] = h[x[k]]
  OBVIOUS
<1>. HIDE DEF events
<1>7. \A k \in DOMAIN events : Carried(events[k]) # NoValue
  BY <1>1, <1>3, <1>6 DEF assert_well_formed_events
<1>8. ASSUME NEW kind \in {"call", "return"}, NEW p \in Positions(events, kind),
             NEW q \in Positions(events, kind), events[p].id = events[q].id
      PROVE  p = q
  <2>1. /\ p \in DOMAIN x /\ q \in DOMAIN x
        /\ x[p] \in Positions(h, kind) /\ x[q] \in Positions(h, kind)
        /\ h[x[p]].id = h[x[q]].id
    BY <1>5, <1>6, <1>8
  <2>2. x[p] = x[q]
    BY <2>1 DEF assert_well_formed_events
  <2>. QED BY <1>4, <2>1, <2>2
<1>9. ASSUME NEW c \in Positions(events, "call")
      PROVE  \E r \in Positions(events, "return") : events[r].id = events[c].id /\ c < r
  <2>1. c \in DOMAIN x /\ x[c] \in Positions(h, "call")
    BY <1>5
  <2>2. PICK s \in Positions(h, "return") : h[s].id = h[x[c]].id /\ x[c] < s
    BY <2>1 DEF assert_well_formed_events
  <2>3. PICK r \in DOMAIN x : x[r] = s
    BY <2>1, <2>2 DEF Closed, Positions
  <2>4. r \in Positions(events, "return") /\ c < r
    BY <1>5, <2>1, <2>2, <2>3 DEF Ascends
  <2>. QED BY <1>6, <2>1, <2>2, <2>3, <2>4
<1>10. ASSUME NEW r \in Positions(events, "return")
       PROVE  \E c \in Positions(events, "call") : events[c].id = events[r].id
  <2>1. r \in DOMAIN x /\ x[r] \in Positions(h, "return")
    BY <1>5
  <2>2. PICK s \in Positions(h, "call") : h[s].id = h[x[r]].id
    BY <2>1 DEF assert_well_formed_events
  <2>3. PICK c \in DOMAIN x : x[c] = s
    BY <2>1, <2>2 DEF Closed, Positions
  <2>4. c \in Positions(events, "call")
    BY <1>5, <2>2, <2>3
  <2>. QED BY <1>6, <2>1, <2>2, <2>3, <2>4
<1>11. assert_well_formed_events(events)
  <2>1. \A same \in {Positions(events, "call"), Positions(events, "return")} :
          \A p, q \in same : events[p].id = events[q].id => p = q
    BY <1>8
  <2>. QED BY <1>7, <1>9, <1>10, <2>1 DEF assert_well_formed_events
<1>. QED BY <1>2, <1>11 DEF events
-----------------------------------------------------------------------------
(* The parts that are searched: the whole history is one.                  *)
TheParts == IF parts = NoPartition THEN << AllOf(history) >> ELSE parts

HistoryAsserted ==
  \/ form = "operations" /\ assert_well_formed(history)
  \/ form = "events" /\ assert_well_formed_events(history)

PartitionAsserted ==
  \/ form = "operations" /\ scan_partition_covering(parts, Len(history))
  \/ form = "events" /\ assert_partition_events_paired(parts, history)

ListOf(x) == IF form = "operations" THEN make_entries_from_indices(history, x)
             ELSE convert_entries_from_indices(history, x)

PcInv ==
  /\ pc \in {"assert_history", "partition", "assert_partition", "flatten", "search",
             "done", "panicked"}
  /\ verdict \in {"none", "ok", "illegal"} /\ (verdict # "none" <=> pc = "done")

InputInv ==
  /\ form \in {"operations", "events"}
  /\ form = "operations" => history \in OpHistories
  /\ form = "events" => history \in EventHistories
  /\ parts # NoPartition => \/ form = "operations" /\ parts \in partition(history)
                            \/ form = "events" /\ parts \in partition_events(history)

AssertedInv ==
  /\ pc \in {"assert_history", "partition"} => parts = NoPartition
  /\ pc = "assert_partition" => parts # NoPartition
  /\ pc \in {"partition", "assert_partition", "flatten", "search", "done"} => HistoryAsserted
  /\ pc \in {"flatten", "search", "done"} /\ parts # NoPartition => PartitionAsserted
  /\ pc = "panicked" => ~ HistoryAsserted \/ (parts # NoPartition /\ ~ PartitionAsserted)

ListsInv ==
  /\ ~ Built => lists = <<>>
  /\ Built => /\ DOMAIN lists = DOMAIN TheParts
              /\ \A k \in DOMAIN lists : lists[k] = ListOf(TheParts[k])

IInv == PcInv /\ InputInv /\ AssertedInv /\ ListsInv

LEMMA Whole ==
  ASSUME NEW h, Len(h) \in Nat, DOMAIN h = 1..Len(h)
  PROVE  /\ Divides(<< AllOf(h) >>, Len(h)) /\ << AllOf(h) >> \in Seq(Seq(Nat))
         /\ AllOf(h) \in Seq(DOMAIN h)
         /\ DOMAIN AllOf(h) = DOMAIN h /\ \A p \in DOMAIN h : AllOf(h)[p] = p
<1>1. DOMAIN AllOf(h) = 1..Len(h) /\ \A p \in 1..Len(h) : AllOf(h)[p] = p
  BY DEF AllOf
<1>2. AllOf(h) = [p \in 1..Len(h) |-> p]
  BY DEF AllOf
<1>3. AllOf(h) \in Seq(1..Len(h)) /\ AllOf(h) \in Seq(Nat)
  BY <1>2
<1>. HIDE DEF AllOf
<1>4. /\ DOMAIN << AllOf(h) >> = {1} /\ << AllOf(h) >>[1] = AllOf(h)
      /\ << AllOf(h) >> \in Seq(Seq(Nat))
  BY <1>3
<1>5. Divides(<< AllOf(h) >>, Len(h))
  BY <1>1, <1>3, <1>4 DEF Divides
<1>. QED BY <1>1, <1>3, <1>4, <1>5

LEMMA InitInv == Init => IInv
<1>. SUFFICES ASSUME Init PROVE IInv
  OBVIOUS
<1>. QED BY DEF Init, IInv, PcInv, InputInv, AssertedInv, ListsInv, Built

(* The list of a history that is left whole is that of all its positions.  *)
LEMMA WholeLists ==
  ASSUME parts = NoPartition, form \in {"operations", "events"},
         Len(history) \in Nat, DOMAIN history = 1..Len(history),
         history = [p \in DOMAIN history |-> history[p]]
  PROVE  ListOf(AllOf(history)) = IF form = "operations" THEN make_entries(history)
                                  ELSE convert_entries(renumber(history))
<1>1. [p \in DOMAIN AllOf(history) |-> history[AllOf(history)[p]]] = history
  BY Whole
<1>. QED BY <1>1 DEF ListOf, make_entries, convert_entries_from_indices

LEMMA StepInv == IInv /\ [Next]_vars => IInv'
<1>. SUFFICES ASSUME IInv, [Next]_vars PROVE IInv'
  OBVIOUS
<1>. USE DEF IInv
<1>1. CASE AssertHistory
  BY <1>1 DEF AssertHistory, PcInv, InputInv, AssertedInv, ListsInv, Built, HistoryAsserted
<1>2. CASE Partition
  <2>1. PcInv' /\ ListsInv'
    BY <1>2 DEF Partition, PcInv, ListsInv, Built
  <2>2. InputInv' /\ parts' # NoPartition
    BY <1>2, InputsAssumption DEF Partition, InputInv, IsAnswer
  <2>3. AssertedInv'
    BY <1>2, <2>2 DEF Partition, AssertedInv, HistoryAsserted
  <2>. QED BY <2>1, <2>2, <2>3
<1>3. CASE NotPartitioned
  BY <1>3 DEF NotPartitioned, PcInv, InputInv, AssertedInv, ListsInv, Built, HistoryAsserted
<1>4. CASE AssertPartition
  BY <1>4 DEF AssertPartition, PcInv, InputInv, AssertedInv, ListsInv, Built,
              HistoryAsserted, PartitionAsserted
<1>5. CASE FlattenWhole
  <2>1. PcInv' /\ InputInv' /\ AssertedInv'
    BY <1>5 DEF FlattenWhole, PcInv, InputInv, AssertedInv, HistoryAsserted
  <2>2. /\ parts = NoPartition /\ form \in {"operations", "events"}
        /\ UNCHANGED <<form, history, parts>>
        /\ lists' = << IF form = "operations" THEN make_entries(history)
                       ELSE convert_entries(renumber(history)) >>
    BY <1>5 DEF FlattenWhole, InputInv
  <2>3. /\ Len(history) \in Nat /\ DOMAIN history = 1..Len(history)
        /\ history = [p \in DOMAIN history |-> history[p]]
    <3>1. history \in Seq(Operation) \/ history \in Seq(Event)
      BY InputsAssumption DEF InputInv
    <3>. QED BY <3>1
  <2>4. lists' = << ListOf(AllOf(history)) >>
    BY <2>2, <2>3, WholeLists
  <2>5. /\ TheParts' = << AllOf(history) >>
        /\ \A x : ListOf(x)' = ListOf(x)
    BY <2>2 DEF TheParts, ListOf
  <2>6. Built'
    BY <1>5 DEF FlattenWhole, Built
  <2>7. DOMAIN lists' = {1} /\ lists'[1] = ListOf(AllOf(history))
    BY <2>4
  <2>8. DOMAIN TheParts' = {1} /\ TheParts'[1] = AllOf(history)
    BY <2>5
  <2>9. ListsInv'
    BY <2>5, <2>6, <2>7, <2>8 DEF ListsInv
  <2>. QED BY <2>1, <2>9
<1>6. CASE FlattenParts
  <2>1. PcInv' /\ InputInv' /\ AssertedInv'
    BY <1>6 DEF FlattenParts, PcInv, InputInv, AssertedInv, HistoryAsserted, PartitionAsserted
  <2>2. ListsInv'
    BY <1>6 DEF FlattenParts, ListsInv, Built, TheParts, ListOf
  <2>. QED BY <2>1, <2>2
<1>7. CASE Search
  <2>1. PcInv' /\ InputInv' /\ AssertedInv'
    BY <1>7 DEF Search, PcInv, InputInv, AssertedInv, HistoryAsserted, PartitionAsserted
  <2>2. ListsInv'
    BY <1>7 DEF Search, ListsInv, Built, TheParts, ListOf
  <2>. QED BY <2>1, <2>2
<1>8. CASE Stop \/ UNCHANGED vars
  BY <1>8 DEF Stop, vars, PcInv, InputInv, AssertedInv, ListsInv, Built, HistoryAsserted,
              PartitionAsserted, TheParts, ListOf
<1>. QED BY <1>1, <1>2, <1>3, <1>4, <1>5, <1>6, <1>7, <1>8 DEF Next
-----------------------------------------------------------------------------
(* What the lists are once they are built, whichever entry point was       *)
(* called.  Partitions of events have to be ascending.                     *)
AnswersAscend ==
  \A h \in EventHistories : \A answer \in partition_events(h) :
    \A k \in DOMAIN answer : \A i, j \in DOMAIN answer[k] : i < j => answer[k][i] < answer[k][j]

(* List k has m operations, each one of the history, with its own input    *)
(* and output, and ordered in real time as there.                          *)
ListIs(k, m, c, r) ==
  /\ EndsAt(lists[k], m, c, r) /\ m <= Len(history)
  /\ \A a \in 0..(m - 1) :
       /\ Origin(k, a) \in HistoryOps
       /\ lists[k][c[a]].value = InputOf(Origin(k, a))
       /\ lists[k][r[a]].value = OutputOf(Origin(k, a))
  /\ \A a, b \in 0..(m - 1) : r[a] < c[b] <=> HappensBefore(Origin(k, a), Origin(k, b))

OncePerList ==
  /\ \A i \in HistoryOps : \E k \in DOMAIN lists : \E a \in Ops(lists[k]) : Origin(k, a) = i
  /\ \A k, j \in DOMAIN lists : \A a \in Ops(lists[k]), b \in Ops(lists[j]) :
       Origin(k, a) = Origin(j, b) => k = j /\ a = b

ListsAre ==
  /\ \A k \in DOMAIN lists : \E m \in Nat : \E c, r : ListIs(k, m, c, r)
  /\ OncePerList

LEMMA PartsAre ==
  ASSUME IInv, Built
  PROVE  /\ Len(history) \in Nat /\ DOMAIN history = 1..Len(history)
         /\ Divides(TheParts, Len(history))
         /\ DOMAIN lists = DOMAIN TheParts
         /\ \A k \in DOMAIN lists : lists[k] = ListOf(TheParts[k]) /\ Indices(k) = TheParts[k]
<1>1. /\ history \in Seq(Operation) \/ history \in Seq(Event)
      /\ parts # NoPartition => parts \in Seq(Seq(Nat))
  BY InputsAssumption DEF IInv, InputInv, IsAnswer
<1>2. Len(history) \in Nat /\ DOMAIN history = 1..Len(history)
  BY <1>1
<1>3. DOMAIN lists = DOMAIN TheParts /\ \A k \in DOMAIN lists : lists[k] = ListOf(TheParts[k])
  BY DEF IInv, ListsInv
<1>4. Divides(TheParts, Len(history))
  <2>1. CASE parts = NoPartition
    BY <1>2, <2>1, Whole DEF TheParts
  <2>2. CASE parts # NoPartition
    <3>1. PartitionAsserted
      BY <2>2 DEF IInv, AssertedInv, Built
    <3>2. scan_partition_covering(parts, Len(history))
      BY <3>1 DEF PartitionAsserted, assert_partition_events_paired
    <3>. QED BY <1>1, <1>2, <2>2, <3>2, Covered DEF TheParts
  <2>. QED BY <2>1, <2>2
<1>5. \A k \in DOMAIN lists : Indices(k) = TheParts[k]
  <2>1. CASE parts = NoPartition
    <3>1. DOMAIN TheParts = {1} /\ TheParts[1] = AllOf(history)
      BY <2>1 DEF TheParts
    <3>. QED BY <1>3, <2>1, <3>1 DEF Indices
  <2>2. CASE parts # NoPartition
    BY <2>2 DEF Indices, TheParts
  <2>. QED BY <2>1, <2>2
<1>. QED BY <1>2, <1>3, <1>4, <1>5

(* The list of a part of a history of operations.                          *)
LEMMA OperationListOf ==
  ASSUME IInv, Built, form = "operations", NEW k \in DOMAIN lists
  PROVE  /\ \E c, r : ListIs(k, Len(TheParts[k]), c, r)
         /\ Len(TheParts[k]) \in Nat /\ DOMAIN TheParts[k] = 1..Len(TheParts[k])
         /\ Ops(lists[k]) = 0..(Len(TheParts[k]) - 1)
         /\ \A a : Origin(k, a) = TheParts[k][a + 1]
<1>. DEFINE n == Len(history)
            x == TheParts[k]
            m == Len(x)
<1>1. /\ n \in Nat /\ DOMAIN history = 1..n
      /\ Divides(TheParts, n)
      /\ DOMAIN lists = DOMAIN TheParts
      /\ \A j \in DOMAIN lists : lists[j] = ListOf(TheParts[j]) /\ Indices(j) = TheParts[j]
  BY PartsAre
<1>2. history \in Seq(Operation)
  BY InputsAssumption DEF IInv, InputInv
<1>3. assert_well_formed(history)
  BY DEF IInv, AssertedInv, Built, HistoryAsserted
<1>. HIDE DEF n
<1>4. m \in Nat /\ DOMAIN x = 1..m /\ m <= n
  BY <1>1, PartLength
<1>5. x \in Seq(DOMAIN history)
  BY <1>1 DEF Divides
<1>6. lists[k] = make_entries_from_indices(history, x)
  BY <1>1 DEF ListOf
<1>7. \A a : Origin(k, a) = x[a + 1]
  BY <1>1 DEF Origin
<1>. HIDE DEF x, m
<1>listed. PICK c, r : ListsThem(history, x, lists[k], c, r)
  BY <1>2, <1>3, <1>5, <1>6, OperationList
<1>8. /\ EndsAt(lists[k], Len(x), c, r)
      /\ \A a \in 0..(Len(x) - 1) : /\ lists[k][c[a]].value = history[x[a + 1]].input
                                    /\ lists[k][r[a]].value = history[x[a + 1]].output
      /\ \A a, b \in 0..(Len(x) - 1) :
           r[a] < c[b] <=> history[x[a + 1]].return_time < history[x[b + 1]].call
  BY <1>listed DEF ListsThem
<1>9. EndsAt(lists[k], m, c, r) /\ m <= n
  BY <1>4, <1>8 DEF m
<1>10. ASSUME NEW a \in 0..(m - 1)
      PROVE  /\ Origin(k, a) \in HistoryOps
             /\ lists[k][c[a]].value = InputOf(Origin(k, a))
             /\ lists[k][r[a]].value = OutputOf(Origin(k, a))
  <2>1. a + 1 \in DOMAIN x
    BY <1>4
  <2>2. x[a + 1] \in DOMAIN history
    BY <1>5, <2>1
  <2>. QED BY <1>7, <1>8, <2>2 DEF HistoryOps, InputOf, OutputOf, m
<1>11. \A a, b \in 0..(m - 1) : r[a] < c[b] <=> HappensBefore(Origin(k, a), Origin(k, b))
  BY <1>7, <1>8 DEF HappensBefore, m
<1>12. ListIs(k, m, c, r)
  BY <1>9, <1>10, <1>11 DEF ListIs, n
<1>13. Ops(lists[k]) = 0..(m - 1)
  BY <1>4, <1>9, ListFacts
<1>. QED BY <1>4, <1>7, <1>12, <1>13 DEF x, m

(* Of operations.                                                          *)
LEMMA OperationLists ==
  ASSUME IInv, Built, form = "operations"
  PROVE  ListsAre
<1>. DEFINE n == Len(history)
<1>1. /\ n \in Nat /\ DOMAIN history = 1..n
      /\ Divides(TheParts, n)
      /\ DOMAIN lists = DOMAIN TheParts
  BY PartsAre
<1>. HIDE DEF n
<1>4. ASSUME NEW k \in DOMAIN lists
      PROVE  /\ \E c, r : ListIs(k, Len(TheParts[k]), c, r)
             /\ Len(TheParts[k]) \in Nat /\ DOMAIN TheParts[k] = 1..Len(TheParts[k])
             /\ Ops(lists[k]) = 0..(Len(TheParts[k]) - 1)
             /\ \A a : Origin(k, a) = TheParts[k][a + 1]
  BY OperationListOf
<1>5. OncePerList
  <2>1. ASSUME NEW i \in HistoryOps
        PROVE  \E k \in DOMAIN lists : \E a \in Ops(lists[k]) : Origin(k, a) = i
    <3>1. i \in 1..n
      BY <1>1 DEF HistoryOps
    <3>2. PICK k \in DOMAIN TheParts : \E j \in DOMAIN TheParts[k] : TheParts[k][j] = i
      BY <1>1, <3>1 DEF Divides
    <3>3. PICK j \in DOMAIN TheParts[k] : TheParts[k][j] = i
      BY <3>2
    <3>4. k \in DOMAIN lists
      BY <1>1
    <3>5. j - 1 \in Ops(lists[k]) /\ (j - 1) + 1 = j
      BY <1>4, <3>3, <3>4
    <3>. QED BY <1>4, <3>3, <3>4, <3>5
  <2>2. ASSUME NEW k \in DOMAIN lists, NEW j \in DOMAIN lists,
               NEW a \in Ops(lists[k]), NEW b \in Ops(lists[j]), Origin(k, a) = Origin(j, b)
        PROVE  k = j /\ a = b
    <3>1. a + 1 \in DOMAIN TheParts[k] /\ b + 1 \in DOMAIN TheParts[j] /\ a \in Nat /\ b \in Nat
      BY <1>4
    <3>2. TheParts[k][a + 1] = TheParts[j][b + 1]
      BY <1>4, <2>2
    <3>3. k = j /\ a + 1 = b + 1
      BY <1>1, <3>1, <3>2 DEF Divides
    <3>. QED BY <3>1, <3>3
  <2>. QED BY <2>1, <2>2 DEF OncePerList
<1>. QED BY <1>4, <1>5 DEF ListsAre

(* The events of an operation of the history.                              *)
LEMMA EventsOf ==
  ASSUME form = "events", NEW c, NEW r, PairedAt(history, c, r)
  PROVE  /\ HistoryOps = EventIds(history)
         /\ \A i \in EventIds(history) : EventOf(i, "call") = c[i] /\ EventOf(i, "return") = r[i]
<1>1. HistoryOps = EventIds(history)
  BY DEF HistoryOps, EventIds
<1>2. ASSUME NEW i \in EventIds(history)
      PROVE  EventOf(i, "call") = c[i] /\ EventOf(i, "return") = r[i]
  <2>1. \A p \in DOMAIN history :
          /\ history[p].id = i /\ history[p].kind = "call" <=> p = c[i]
          /\ history[p].id = i /\ history[p].kind = "return" <=> p = r[i]
    BY DEF PairedAt
  <2>2. c[i] \in DOMAIN history /\ r[i] \in DOMAIN history
    BY DEF PairedAt
  <2>. QED BY <2>1, <2>2 DEF EventOf
<1>. QED BY <1>1, <1>2

(* No part splits an operation.                                            *)
LEMMA PartsClosed ==
  ASSUME IInv, Built, form = "events", NEW c, NEW r, PairedAt(history, c, r),
         NEW k \in DOMAIN lists
  PROVE  Closed(history, TheParts[k])
<1>. DEFINE n == Len(history)
            P == TheParts
<1>1. /\ n \in Nat /\ DOMAIN history = 1..n /\ Divides(P, n) /\ DOMAIN lists = DOMAIN P
  BY PartsAre
<1>. SUFFICES ASSUME NEW i \in DOMAIN P[k], NEW p \in DOMAIN history,
                     history[P[k][i]].id = history[p].id
              PROVE  \E j \in DOMAIN P[k] : P[k][j] = p
  BY DEF Closed
<1>2. P[k][i] \in DOMAIN history
  <2>1. P[k] \in Seq(1..n)
    BY <1>1 DEF Divides
  <2>. QED BY <1>1, <2>1
<1>3. CASE parts = NoPartition
  <2>1. P[k] = AllOf(history)
    BY <1>1, <1>3 DEF TheParts
  <2>. QED BY <1>1, <2>1, Whole
<1>4. CASE parts # NoPartition
  <2>1. P = parts /\ assert_partition_events_paired(parts, history)
    BY <1>4 DEF TheParts, IInv, AssertedInv, Built, PartitionAsserted
  <2>2. \A q \in DOMAIN history : \A l \in DOMAIN P : \A j \in DOMAIN P[l] :
          P[l][j] = q => Part(P, q) = l
    <3>. SUFFICES ASSUME NEW q \in DOMAIN history, NEW l \in DOMAIN P, NEW j \in DOMAIN P[l],
                         P[l][j] = q
                  PROVE  Part(P, q) = l
      OBVIOUS
    <3>1. q \in Range(P[l])
      BY DEF Range
    <3>2. ASSUME NEW s \in DOMAIN P, q \in Range(P[s]) PROVE s = l
      <4>1. PICK t \in DOMAIN P[s] : P[s][t] = q
        BY <3>2 DEF Range
      <4>. QED BY <1>1, <4>1 DEF Divides
    <3>. QED BY <3>1, <3>2 DEF Part
  <2>3. Part(P, P[k][i]) = k
    BY <1>1, <1>2, <2>2
  <2>4. PICK l \in DOMAIN P : \E j \in DOMAIN P[l] : P[l][j] = p
    BY <1>1 DEF Divides
  <2>5. Part(P, p) = l
    BY <2>2, <2>4
  <2>6. Part(P, p) = Part(P, P[k][i])
    <3>. DEFINE e == history[p].id
    <3>1. e \in EventIds(history)
      BY DEF EventIds
    <3>2. /\ p \in {c[e], r[e]} /\ P[k][i] \in {c[e], r[e]}
          /\ c[e] \in DOMAIN history /\ r[e] \in DOMAIN history /\ c[e] < r[e]
          /\ history[c[e]].kind = "call" /\ history[r[e]].kind = "return"
          /\ history[c[e]].id = e /\ history[r[e]].id = e
      BY <1>2, <3>1 DEF PairedAt
    <3>3. Part(P, c[e]) = Part(P, r[e])
      BY <2>1, <3>2 DEF assert_partition_events_paired, Positions
    <3>. QED BY <3>2, <3>3
  <2>. QED BY <2>3, <2>4, <2>5, <2>6
<1>. QED BY <1>3, <1>4

LEMMA PartsAscend ==
  ASSUME IInv, Built, AnswersAscend, form = "events", NEW k \in DOMAIN lists
  PROVE  Ascends(TheParts[k])
<1>. DEFINE x == TheParts[k]
<1>1. /\ Len(history) \in Nat /\ DOMAIN history = 1..Len(history)
      /\ Divides(TheParts, Len(history)) /\ DOMAIN lists = DOMAIN TheParts
  BY PartsAre
<1>2. x \in Seq(1..Len(history))
  BY <1>1 DEF Divides
<1>3. \A i, j \in DOMAIN x : i < j => x[i] < x[j]
  <2>1. CASE parts = NoPartition
    <3>1. x = AllOf(history)
      BY <1>1, <2>1 DEF TheParts
    <3>. HIDE DEF x
    <3>. QED BY <1>1, <3>1, Whole
  <2>2. CASE parts # NoPartition
    <3>1. TheParts = parts /\ history \in EventHistories /\ parts \in partition_events(history)
      BY <2>2 DEF TheParts, IInv, InputInv
    <3>. QED BY <1>1, <3>1 DEF AnswersAscend
  <2>. QED BY <2>1, <2>2
<1>4. \A i \in DOMAIN x : i \in Nat /\ x[i] \in Nat
  BY <1>2
<1>. HIDE DEF x
<1>5. \A i, j \in DOMAIN x : i < j <=> x[i] < x[j]
  BY <1>3, <1>4
<1>. QED BY <1>5 DEF Ascends, x

LEMMA EventListOf ==
  ASSUME IInv, Built, AnswersAscend, form = "events",
         NEW hc, NEW hr, PairedAt(history, hc, hr), NEW k \in DOMAIN lists
  PROVE  /\ \E m \in Nat : \E c, r : ListIs(k, m, c, r)
         /\ \A p \in DOMAIN TheParts[k] : lists[k][p].id \in Ops(lists[k])
         /\ \A p \in DOMAIN TheParts[k] : Origin(k, lists[k][p].id) = history[TheParts[k][p]].id
         /\ \A a \in Ops(lists[k]) :
              /\ CallOf(lists[k], a) \in DOMAIN TheParts[k]
              /\ lists[k][CallOf(lists[k], a)].id = a
              /\ TheParts[k][CallOf(lists[k], a)] = EventOf(Origin(k, a), "call")
<1>. DEFINE n == Len(history)
            x == TheParts[k]
            L == lists[k]
            e == [j \in DOMAIN x |-> history[x[j]]]
<1>1. /\ n \in Nat /\ DOMAIN history = 1..n /\ Divides(TheParts, n)
      /\ DOMAIN lists = DOMAIN TheParts /\ L = ListOf(x) /\ Indices(k) = x
  BY PartsAre
<1>2. history \in Seq(Event) /\ assert_well_formed_events(history)
  BY InputsAssumption DEF IInv, InputInv, AssertedInv, Built, HistoryAsserted
<1>3. x \in Seq(DOMAIN history) /\ Len(x) \in Nat /\ DOMAIN x = 1..Len(x) /\ Len(x) <= n
  <2>1. x \in Seq(1..n)
    BY <1>1 DEF Divides
  <2>2. Len(x) \in Nat /\ DOMAIN x = 1..Len(x) /\ Len(x) <= n
    BY <1>1, PartLength
  <2>. QED BY <1>1, <2>1, <2>2
<1>4. Ascends(x) /\ Closed(history, x)
  BY PartsAscend, PartsClosed
<1>5. L = convert_entries(renumber(e))
  BY <1>1 DEF ListOf, convert_entries_from_indices
<1>. HIDE DEF x, L, n
<1>6. e \in Seq(Event) /\ assert_well_formed_events(e)
  BY <1>2, <1>3, <1>4, PartWellFormed
<1>7. \A p \in DOMAIN x : e[p] = history[x[p]] /\ x[p] \in DOMAIN history
  BY <1>3
<1>8. DOMAIN e = DOMAIN x
  OBVIOUS
<1>. HIDE DEF e
<1>9. PICK m \in Nat : \E c, r :
        /\ EndsAt(L, m, c, r) /\ DOMAIN L = DOMAIN e
        /\ \A p \in DOMAIN e : L[p].kind = e[p].kind /\ L[p].value = Carried(e[p])
        /\ \A p, q \in DOMAIN e : L[p].id = L[q].id <=> e[p].id = e[q].id
  BY <1>5, <1>6, EventList
<1>10. PICK c, r :
        /\ EndsAt(L, m, c, r) /\ DOMAIN L = DOMAIN e
        /\ \A p \in DOMAIN e : L[p].kind = e[p].kind /\ L[p].value = Carried(e[p])
        /\ \A p, q \in DOMAIN e : L[p].id = L[q].id <=> e[p].id = e[q].id
  BY <1>9
<1>11. /\ Ops(L) = 0..(m - 1)
       /\ \A a \in 0..(m - 1) : CallOf(L, a) = c[a] /\ ReturnOf(L, a) = r[a]
  <2>1. EndsAt(L, m, c, r)
    BY <1>10
  <2>2. /\ WellFormed(L)
        /\ Ops(L) = 0..(m - 1) /\ Ops(L) = 0..(Len(L) \div 2 - 1)
        /\ \A a \in 0..(m - 1) : CallOf(L, a) = c[a] /\ ReturnOf(L, a) = r[a]
        /\ \A p \in DOMAIN L : \/ IsCall(L, p) /\ L[p].value \in Input
                               \/ IsReturn(L, p) /\ L[p].value \in Output
    BY <2>1, ListFacts, Zenon
  <2>. QED BY <2>2
<1>12. /\ Len(L) = 2 * m /\ DOMAIN L = 1..(2 * m)
       /\ \A p \in DOMAIN L : L[p].id \in 0..(m - 1)
       /\ \A a \in 0..(m - 1) :
            /\ c[a] \in DOMAIN L /\ r[a] \in DOMAIN L
            /\ L[c[a]].kind = "call" /\ L[r[a]].kind = "return"
            /\ L[c[a]].id = a /\ L[r[a]].id = a
  BY <1>10 DEF EndsAt, IsCall, IsReturn
<1>13. m <= n
  <2>1. 1..(2 * m) = 1..Len(x)
    BY <1>3, <1>8, <1>10, <1>12
  <2>2. \A i, j \in Nat : 1..i = 1..j => i = j
    <3>1. \A i \in Nat : Cardinality(1..i) = i
      BY FS_Interval
    <3>. QED BY <3>1
  <2>3. 2 * m \in Nat /\ Len(x) \in Nat
    BY <1>3
  <2>4. 2 * m = Len(x)
    BY <2>1, <2>2, <2>3, Zenon
  <2>. QED BY <1>1, <1>3, <2>4
<1>14. \A p, q \in DOMAIN x : L[p].id = L[q].id <=> history[x[p]].id = history[x[q]].id
  BY <1>7, <1>8, <1>10
<1>15. \A a \in Ops(L) : Origin(k, a) = history[x[c[a]]].id
  BY <1>1, <1>11 DEF Origin, L
<1>16. ASSUME NEW a \in 0..(m - 1)
       PROVE  /\ Origin(k, a) \in HistoryOps
              /\ c[a] \in DOMAIN x /\ r[a] \in DOMAIN x
              /\ x[c[a]] = EventOf(Origin(k, a), "call")
              /\ x[r[a]] = EventOf(Origin(k, a), "return")
              /\ L[c[a]].value = InputOf(Origin(k, a))
              /\ L[r[a]].value = OutputOf(Origin(k, a))
  <2>. DEFINE i == Origin(k, a)
  <2>1. c[a] \in DOMAIN x /\ r[a] \in DOMAIN x
    BY <1>8, <1>10, <1>12
  <2>2. i = history[x[c[a]]].id /\ i = history[x[r[a]]].id
    BY <1>11, <1>12, <1>14, <1>15, <2>1
  <2>3. history[x[c[a]]].kind = "call" /\ history[x[r[a]]].kind = "return"
    BY <1>7, <1>8, <1>10, <1>12, <2>1
  <2>4. i \in EventIds(history) /\ i \in HistoryOps
    BY <1>7, <2>1, <2>2, EventsOf DEF EventIds
  <2>. HIDE DEF i
  <2>5. x[c[a]] = hc[i] /\ x[r[a]] = hr[i]
    <3>1. /\ history[hc[i]].kind = "call" /\ history[hr[i]].kind = "return"
          /\ \A p \in DOMAIN history : history[p].id = i <=> p \in {hc[i], hr[i]}
      BY <2>4 DEF PairedAt
    <3>2. x[c[a]] \in {hc[i], hr[i]} /\ x[r[a]] \in {hc[i], hr[i]}
      BY <1>7, <2>1, <2>2, <3>1
    <3>. QED BY <2>3, <3>1, <3>2
  <2>6. x[c[a]] = EventOf(i, "call") /\ x[r[a]] = EventOf(i, "return")
    BY <2>4, <2>5, EventsOf
  <2>7. L[c[a]].value = history[x[c[a]]].input /\ L[r[a]].value = history[x[r[a]]].output
    BY <1>7, <1>8, <1>10, <2>1, <2>3 DEF Carried
  <2>8. L[c[a]].value = InputOf(i) /\ L[r[a]].value = OutputOf(i)
    BY <2>6, <2>7 DEF InputOf, OutputOf
  <2>. QED BY <2>1, <2>4, <2>6, <2>8 DEF i
<1>17. \A a, b \in 0..(m - 1) : r[a] < c[b] <=> HappensBefore(Origin(k, a), Origin(k, b))
  BY <1>4, <1>16 DEF HappensBefore, Ascends
<1>18. ListIs(k, m, c, r)
  BY <1>10, <1>13, <1>16, <1>17 DEF ListIs, L, n
<1>19. \A p \in DOMAIN x : L[p].id \in Ops(L) /\ Origin(k, L[p].id) = history[x[p]].id
  <2>. SUFFICES ASSUME NEW p \in DOMAIN x
                PROVE  L[p].id \in Ops(L) /\ Origin(k, L[p].id) = history[x[p]].id
    OBVIOUS
  <2>1. L[p].id \in 0..(m - 1)
    BY <1>8, <1>10, <1>12
  <2>2. c[L[p].id] \in DOMAIN x /\ L[c[L[p].id]].id = L[p].id
    BY <1>12, <1>16, <2>1
  <2>. QED BY <1>11, <1>14, <1>15, <2>1, <2>2
<1>20. \A a \in Ops(L) : /\ CallOf(L, a) \in DOMAIN x /\ L[CallOf(L, a)].id = a
                         /\ x[CallOf(L, a)] = EventOf(Origin(k, a), "call")
  BY <1>11, <1>12, <1>16
<1>. QED BY <1>18, <1>19, <1>20 DEF x, L

LEMMA EventLists ==
  ASSUME IInv, Built, AnswersAscend, form = "events"
  PROVE  ListsAre
<1>1. /\ Len(history) \in Nat /\ DOMAIN history = 1..Len(history)
      /\ Divides(TheParts, Len(history)) /\ DOMAIN lists = DOMAIN TheParts
  BY PartsAre
<1>2. history \in Seq(Event) /\ assert_well_formed_events(history)
  BY InputsAssumption DEF IInv, InputInv, AssertedInv, Built, HistoryAsserted
<1>3. PICK hc, hr : PairedAt(history, hc, hr)
  BY <1>2, EventPairs
<1>4. \A k \in DOMAIN lists : \E m \in Nat : \E c, r : ListIs(k, m, c, r)
  BY <1>3, EventListOf
<1>5. ASSUME NEW i \in HistoryOps
      PROVE  \E k \in DOMAIN lists : \E a \in Ops(lists[k]) : Origin(k, a) = i
  <2>1. PICK p \in DOMAIN history : history[p].id = i
    BY DEF HistoryOps
  <2>2. PICK k \in DOMAIN TheParts : \E j \in DOMAIN TheParts[k] : TheParts[k][j] = p
    BY <1>1 DEF Divides
  <2>3. PICK j \in DOMAIN TheParts[k] : TheParts[k][j] = p
    BY <2>2
  <2>4. lists[k][j].id \in Ops(lists[k]) /\ Origin(k, lists[k][j].id) = i
    BY <1>1, <1>3, <2>1, <2>3, EventListOf
  <2>. QED BY <1>1, <2>4
<1>6. ASSUME NEW k \in DOMAIN lists, NEW j \in DOMAIN lists,
             NEW a \in Ops(lists[k]), NEW b \in Ops(lists[j]), Origin(k, a) = Origin(j, b)
      PROVE  k = j /\ a = b
  <2>1. /\ CallOf(lists[k], a) \in DOMAIN TheParts[k] /\ lists[k][CallOf(lists[k], a)].id = a
        /\ TheParts[k][CallOf(lists[k], a)] = EventOf(Origin(k, a), "call")
    BY <1>3, EventListOf
  <2>2. /\ CallOf(lists[j], b) \in DOMAIN TheParts[j] /\ lists[j][CallOf(lists[j], b)].id = b
        /\ TheParts[j][CallOf(lists[j], b)] = EventOf(Origin(j, b), "call")
    BY <1>3, EventListOf
  <2>3. k = j /\ CallOf(lists[k], a) = CallOf(lists[j], b)
    BY <1>1, <1>6, <2>1, <2>2 DEF Divides
  <2>. QED BY <2>1, <2>2, <2>3
<1>. QED BY <1>4, <1>5, <1>6 DEF ListsAre, OncePerList
-----------------------------------------------------------------------------
LEMMA ListsBuilt ==
  ASSUME IInv, AnswersAscend, Built
  PROVE  /\ OncePerList
         /\ \A k \in DOMAIN lists : \E m \in Nat : \E c, r :
              /\ ListIs(k, m, c, r) /\ EndsAt(lists[k], m, c, r)
              /\ WellFormed(lists[k]) /\ Ops(lists[k]) = 0..(Len(lists[k]) \div 2 - 1)
              /\ Ops(lists[k]) = 0..(m - 1)
              /\ \A a \in 0..(m - 1) : CallOf(lists[k], a) = c[a] /\ ReturnOf(lists[k], a) = r[a]
              /\ \A p \in DOMAIN lists[k] :
                   \/ IsCall(lists[k], p) /\ lists[k][p].value \in Input
                   \/ IsReturn(lists[k], p) /\ lists[k][p].value \in Output
<1>1. ListsAre
  <2>1. form \in {"operations", "events"}
    BY DEF IInv, InputInv
  <2>. QED BY <2>1, OperationLists, EventLists
<1>2. ASSUME NEW k \in DOMAIN lists
      PROVE  \E m \in Nat : \E c, r :
               /\ ListIs(k, m, c, r) /\ EndsAt(lists[k], m, c, r)
               /\ WellFormed(lists[k]) /\ Ops(lists[k]) = 0..(Len(lists[k]) \div 2 - 1)
               /\ Ops(lists[k]) = 0..(m - 1)
               /\ \A a \in 0..(m - 1) : CallOf(lists[k], a) = c[a] /\ ReturnOf(lists[k], a) = r[a]
               /\ \A p \in DOMAIN lists[k] :
                    \/ IsCall(lists[k], p) /\ lists[k][p].value \in Input
                    \/ IsReturn(lists[k], p) /\ lists[k][p].value \in Output
  <2>1. PICK m \in Nat : \E c, r : ListIs(k, m, c, r)
    BY <1>1 DEF ListsAre
  <2>2. PICK c, r : ListIs(k, m, c, r)
    BY <2>1
  <2>3. EndsAt(lists[k], m, c, r)
    BY <2>2 DEF ListIs
  <2>4. /\ WellFormed(lists[k])
        /\ Ops(lists[k]) = 0..(m - 1) /\ Ops(lists[k]) = 0..(Len(lists[k]) \div 2 - 1)
        /\ \A a \in 0..(m - 1) : CallOf(lists[k], a) = c[a] /\ ReturnOf(lists[k], a) = r[a]
        /\ \A p \in DOMAIN lists[k] :
             \/ IsCall(lists[k], p) /\ lists[k][p].value \in Input
             \/ IsReturn(lists[k], p) /\ lists[k][p].value \in Output
    BY <2>3, ListFacts, Zenon
  <2>. QED BY <2>2, <2>3, <2>4
<1>. QED BY <1>1, <1>2 DEF ListsAre

LEMMA InvTypes == ASSUME IInv, AnswersAscend PROVE TypeOK
<1>1. PcInv /\ form \in {"operations", "events"}
  BY DEF IInv, InputInv
<1>2. ASSUME NEW k \in DOMAIN lists, NEW p \in DOMAIN lists[k]
      PROVE  /\ lists[k][p].id \in 0..(Len(history) - 1)
             /\ \/ IsCall(lists[k], p) /\ lists[k][p].value \in Input
                \/ IsReturn(lists[k], p) /\ lists[k][p].value \in Output
  <2>1. Built
    BY DEF IInv, ListsInv
  <2>2. PICK m \in Nat : \E c, r :
          /\ ListIs(k, m, c, r) /\ EndsAt(lists[k], m, c, r)
          /\ \/ IsCall(lists[k], p) /\ lists[k][p].value \in Input
             \/ IsReturn(lists[k], p) /\ lists[k][p].value \in Output
    BY <2>1, ListsBuilt
  <2>3. lists[k][p].id \in 0..(m - 1) /\ m <= Len(history) /\ Len(history) \in Nat
    BY <2>1, <2>2, PartsAre DEF ListIs, EndsAt
  <2>. QED BY <2>2, <2>3
<1>. QED BY <1>1, <1>2 DEF TypeOK, PcInv

LEMMA InvLists == ASSUME IInv, AnswersAscend PROVE ListsWellFormed
BY ListsBuilt DEF ListsWellFormed

LEMMA InvRealTime == ASSUME IInv, AnswersAscend PROVE RealTimeKept
<1>. SUFFICES ASSUME Built, NEW k \in DOMAIN lists, NEW a \in Ops(lists[k]), NEW b \in Ops(lists[k])
              PROVE  Precedes(lists[k], a, b) <=> HappensBefore(Origin(k, a), Origin(k, b))
  BY DEF RealTimeKept
<1>1. PICK m \in Nat : \E c, r :
        /\ ListIs(k, m, c, r) /\ Ops(lists[k]) = 0..(m - 1)
        /\ \A s \in 0..(m - 1) : CallOf(lists[k], s) = c[s] /\ ReturnOf(lists[k], s) = r[s]
  BY ListsBuilt
<1>2. PICK c, r :
        /\ ListIs(k, m, c, r) /\ Ops(lists[k]) = 0..(m - 1)
        /\ \A s \in 0..(m - 1) : CallOf(lists[k], s) = c[s] /\ ReturnOf(lists[k], s) = r[s]
  BY <1>1
<1>3. /\ ReturnOf(lists[k], a) = r[a] /\ CallOf(lists[k], b) = c[b]
      /\ r[a] < c[b] <=> HappensBefore(Origin(k, a), Origin(k, b))
  BY <1>2 DEF ListIs
<1>. QED BY <1>3 DEF Precedes

LEMMA InvOnce == ASSUME IInv, AnswersAscend PROVE EverythingSearchedOnce
<1>. SUFFICES ASSUME Built, NEW i \in HistoryOps
              PROVE  \E k \in DOMAIN lists : \E a \in Ops(lists[k]) :
                       /\ Origin(k, a) = i
                       /\ lists[k][CallOf(lists[k], a)].value = InputOf(i)
                       /\ lists[k][ReturnOf(lists[k], a)].value = OutputOf(i)
                       /\ \A j \in DOMAIN lists : \A b \in Ops(lists[j]) :
                            Origin(j, b) = i => j = k /\ b = a
  BY DEF EverythingSearchedOnce
<1>1. PICK k \in DOMAIN lists : \E a \in Ops(lists[k]) : Origin(k, a) = i
  BY ListsBuilt DEF OncePerList
<1>2. PICK a \in Ops(lists[k]) : Origin(k, a) = i
  BY <1>1
<1>3. \A j \in DOMAIN lists : \A b \in Ops(lists[j]) : Origin(j, b) = i => j = k /\ b = a
  BY <1>2, ListsBuilt DEF OncePerList
<1>4. PICK m \in Nat : \E c, r :
        /\ ListIs(k, m, c, r) /\ Ops(lists[k]) = 0..(m - 1)
        /\ \A s \in 0..(m - 1) : CallOf(lists[k], s) = c[s] /\ ReturnOf(lists[k], s) = r[s]
  BY ListsBuilt
<1>5. PICK c, r :
        /\ ListIs(k, m, c, r) /\ Ops(lists[k]) = 0..(m - 1)
        /\ \A s \in 0..(m - 1) : CallOf(lists[k], s) = c[s] /\ ReturnOf(lists[k], s) = r[s]
  BY <1>4
<1>6. /\ CallOf(lists[k], a) = c[a] /\ ReturnOf(lists[k], a) = r[a]
      /\ lists[k][c[a]].value = InputOf(i) /\ lists[k][r[a]].value = OutputOf(i)
  BY <1>2, <1>5 DEF ListIs
<1>. QED BY <1>2, <1>3, <1>6

(* What the history has to be, the assertion lets through.                 *)
LEMMA WellFormedPasses == ASSUME IInv, HistoryWellFormed PROVE HistoryAsserted
<1>1. CASE form = "operations"
  BY <1>1 DEF HistoryWellFormed, HistoryOps, HistoryAsserted, assert_well_formed
<1>2. CASE form = "events"
  <2>1. history \in Seq(Event) /\ DOMAIN history \subseteq Nat
    <3>1. history \in Seq(Event)
      BY <1>2, InputsAssumption DEF IInv, InputInv
    <3>. QED BY <3>1
  <2>2. \A p \in DOMAIN history : \E c, r \in DOMAIN history :
          /\ c < r
          /\ \A q \in DOMAIN history : history[q].id = history[p].id <=> q \in {c, r}
          /\ history[c].kind = "call" /\ history[c].input \in Input
          /\ history[r].kind = "return" /\ history[r].output \in Output
    <3>. SUFFICES ASSUME NEW p \in DOMAIN history
                  PROVE  \E c, r \in DOMAIN history :
                           /\ c < r
                           /\ \A q \in DOMAIN history : history[q].id = history[p].id <=> q \in {c, r}
                           /\ history[c].kind = "call" /\ history[c].input \in Input
                           /\ history[r].kind = "return" /\ history[r].output \in Output
      OBVIOUS
    <3>1. history[p].id \in HistoryOps
      BY <1>2 DEF HistoryOps
    <3>2. PICK c, r \in DOMAIN history :
            /\ c < r
            /\ { q \in DOMAIN history : history[q].id = history[p].id } = {c, r}
            /\ history[c].kind = "call" /\ history[c].input \in Input
            /\ history[r].kind = "return" /\ history[r].output \in Output
      BY <1>2, <3>1 DEF HistoryWellFormed
    <3>3. \A q \in DOMAIN history : history[q].id = history[p].id <=> q \in {c, r}
      BY <3>2
    <3>. QED BY <3>2, <3>3
  <2>3. ASSUME NEW p \in DOMAIN history PROVE Carried(history[p]) # NoValue
    <3>1. PICK c, r \in DOMAIN history :
            /\ p \in {c, r}
            /\ history[c].kind = "call" /\ history[c].input \in Input
            /\ history[r].kind = "return" /\ history[r].output \in Output
      BY <2>2
    <3>. QED BY <3>1, InputsAssumption DEF Carried
  <2>4. ASSUME NEW kind \in {"call", "return"}, NEW p \in Positions(history, kind),
               NEW q \in Positions(history, kind), history[p].id = history[q].id
        PROVE  p = q
    <3>1. p \in DOMAIN history /\ q \in DOMAIN history
          /\ history[p].kind = kind /\ history[q].kind = kind
      BY DEF Positions
    <3>2. PICK c, r \in DOMAIN history :
            /\ p \in {c, r} /\ q \in {c, r}
            /\ history[c].kind = "call" /\ history[r].kind = "return"
      BY <2>2, <2>4, <3>1
    <3>. QED BY <3>1, <3>2
  <2>5. ASSUME NEW p \in DOMAIN history
        PROVE  \E c \in Positions(history, "call"), r \in Positions(history, "return") :
                 /\ history[c].id = history[p].id /\ history[r].id = history[p].id
                 /\ c < r /\ p \in {c, r}
    BY <2>2 DEF Positions
  <2>6. ASSUME NEW c \in Positions(history, "call")
        PROVE  \E r \in Positions(history, "return") : history[r].id = history[c].id /\ c < r
    <3>1. c \in DOMAIN history /\ history[c].kind = "call"
      BY DEF Positions
    <3>2. PICK d \in Positions(history, "call"), r \in Positions(history, "return") :
            /\ history[d].id = history[c].id /\ history[r].id = history[c].id /\ d < r
      BY <2>5, <3>1
    <3>3. d = c
      BY <2>4, <3>2
    <3>. QED BY <3>2, <3>3
  <2>7. ASSUME NEW r \in Positions(history, "return")
        PROVE  \E c \in Positions(history, "call") : history[c].id = history[r].id
    BY <2>5 DEF Positions
  <2>8. \A same \in {Positions(history, "call"), Positions(history, "return")} :
          \A p, q \in same : history[p].id = history[q].id => p = q
    BY <2>4
  <2>9. assert_well_formed_events(history)
    BY <2>3, <2>6, <2>7, <2>8 DEF assert_well_formed_events
  <2>. QED BY <1>2, <2>9 DEF HistoryAsserted
<1>. QED BY <1>1, <1>2 DEF IInv, InputInv

(* A partition that is as documented, its assertion lets through.          *)
LEMMA ValidPasses ==
  ASSUME IInv, parts # NoPartition, PartitionValid
  PROVE  PartitionAsserted
<1>1. /\ history \in Seq(Operation) \/ history \in Seq(Event)
      /\ parts \in Seq(Seq(Nat)) /\ form \in {"operations", "events"}
  BY InputsAssumption DEF IInv, InputInv, IsAnswer
<1>2. Len(history) \in Nat /\ DOMAIN history = 1..Len(history)
  BY <1>1
<1>3. \A k \in DOMAIN parts : parts[k] \in Seq(Nat)
  BY <1>1
<1>4. \A k \in DOMAIN parts : \A j \in DOMAIN parts[k] :
        parts[k][j] \in Range(parts[k]) /\ parts[k][j] \in DOMAIN history
  <2>1. \A k \in DOMAIN parts : \A j \in DOMAIN parts[k] : parts[k][j] \in Range(parts[k])
    BY DEF Range
  <2>. QED BY <2>1 DEF PartitionValid
<1>5. \A p \in DOMAIN history : \E k \in DOMAIN parts : p \in Range(parts[k])
  BY DEF PartitionValid
<1>6. Divides(parts, Len(history))
  <2>1. ASSUME NEW k \in DOMAIN parts PROVE parts[k] \in Seq(1..Len(history))
    <3>1. Len(parts[k]) \in Nat /\ parts[k] = [j \in 1..Len(parts[k]) |-> parts[k][j]]
      BY <1>3
    <3>2. \A j \in 1..Len(parts[k]) : parts[k][j] \in 1..Len(history)
      BY <1>2, <1>4, <3>1
    <3>3. parts[k] \in [1..Len(parts[k]) -> 1..Len(history)]
      BY <3>1, <3>2
    <3>4. parts[k] \in UNION { [1..m -> 1..Len(history)] : m \in Nat }
      BY <3>1, <3>3
    <3>. QED BY <3>4, SeqDef, Zenon
  <2>2. \A p \in 1..Len(history) : \E k \in DOMAIN parts : \E j \in DOMAIN parts[k] : parts[k][j] = p
    BY <1>2, <1>5 DEF Range
  <2>3. ASSUME NEW k \in DOMAIN parts, NEW l \in DOMAIN parts, NEW i \in DOMAIN parts[k],
               NEW j \in DOMAIN parts[l], parts[k][i] = parts[l][j]
        PROVE  k = l /\ i = j
    <3>1. k = l
      BY <1>4, <2>3 DEF PartitionValid
    <3>. QED BY <2>3, <3>1 DEF PartitionValid, IsInjective
  <2>. QED BY <2>1, <2>2, <2>3 DEF Divides
<1>7. scan_partition_covering(parts, Len(history))
  BY <1>1, <1>2, <1>6, Covered
<1>8. CASE form = "events"
  <2>1. ASSUME NEW p \in DOMAIN history, NEW q \in DOMAIN history, history[p].id = history[q].id
        PROVE  Part(parts, p) = Part(parts, q)
    <3>1. \A k \in DOMAIN parts : p \in Range(parts[k]) <=> q \in Range(parts[k])
      BY <1>8, <2>1 DEF PartitionValid
    <3>. QED BY <3>1 DEF Part
  <2>2. assert_partition_events_paired(parts, history)
    BY <1>7, <2>1 DEF assert_partition_events_paired, Positions
  <2>. QED BY <1>8, <2>2 DEF PartitionAsserted
<1>. QED BY <1>1, <1>7, <1>8 DEF PartitionAsserted

(* A history that its assertion lets through is well-formed.               *)
LEMMA PassedIsWellFormed == ASSUME IInv, HistoryAsserted PROVE HistoryWellFormed
<1>1. CASE form = "operations"
  BY <1>1 DEF HistoryWellFormed, HistoryOps, HistoryAsserted, assert_well_formed
<1>2. CASE form = "events"
  <2>1. history \in Seq(Event) /\ assert_well_formed_events(history)
    BY <1>2, InputsAssumption DEF IInv, InputInv, HistoryAsserted
  <2>2. PICK c, r : PairedAt(history, c, r)
    BY <2>1, EventPairs
  <2>3. HistoryOps = EventIds(history)
    BY <1>2, <2>2, EventsOf
  <2>4. ASSUME NEW i \in EventIds(history)
        PROVE  /\ c[i] \in DOMAIN history /\ r[i] \in DOMAIN history /\ c[i] < r[i]
               /\ { p \in DOMAIN history : history[p].id = i } = {c[i], r[i]}
               /\ history[c[i]].kind = "call" /\ history[c[i]].input \in Input
               /\ history[r[i]].kind = "return" /\ history[r[i]].output \in Output
    BY <2>2 DEF PairedAt
  <2>. QED BY <1>2, <2>3, <2>4 DEF HistoryWellFormed
<1>. QED BY <1>1, <1>2 DEF IInv, InputInv

(* A partition that its assertion lets through is as documented.           *)
LEMMA PassedIsValid ==
  ASSUME IInv, parts # NoPartition, HistoryAsserted, PartitionAsserted
  PROVE  PartitionValid
<1>1. /\ history \in Seq(Operation) \/ history \in Seq(Event)
      /\ parts \in Seq(Seq(Nat)) /\ form \in {"operations", "events"}
  BY InputsAssumption DEF IInv, InputInv, IsAnswer
<1>2. Len(history) \in Nat /\ DOMAIN history = 1..Len(history)
  BY <1>1
<1>3. Divides(parts, Len(history))
  <2>1. scan_partition_covering(parts, Len(history))
    BY DEF PartitionAsserted, assert_partition_events_paired
  <2>. QED BY <1>1, <1>2, <2>1, Covered
<1>4. \A k \in DOMAIN parts : \A x : x \in Range(parts[k]) <=> \E j \in DOMAIN parts[k] : parts[k][j] = x
  BY DEF Range
<1>5. \A k \in DOMAIN parts : \A j \in DOMAIN parts[k] : parts[k][j] \in DOMAIN history
  <2>1. \A k \in DOMAIN parts : parts[k] \in Seq(1..Len(history))
    BY <1>3 DEF Divides
  <2>. QED BY <1>2, <2>1
<1>6. \A p \in DOMAIN history : \E k \in DOMAIN parts : p \in Range(parts[k])
  BY <1>2, <1>3, <1>4 DEF Divides
<1>7. \A k, l \in DOMAIN parts : \A p \in Range(parts[k]) : p \in Range(parts[l]) => k = l
  BY <1>3, <1>4 DEF Divides
<1>8. \A k \in DOMAIN parts : IsInjective(parts[k])
  BY <1>3 DEF Divides, IsInjective
<1>9. ASSUME form = "events",
             NEW k \in DOMAIN parts, NEW p \in DOMAIN history, NEW q \in DOMAIN history,
             p \in Range(parts[k]), history[p].id = history[q].id
      PROVE  q \in Range(parts[k])
  <2>1. /\ history \in Seq(Event) /\ assert_well_formed_events(history)
        /\ assert_partition_events_paired(parts, history)
    BY <1>9, InputsAssumption DEF IInv, InputInv, HistoryAsserted, PartitionAsserted
  <2>2. PICK c, r : PairedAt(history, c, r)
    BY <2>1, EventPairs
  <2>3. \A x \in DOMAIN history : \A l \in DOMAIN parts :
          x \in Range(parts[l]) => Part(parts, x) = l
    BY <1>7 DEF Part
  <2>4. Part(parts, p) = Part(parts, q)
    <3>. DEFINE e == history[p].id
    <3>1. e \in EventIds(history)
      BY DEF EventIds
    <3>2. /\ p \in {c[e], r[e]} /\ q \in {c[e], r[e]}
          /\ c[e] \in DOMAIN history /\ r[e] \in DOMAIN history /\ c[e] < r[e]
          /\ history[c[e]].kind = "call" /\ history[r[e]].kind = "return"
          /\ history[c[e]].id = e /\ history[r[e]].id = e
      BY <1>9, <2>2, <3>1 DEF PairedAt
    <3>3. Part(parts, c[e]) = Part(parts, r[e])
      BY <2>1, <3>2 DEF assert_partition_events_paired, Positions
    <3>. QED BY <3>2, <3>3
  <2>5. PICK l \in DOMAIN parts : q \in Range(parts[l])
    BY <1>6
  <2>. QED BY <1>9, <2>3, <2>4, <2>5
<1>10. UNION { Range(parts[k]) : k \in DOMAIN parts } = DOMAIN history
  <2>1. \A k \in DOMAIN parts : \A x \in Range(parts[k]) : x \in DOMAIN history
    BY <1>4, <1>5
  <2>. QED BY <1>6, <2>1
<1>11. \A k, l \in DOMAIN parts : k # l => Range(parts[k]) \cap Range(parts[l]) = {}
  BY <1>7
<1>. QED BY <1>8, <1>9, <1>10, <1>11 DEF PartitionValid

LEMMA InvAssertionsExact == ASSUME IInv PROVE AssertionsExact
<1>1. pc = "panicked" => ~ HistoryWellFormed \/ (parts # NoPartition /\ ~ PartitionValid)
  BY WellFormedPasses, ValidPasses DEF IInv, AssertedInv
<1>2. pc \in {"partition", "assert_partition", "flatten"} \/ Built => HistoryWellFormed
  BY PassedIsWellFormed DEF IInv, AssertedInv, Built
<1>3. (pc = "flatten" \/ Built) /\ parts # NoPartition => PartitionValid
  BY PassedIsValid DEF IInv, AssertedInv, Built
<1>. QED BY <1>1, <1>2, <1>3 DEF AssertionsExact

-----------------------------------------------------------------------------
(***************************************************************************)
(* Locality: when the parts of a history concern different objects, it is  *)
(* linearizable if and only if each of them is.                            *)
(***************************************************************************)

(* The facts about loops that are proved there hold of any loop.           *)
Loops == INSTANCE PowerSet_proof WITH NoPower <- Rejected

(* An induction up to n.                                                   *)
LEMMA Upward ==
  ASSUME NEW n \in Nat, NEW S, 0 \in S, \A j \in 1..n : j - 1 \in S => j \in S
  PROVE  \A j \in 0..n : j \in S
<1>. DEFINE D == { j \in 0..n : j \notin S }
<1>1. SUFFICES ASSUME D # {} PROVE FALSE
  OBVIOUS
<1>2. D \subseteq Nat
  OBVIOUS
<1>3. PICK m \in D : \A k \in D : ~ (k < m)
  <2>. HIDE DEF D
  <2>. QED BY <1>1, <1>2, Loops!LeastNumber
<1>4. m # 0 /\ m \in 1..n /\ m - 1 \in 0..n /\ m - 1 < m
  BY <1>3
<1>. QED BY <1>3, <1>4

(* line is S, n of them, in an order that respects R.                      *)
IsLine(S, R, n, line) ==
  /\ line \in [1..n -> S]
  /\ \A x \in S : \E m \in 1..n : line[m] = x
  /\ \A j, k \in 1..n : j < k => line[j] # line[k] /\ <<line[k], line[j]>> \notin R

(* f is what the model makes of its operations, in and out being theirs.   *)
IsTrial(in, out, n, line, f) ==
  /\ f \in [0..n -> State \cup {Rejected}]
  /\ f[0] = InitState
  /\ \A m \in 1..n :
       f[m] = IF f[m - 1] = Rejected THEN Rejected
              ELSE Step(f[m - 1], in[line[m]], out[line[m]])

(* Its course is one of a loop; every line has one.                        *)
TrialStep(in, out, n, line) ==
  [x \in (1..n) \X (State \cup {Rejected}) |->
     IF x[2] = Rejected THEN Rejected ELSE Step(x[2], in[line[x[1]]], out[line[x[1]]])]

(* So what is proved of the courses of loops holds of trials.              *)
LEMMA TrialIsCourse ==
  ASSUME NEW H, NEW in \in [H -> Input], NEW out \in [H -> Output],
         NEW n \in Nat, NEW line \in [1..n -> H], NEW f
  PROVE  /\ TrialStep(in, out, n, line) \in [(1..n) \X (State \cup {Rejected}) -> State \cup {Rejected}]
         /\ InitState \in State \cup {Rejected}
         /\ IsTrial(in, out, n, line, f) <=>
              Loops!IsCourse(f, n, State \cup {Rejected}, InitState, TrialStep(in, out, n, line))
<1>1. ASSUME NEW m \in 1..n, NEW s \in State \cup {Rejected}
      PROVE  /\ TrialStep(in, out, n, line)[<<m, s>>] \in State \cup {Rejected}
             /\ TrialStep(in, out, n, line)[<<m, s>>] =
                  IF s = Rejected THEN Rejected ELSE Step(s, in[line[m]], out[line[m]])
  <2>1. in[line[m]] \in Input /\ out[line[m]] \in Output
    OBVIOUS
  <2>2. TrialStep(in, out, n, line)[<<m, s>>] =
          IF s = Rejected THEN Rejected ELSE Step(s, in[line[m]], out[line[m]])
    BY DEF TrialStep
  <2>. QED BY <2>1, <2>2, ModelAssumption
<1>2. TrialStep(in, out, n, line) \in [(1..n) \X (State \cup {Rejected}) -> State \cup {Rejected}]
  <2>. DEFINE T == TrialStep(in, out, n, line)
              D == (1..n) \X (State \cup {Rejected})
  <2>1. T = [x \in D |-> T[x]]
    BY DEF TrialStep
  <2>2. \A x \in D : x = <<x[1], x[2]>> /\ x[1] \in 1..n /\ x[2] \in State \cup {Rejected}
    OBVIOUS
  <2>3. ASSUME NEW x \in D PROVE T[x] \in State \cup {Rejected}
    <3>. HIDE DEF T
    <3>1. T[<<x[1], x[2]>>] \in State \cup {Rejected}
      BY <1>1, <2>2 DEF T
    <3>. QED BY <2>2, <3>1
  <2>. HIDE DEF T, D
  <2>4. T \in [D -> State \cup {Rejected}]
    BY <2>1, <2>3
  <2>. QED BY <2>4 DEF T, D
<1>3. InitState \in State \cup {Rejected}
  BY ModelAssumption
<1>4. ASSUME f \in [0..n -> State \cup {Rejected}], NEW m \in 1..n
      PROVE  TrialStep(in, out, n, line)[<<m, f[m - 1]>>] =
               IF f[m - 1] = Rejected THEN Rejected ELSE Step(f[m - 1], in[line[m]], out[line[m]])
  <2>1. f[m - 1] \in State \cup {Rejected}
    BY <1>4
  <2>. QED BY <1>1, <2>1
<1>. HIDE DEF TrialStep
<1>. QED BY <1>2, <1>3, <1>4 DEF IsTrial, Loops!IsCourse

(* Every line of operations can be tried.                                  *)
LEMMA Trials ==
  ASSUME NEW H, NEW in \in [H -> Input], NEW out \in [H -> Output],
         NEW n \in Nat, NEW line \in [1..n -> H]
  PROVE  \E f : IsTrial(in, out, n, line, f)
<1>1. \E f : Loops!IsCourse(f, n, State \cup {Rejected}, InitState, TrialStep(in, out, n, line))
  BY TrialIsCourse, Loops!Course
<1>. QED BY <1>1, TrialIsCourse

(* What has been refused stays refused, so what is not refused in the end  *)
(* never was.                                                              *)
LEMMA NeverRefused ==
  ASSUME NEW in, NEW out, NEW n \in Nat, NEW line, NEW f,
         IsTrial(in, out, n, line, f), f[n] # Rejected
  PROVE  /\ \A j \in 0..n : f[j] \in State /\ f[j] # Rejected
         /\ \A j \in 1..n : f[j] = Step(f[j - 1], in[line[j]], out[line[j]])
<1>1. ASSUME NEW j \in 0..n, f[j] = Rejected PROVE FALSE
  <2>. DEFINE S == { i \in 0..(n - j) : f[j + i] = Rejected }
  <2>1. n - j \in Nat /\ 0 \in S
    BY <1>1
  <2>2. ASSUME NEW i \in 1..(n - j), i - 1 \in S PROVE i \in S
    <3>1. j + i \in 1..n /\ (j + i) - 1 = j + (i - 1) /\ i \in 0..(n - j)
      OBVIOUS
    <3>2. f[j + i] = Rejected
      BY <2>2, <3>1 DEF IsTrial
    <3>. QED BY <3>1, <3>2
  <2>. HIDE DEF S
  <2>3. n - j \in S
    BY <2>1, <2>2, Upward
  <2>4. f[j + (n - j)] = Rejected /\ j + (n - j) = n
    BY <2>3 DEF S
  <2>. QED BY <2>4
<1>2. \A j \in 0..n : f[j] \in State /\ f[j] # Rejected
  BY <1>1 DEF IsTrial
<1>3. ASSUME NEW j \in 1..n PROVE f[j] = Step(f[j - 1], in[line[j]], out[line[j]])
  <2>1. j - 1 \in 0..n
    OBVIOUS
  <2>. QED BY <1>2, <2>1 DEF IsTrial
<1>. QED BY <1>2, <1>3

-----------------------------------------------------------------------------
(* line goes through T as order does.                                      *)
Agrees(N, order, n, line) ==
  \A j, k \in 1..n : \A p, q \in 1..N :
    j < k /\ order[p] = line[j] /\ order[q] = line[k] => p < q

(* How far into line one is after the first j of order.                    *)
Progress(T, N, order, n, line, c) ==
  /\ c \in [0..N -> 0..n]
  /\ c[0] = 0 /\ c[N] = n
  /\ \A j \in 1..N :
       /\ order[j] \in T => c[j] = c[j - 1] + 1 /\ line[c[j]] = order[j]
       /\ order[j] \notin T => c[j] = c[j - 1]

LEMMA Progresses ==
  ASSUME NEW R, NEW S, NEW N \in Nat, NEW order, IsLine(S, R, N, order),
         NEW T, T \subseteq S, NEW n \in Nat, NEW line, IsLine(T, R, n, line),
         Agrees(N, order, n, line)
  PROVE  \E c : Progress(T, N, order, n, line, c)
<1>. DEFINE Seen(j) == { order[p] : p \in 1..j }
            Far(j)  == { m \in 0..n : \A x \in 1..n : x > m => line[x] \notin Seen(j) }
            Is(j, m) == m \in 0..n /\ \A x \in 1..n : x <= m <=> line[x] \in Seen(j)
<1>1. ASSUME NEW j \in 0..N PROVE \E m : Is(j, m)
  <2>1. n \in Far(j) /\ Far(j) \subseteq Nat
    OBVIOUS
  <2>2. PICK m \in Far(j) : \A k \in Far(j) : ~ (k < m)
    <3>. HIDE DEF Far
    <3>. QED BY <2>1, Loops!LeastNumber
  <2>3. m \in 0..n /\ \A x \in 1..n : x > m => line[x] \notin Seen(j)
    OBVIOUS
  <2>4. ASSUME m > 0 PROVE line[m] \in Seen(j)
    <3>1. m - 1 \in 0..n /\ m - 1 < m
      BY <2>3, <2>4
    <3>2. m - 1 \notin Far(j)
      <4>. HIDE DEF Far
      <4>. QED BY <2>2, <3>1
    <3>3. PICK x \in 1..n : x > m - 1 /\ line[x] \in Seen(j)
      BY <3>1, <3>2
    <3>. HIDE DEF Seen, Far
    <3>4. ~ (x > m)
      BY <2>3, <3>3
    <3>5. x = m
      BY <2>3, <3>3, <3>4
    <3>. QED BY <3>3, <3>5
  <2>5. ASSUME NEW x \in 1..n, x < m PROVE line[x] \in Seen(j)
    <3>1. PICK q \in 1..j : order[q] = line[m]
      BY <2>3, <2>4, <2>5
    <3>2. line[x] \in S
      BY DEF IsLine
    <3>3. PICK p \in 1..N : order[p] = line[x]
      BY <3>2 DEF IsLine
    <3>4. p < q
      BY <2>3, <2>5, <3>1, <3>3 DEF Agrees
    <3>. QED BY <3>1, <3>3, <3>4
  <2>6. ASSUME NEW x \in 1..n PROVE x <= m <=> line[x] \in Seen(j)
    <3>. HIDE DEF Seen, Far
    <3>1. x > m => line[x] \notin Seen(j)
      BY <2>3
    <3>2. x < m => line[x] \in Seen(j)
      BY <2>5
    <3>3. x = m => line[x] \in Seen(j)
      BY <2>4
    <3>. QED BY <2>3, <3>1, <3>2, <3>3
  <2>. QED BY <2>3, <2>6
<1>. DEFINE c == [j \in 0..N |-> CHOOSE m : Is(j, m)]
<1>2. ASSUME NEW j \in 0..N PROVE Is(j, c[j])
  <2>. HIDE DEF Is
  <2>. QED BY <1>1
<1>3. \A j \in 0..N : c[j] \in 0..n /\ \A x \in 1..n : x <= c[j] <=> line[x] \in Seen(j)
  <2>. HIDE DEF c
  <2>. QED BY <1>2
<1>4. c \in [0..N -> 0..n]
  BY <1>3
<1>. HIDE DEF c, Far, Is
<1>5. c[0] = 0
  <2>1. 0 \in 0..N /\ Seen(0) = {}
    OBVIOUS
  <2>2. c[0] \in 0..n /\ \A x \in 1..n : ~ (x <= c[0])
    BY <1>3, <2>1
  <2>. QED BY <2>2
<1>6. c[N] = n
  <2>1. \A x \in 1..n : line[x] \in Seen(N)
    BY DEF IsLine
  <2>2. c[N] \in 0..n /\ \A x \in 1..n : x <= c[N]
    BY <1>3, <2>1
  <2>. QED BY <2>2
<1>7. ASSUME NEW j \in 1..N
      PROVE  /\ order[j] \in T => c[j] = c[j - 1] + 1 /\ line[c[j]] = order[j]
             /\ order[j] \notin T => c[j] = c[j - 1]
  <2>1. j \in 0..N /\ j - 1 \in 0..N
    OBVIOUS
  <2>2. Seen(j) = Seen(j - 1) \cup {order[j]}
    <3>1. 1..j = 1..(j - 1) \cup {j}
      OBVIOUS
    <3>. QED BY <3>1
  <2>3. order[j] \notin Seen(j - 1)
    <3>1. ASSUME NEW p \in 1..(j - 1) PROVE order[p] # order[j]
      <4>1. p \in 1..N /\ p < j
        OBVIOUS
      <4>. QED BY <4>1 DEF IsLine
    <3>. QED BY <3>1
  <2>4. /\ c[j] \in 0..n /\ \A x \in 1..n : x <= c[j] <=> line[x] \in Seen(j)
        /\ c[j - 1] \in 0..n /\ \A x \in 1..n : x <= c[j - 1] <=> line[x] \in Seen(j - 1)
    BY <1>3, <2>1
  <2>. HIDE DEF Seen
  <2>5. CASE order[j] \in T
    <3>1. PICK x \in 1..n : line[x] = order[j]
      BY <2>5 DEF IsLine
    <3>2. \A y \in 1..n : y <= c[j] <=> y <= c[j - 1] \/ y = x
      <4>1. ASSUME NEW y \in 1..n, line[y] = line[x] PROVE y = x
        <5>1. ~ (y < x) /\ ~ (x < y)
          BY <4>1 DEF IsLine
        <5>. QED BY <5>1
      <4>. QED BY <2>2, <2>4, <3>1, <4>1
    <3>3. x > c[j - 1]
      BY <2>3, <2>4, <3>1
    <3>4. x <= c[j]
      BY <3>2
    <3>5. \A y \in 1..n : y < x => y <= c[j - 1]
      BY <2>4, <3>2, <3>4
    <3>6. c[j] = x
      <4>1. c[j] \in 1..n
        BY <2>4, <3>4
      <4>. QED BY <2>4, <3>2, <3>3, <3>4, <4>1
    <3>7. x = c[j - 1] + 1
      <4>1. CASE x = 1
        BY <2>4, <3>3, <4>1
      <4>2. CASE x # 1
        <5>1. x - 1 \in 1..n /\ x - 1 < x
          BY <4>2
        <5>2. x - 1 <= c[j - 1]
          BY <3>5, <5>1
        <5>. QED BY <2>4, <3>3, <5>2
      <4>. QED BY <4>1, <4>2
    <3>. QED BY <2>5, <3>1, <3>6, <3>7
  <2>6. CASE order[j] \notin T
    <3>1. \A y \in 1..n : line[y] # order[j]
      BY <2>6 DEF IsLine
    <3>2. \A y \in 1..n : y <= c[j] <=> y <= c[j - 1]
      BY <2>2, <2>4, <3>1
    <3>3. c[j] >= 1 => c[j] <= c[j - 1]
      BY <2>4, <3>2
    <3>4. c[j - 1] >= 1 => c[j - 1] <= c[j]
      BY <2>4, <3>2
    <3>5. c[j] = c[j - 1]
      BY <2>4, <3>3, <3>4
    <3>. QED BY <2>6, <3>5
  <2>. QED BY <2>5, <2>6
<1>. QED BY <1>4, <1>5, <1>6, <1>7 DEF Progress

-----------------------------------------------------------------------------
(* A line of a set is as long as the set is large.                         *)
LEMMA LineSize ==
  ASSUME NEW S, NEW R, NEW n \in Nat, NEW line, IsLine(S, R, n, line)
  PROVE  IsFiniteSet(S) /\ Cardinality(S) = n
<1>1. IsFiniteSet(1..n) /\ Cardinality(1..n) = n
  <2>1. 1 \in Int /\ n \in Int
    OBVIOUS
  <2>2. IsFiniteSet(1..n) /\ Cardinality(1..n) = IF 1 > n THEN 0 ELSE n - 1 + 1
    BY <2>1, FS_Interval
  <2>. QED BY <2>2
<1>2. ASSUME NEW j \in 1..n, NEW k \in 1..n, line[j] = line[k] PROVE j = k
  <2>1. ~ (j < k) /\ ~ (k < j)
    BY <1>2 DEF IsLine
  <2>. QED BY <2>1
<1>3. line \in Bijection(1..n, S)
  BY <1>2 DEF IsLine, Bijection, Injection, Surjection, IsInjective
<1>4. ExistsBijection(1..n, S)
  BY <1>3 DEF ExistsBijection
<1>. QED BY <1>1, <1>4, FS_Bijection

(* A finite set can be lined up along an order.                            *)
LinesUp(S, R, B, n, line) ==
  /\ n \in Nat /\ IsLine(S, R, n, line)
  /\ \A j, k \in 1..n : j < k => <<line[j], line[k]>> \in B

LEMMA LinedUp ==
  ASSUME NEW S, IsFiniteSet(S), NEW B, IsOrdered(S, B), NEW R,
         \A x, y \in S : <<x, y>> \in B => <<y, x>> \notin R
  PROVE  \E n, line : LinesUp(S, R, B, n, line)
<1>. DEFINE n == Cardinality(S)
<1>1. PICK rank : IsRank(S, B, rank)
  BY Ranks
<1>2. n \in Nat
  BY FS_CardinalityType
<1>3. /\ rank \in [S -> 0..(n - 1)]
      /\ \A x, y \in S : rank[x] = rank[y] => x = y
      /\ \A k \in 0..(n - 1) : \E x \in S : rank[x] = k
      /\ \A x, y \in S : <<x, y>> \in B <=> rank[x] < rank[y]
  BY <1>1 DEF IsRank, Bijection, Injection, Surjection, IsInjective
<1>. DEFINE line == [m \in 1..n |-> CHOOSE x \in S : rank[x] = m - 1]
<1>. HIDE DEF n
<1>4. ASSUME NEW m \in 1..n PROVE line[m] \in S /\ rank[line[m]] = m - 1
  <2>1. m - 1 \in 0..(n - 1)
    BY <1>2
  <2>. QED BY <1>3, <2>1
<1>5. line \in [1..n -> S]
  BY <1>4
<1>6. line = [m \in 1..n |-> line[m]]
  OBVIOUS
<1>. HIDE DEF line
<1>7. ASSUME NEW x \in S PROVE \E m \in 1..n : line[m] = x
  <2>1. rank[x] \in 0..(n - 1)
    BY <1>3
  <2>2. rank[x] + 1 \in 1..n /\ (rank[x] + 1) - 1 = rank[x]
    BY <1>2, <2>1
  <2>3. line[rank[x] + 1] = x
    BY <1>3, <1>4, <2>2
  <2>. QED BY <2>2, <2>3
<1>8. ASSUME NEW j \in 1..n, NEW k \in 1..n, j < k
      PROVE  /\ <<line[j], line[k]>> \in B
             /\ line[j] # line[k] /\ <<line[k], line[j]>> \notin R
  <2>1. /\ line[j] \in S /\ rank[line[j]] = j - 1
        /\ line[k] \in S /\ rank[line[k]] = k - 1
    BY <1>4
  <2>2. j - 1 < k - 1
    BY <1>8
  <2>3. <<line[j], line[k]>> \in B
    BY <1>3, <2>1, <2>2
  <2>. QED BY <2>1, <2>3 DEF IsOrdered
<1>9. IsLine(S, R, n, line)
  BY <1>5, <1>7, <1>8 DEF IsLine
<1>. QED BY <1>2, <1>8, <1>9 DEF LinesUp

(* The operations of S, lined up in real-time order, are accepted.         *)
Accepted(S, R, in, out, n, line, f) ==
  n \in Nat /\ IsLine(S, R, n, line) /\ IsTrial(in, out, n, line, f) /\ f[n] # Rejected

Explained(S, R, in, out) == \E n, line, f : Accepted(S, R, in, out, n, line, f)

(* A trial that is accepted in the end never met a refusal.                *)
LEMMA AcceptedRuns ==
  ASSUME NEW S, NEW R, NEW in, NEW out, NEW n, NEW line, NEW f, Accepted(S, R, in, out, n, line, f)
  PROVE  /\ n \in Nat /\ IsLine(S, R, n, line) /\ line \in [1..n -> S]
         /\ f[0] = InitState
         /\ \A j \in 0..n : f[j] \in State /\ f[j] # Rejected
         /\ \A j \in 1..n : f[j] = Step(f[j - 1], in[line[j]], out[line[j]]) /\ f[j] # Rejected
<1>1. /\ n \in Nat /\ IsLine(S, R, n, line)
      /\ IsTrial(in, out, n, line, f) /\ f[n] # Rejected
  BY DEF Accepted
<1>2. /\ \A j \in 0..n : f[j] \in State /\ f[j] # Rejected
      /\ \A j \in 1..n : f[j] = Step(f[j - 1], in[line[j]], out[line[j]])
  BY <1>1, NeverRefused
<1>3. f[0] = InitState /\ line \in [1..n -> S]
  BY <1>1 DEF IsLine, IsTrial
<1>4. \A j \in 1..n : j \in 0..n
  OBVIOUS
<1>. QED BY <1>1, <1>2, <1>3, <1>4

(* The state is made of objects, and an input concerns one, its key: all   *)
(* that the step looks at, and all that it changes, is what that one sees. *)
IsLocal(Key, View) ==
  \A i \in Input, o \in Output : \A s \in State : Step(s, i, o) # Rejected =>
    /\ \A j \in Input : Key[j] # Key[i] => View[Key[j]][Step(s, i, o)] = View[Key[j]][s]
    /\ \A t \in State : View[Key[i]][s] = View[Key[i]][t] =>
         /\ Step(t, i, o) # Rejected
         /\ View[Key[i]][Step(t, i, o)] = View[Key[i]][Step(s, i, o)]

(* The model is the key-value model of tests/common/mod.rs.                *)
IsKvModel ==
  /\ State = KvState /\ Input = KvInput /\ Output = KvOutput
  /\ InitState = KvInit /\ Rejected = KvNone
  /\ \A s, i, o : Step(s, i, o) = KvStep(s, i, o)

(* The key-value model, whose histories are partitioned by key, is local:  *)
(* an operation reads and writes the value of its key and no other.        *)
THEOREM KvIsLocal ==
  ASSUME IsKvModel
  PROVE  IsLocal([i \in KvInput |-> i.key], [k \in Keys |-> [s \in KvState |-> s[k]]])
<1>. USE DEF IsKvModel
<1>. DEFINE Key  == [i \in KvInput |-> i.key]
            View == [k \in Keys |-> [s \in KvState |-> s[k]]]
<1>1. \A i \in KvInput : Key[i] = i.key /\ i.key \in Keys /\ i.value \in 0..MaxValue /\ i.is_write \in BOOLEAN
  BY DEF KvInput
<1>2. \A k \in Keys : \A s \in KvState : View[k][s] = s[k]
  OBVIOUS
<1>3. ASSUME NEW i \in KvInput, NEW o \in KvOutput, NEW s \in KvState
      PROVE  KvStep(s, i, o) # KvNone =>
               /\ KvStep(s, i, o) \in KvState
               /\ \A k \in Keys : k # i.key => KvStep(s, i, o)[k] = s[k]
               /\ KvStep(s, i, o)[i.key] = IF i.is_write THEN i.value ELSE s[i.key]
               /\ ~ i.is_write => o = s[i.key]
  <2>1. CASE i.is_write
    <3>1. KvStep(s, i, o) = [s EXCEPT ![i.key] = i.value]
      BY <2>1 DEF KvStep
    <3>. QED BY <1>1, <2>1, <3>1 DEF KvState
  <2>2. CASE ~ i.is_write
    <3>1. KvStep(s, i, o) = IF o = s[i.key] THEN s ELSE KvNone
      BY <2>2 DEF KvStep
    <3>. QED BY <2>2, <3>1
  <2>. QED BY <2>1, <2>2
<1>4. ASSUME NEW i \in KvInput, NEW o \in KvOutput, NEW s \in KvState, NEW t \in KvState,
             KvStep(s, i, o) # KvNone, s[i.key] = t[i.key]
      PROVE  KvStep(t, i, o) # KvNone
  <2>1. CASE i.is_write
    <3>1. KvStep(t, i, o) = [t EXCEPT ![i.key] = i.value]
      BY <2>1 DEF KvStep
    <3>2. KvStep(t, i, o) \in KvState
      BY <1>1, <3>1 DEF KvState
    <3>. QED BY <3>2, ModelAssumption
  <2>2. CASE ~ i.is_write
    <3>1. o = t[i.key]
      BY <1>3, <1>4, <2>2
    <3>2. KvStep(t, i, o) = t
      BY <2>2, <3>1 DEF KvStep
    <3>. QED BY <3>2, ModelAssumption
  <2>. QED BY <2>1, <2>2
<1>5. ASSUME NEW i \in KvInput, NEW o \in KvOutput, NEW s \in KvState, KvStep(s, i, o) # KvNone
      PROVE  /\ \A j \in KvInput : Key[j] # Key[i] => View[Key[j]][KvStep(s, i, o)] = View[Key[j]][s]
             /\ \A t \in KvState : View[Key[i]][s] = View[Key[i]][t] =>
                  /\ KvStep(t, i, o) # KvNone
                  /\ View[Key[i]][KvStep(t, i, o)] = View[Key[i]][KvStep(s, i, o)]
  <2>. HIDE DEF Key, View
  <2>1. ASSUME NEW j \in KvInput, Key[j] # Key[i]
        PROVE  View[Key[j]][KvStep(s, i, o)] = View[Key[j]][s]
    BY <1>1, <1>2, <1>3, <1>5, <2>1
  <2>2. ASSUME NEW t \in KvState, View[Key[i]][s] = View[Key[i]][t]
        PROVE  /\ KvStep(t, i, o) # KvNone
               /\ View[Key[i]][KvStep(t, i, o)] = View[Key[i]][KvStep(s, i, o)]
    <3>1. s[i.key] = t[i.key]
      BY <1>1, <1>2, <2>2
    <3>2. KvStep(t, i, o) # KvNone
      BY <1>4, <1>5, <3>1
    <3>. QED BY <1>1, <1>2, <1>3, <1>5, <3>1, <3>2
  <2>. QED BY <2>1, <2>2
<1>. HIDE DEF Key, View
<1>6. IsLocal(Key, View)
  BY <1>5 DEF IsLocal
<1>. QED BY <1>6 DEF Key, View

(* All of K are keys of inputs.                                            *)
AreKeys(Key, K) == \A k \in K : \E i \in Input : k = Key[i]

(* Two states that agree on what an operation concerns agree on it         *)
(* afterwards.                                                             *)
LEMMA SameViews ==
  ASSUME NEW Key, NEW View, IsLocal(Key, View), NEW i \in Input, NEW o \in Output,
         NEW s \in State, NEW t \in State, NEW K, AreKeys(Key, K), Key[i] \in K,
         \A k \in K : View[k][s] = View[k][t],
         Step(s, i, o) # Rejected
  PROVE  /\ Step(s, i, o) \in State /\ Step(t, i, o) \in State /\ Step(t, i, o) # Rejected
         /\ \A k \in K : View[k][Step(s, i, o)] = View[k][Step(t, i, o)]
<1>1. View[Key[i]][s] = View[Key[i]][t]
  OBVIOUS
<1>2. /\ Step(t, i, o) # Rejected
      /\ View[Key[i]][Step(t, i, o)] = View[Key[i]][Step(s, i, o)]
  BY <1>1 DEF IsLocal
<1>3. Step(s, i, o) \in State /\ Step(t, i, o) \in State
  BY <1>2, ModelAssumption
<1>4. ASSUME NEW k \in K, k # Key[i] PROVE View[k][Step(s, i, o)] = View[k][Step(t, i, o)]
  <2>1. View[k][Step(s, i, o)] = View[k][s]
    BY <1>4 DEF IsLocal, AreKeys
  <2>2. View[k][Step(t, i, o)] = View[k][t]
    BY <1>2, <1>4 DEF IsLocal, AreKeys
  <2>. QED BY <2>1, <2>2
<1>. QED BY <1>2, <1>3, <1>4

(* An operation changes nothing that other keys see.                       *)
LEMMA OtherViews ==
  ASSUME NEW Key, NEW View, IsLocal(Key, View), NEW i \in Input, NEW o \in Output,
         NEW s \in State, Step(s, i, o) # Rejected, NEW K, AreKeys(Key, K), Key[i] \notin K
  PROVE  \A k \in K : View[k][Step(s, i, o)] = View[k][s]
BY DEF IsLocal, AreKeys

(* What explains the whole explains, without the others, each part.        *)
LEMMA Restricted ==
  ASSUME NEW Key, NEW View, IsLocal(Key, View),
         NEW H, NEW in \in [H -> Input], NEW out \in [H -> Output], NEW R,
         Explained(H, R, in, out),
         NEW T, T \subseteq H, \A x \in T, y \in H \ T : Key[in[x]] # Key[in[y]]
  PROVE  Explained(T, R, in, out)
<1>1. PICK N, order, f : Accepted(H, R, in, out, N, order, f)
  BY DEF Explained
<1>2. /\ N \in Nat /\ IsLine(H, R, N, order) /\ order \in [1..N -> H]
      /\ \A j \in 0..N : f[j] \in State /\ f[j] # Rejected
      /\ \A j \in 1..N : f[j] = Step(f[j - 1], in[order[j]], out[order[j]])
      /\ f[0] = InitState
  BY <1>1, AcceptedRuns
<1>. DEFINE B == { z \in T \X T : \E p, q \in 1..N : p < q /\ order[p] = z[1] /\ order[q] = z[2] }
<1>3. \A x, y \in T : <<x, y>> \in B <=> \E p, q \in 1..N : p < q /\ order[p] = x /\ order[q] = y
  OBVIOUS
<1>. HIDE DEF B
<1>once. ASSUME NEW p \in 1..N, NEW q \in 1..N, order[p] = order[q] PROVE p = q
  <2>1. ~ (p < q) /\ ~ (q < p)
    BY <1>2, <1>once DEF IsLine
  <2>. QED BY <1>2, <2>1
<1>all. \A x \in T : \E p \in 1..N : order[p] = x
  BY <1>2 DEF IsLine
<1>4. IsOrdered(T, B)
  <2>1. ASSUME NEW x \in T, <<x, x>> \in B PROVE FALSE
    <3>1. PICK p, q \in 1..N : p < q /\ order[p] = x /\ order[q] = x
      BY <1>3, <2>1
    <3>. QED BY <1>2, <1>once, <3>1
  <2>2. ASSUME NEW x \in T, NEW y \in T, NEW z \in T, <<x, y>> \in B, <<y, z>> \in B
        PROVE  <<x, z>> \in B
    <3>1. PICK p, q \in 1..N : p < q /\ order[p] = x /\ order[q] = y
      BY <1>3, <2>2
    <3>2. PICK s, t \in 1..N : s < t /\ order[s] = y /\ order[t] = z
      BY <1>3, <2>2
    <3>3. p < t
      BY <1>2, <1>once, <3>1, <3>2
    <3>. QED BY <1>3, <3>1, <3>2, <3>3
  <2>3. ASSUME NEW x \in T, NEW y \in T, x # y PROVE <<x, y>> \in B \/ <<y, x>> \in B
    <3>1. PICK p \in 1..N : order[p] = x
      BY <1>all
    <3>2. PICK q \in 1..N : order[q] = y
      BY <1>all
    <3>3. p < q \/ q < p
      BY <1>2, <2>3, <3>1, <3>2
    <3>. QED BY <1>3, <3>1, <3>2, <3>3
  <2>. QED BY <2>1, <2>2, <2>3 DEF IsOrdered
<1>5. IsFiniteSet(T)
  BY <1>2, LineSize, FS_Subset
<1>6. \A x, y \in T : <<x, y>> \in B => <<y, x>> \notin R
  BY <1>2, <1>3 DEF IsLine
<1>7. PICK n, line : LinesUp(T, R, B, n, line)
  BY <1>4, <1>5, <1>6, LinedUp
<1>8. /\ n \in Nat /\ IsLine(T, R, n, line)
      /\ \A j, k \in 1..n : j < k => <<line[j], line[k]>> \in B
  BY <1>7 DEF LinesUp
<1>9. Agrees(N, order, n, line)
  <2>. SUFFICES ASSUME NEW j \in 1..n, NEW k \in 1..n, NEW p \in 1..N, NEW q \in 1..N,
                       j < k, order[p] = line[j], order[q] = line[k]
                PROVE  p < q
    BY DEF Agrees
  <2>1. line[j] \in T /\ line[k] \in T /\ <<line[j], line[k]>> \in B
    BY <1>8 DEF IsLine
  <2>2. PICK s, t \in 1..N : s < t /\ order[s] = line[j] /\ order[t] = line[k]
    BY <1>3, <2>1
  <2>. QED BY <1>once, <2>2
<1>10. PICK c : Progress(T, N, order, n, line, c)
  BY <1>2, <1>8, <1>9, Progresses
<1>11. line \in [1..n -> H]
  BY <1>8 DEF IsLine
<1>12. PICK g : IsTrial(in, out, n, line, g)
  BY <1>8, <1>11, Trials
<1>. DEFINE Held == { Key[in[x]] : x \in T }
            S == { j \in 0..N : /\ g[c[j]] \in State
                                /\ \A k \in Held : View[k][f[j]] = View[k][g[c[j]]] }
<1>13. 0 \in S
  <2>1. g[0] = InitState /\ c[0] = 0
    BY <1>10, <1>12 DEF IsTrial, Progress
  <2>. QED BY <1>2, <2>1, ModelAssumption
<1>14. ASSUME NEW j \in 1..N, j - 1 \in S PROVE j \in S
  <2>. DEFINE x == order[j]
  <2>1. /\ x \in H /\ in[x] \in Input /\ out[x] \in Output
        /\ f[j - 1] \in State /\ f[j] = Step(f[j - 1], in[x], out[x]) /\ f[j] # Rejected
    BY <1>2
  <2>2. g[c[j - 1]] \in State /\ \A k \in Held : View[k][f[j - 1]] = View[k][g[c[j - 1]]]
    BY <1>14
  <2>3. CASE x \in T
    <3>1. c[j] = c[j - 1] + 1 /\ line[c[j]] = x /\ c[j] \in 0..n /\ c[j - 1] \in 0..n
      <4>1. j \in 0..N /\ j - 1 \in 0..N
        BY <1>2
      <4>. QED BY <1>10, <2>3, <4>1 DEF Progress
    <3>2. c[j] \in 1..n /\ c[j] - 1 = c[j - 1]
      BY <3>1
    <3>3. g[c[j]] = Step(g[c[j - 1]], in[x], out[x])
      BY <1>12, <2>2, <3>1, <3>2, ModelAssumption DEF IsTrial
    <3>4. Key[in[x]] \in Held /\ AreKeys(Key, Held)
      BY <2>3 DEF AreKeys
    <3>. HIDE DEF Held, x
    <3>5. /\ Step(g[c[j - 1]], in[x], out[x]) \in State
          /\ \A k \in Held : View[k][Step(f[j - 1], in[x], out[x])] =
                              View[k][Step(g[c[j - 1]], in[x], out[x])]
      BY <2>1, <2>2, <3>4, SameViews
    <3>. QED BY <2>1, <3>3, <3>5
  <2>4. CASE x \notin T
    <3>1. c[j] = c[j - 1]
      BY <1>10, <2>4 DEF Progress
    <3>2. Key[in[x]] \notin Held /\ AreKeys(Key, Held)
      BY <2>1, <2>4 DEF AreKeys
    <3>. HIDE DEF Held, x
    <3>3. \A k \in Held : View[k][Step(f[j - 1], in[x], out[x])] = View[k][f[j - 1]]
      BY <2>1, <3>2, OtherViews
    <3>. QED BY <2>1, <2>2, <3>1, <3>3
  <2>. QED BY <2>3, <2>4
<1>15. N \in S
  <2>. HIDE DEF S
  <2>1. \A j \in 0..N : j \in S
    BY <1>2, <1>13, <1>14, Upward
  <2>. QED BY <1>2, <2>1
<1>16. g[n] # Rejected
  <2>1. c[N] = n
    BY <1>10 DEF Progress
  <2>. QED BY <1>15, <2>1, ModelAssumption
<1>. QED BY <1>8, <1>12, <1>16 DEF Explained, Accepted

(* Operations lined up part by part in real-time order can be given each a *)
(* moment between its call and its return, which is the order of the part. *)
AreMoments(H, c, r, part, place, t) ==
  /\ t \in [H -> Nat]
  /\ \A x \in H : c[x] <= t[x] /\ t[x] <= r[x]
  /\ \A x, y \in H : part[x] = part[y] /\ place[x] <= place[y] => t[x] <= t[y]

LEMMA Moments ==
  ASSUME NEW H, NEW c \in [H -> Nat], NEW r \in [H -> Nat], NEW part, NEW place \in [H -> Nat],
         \A x, y \in H : part[x] = part[y] /\ place[x] <= place[y] => c[x] <= r[y]
  PROVE  \E t : AreMoments(H, c, r, part, place, t)
<1>. DEFINE Bounds(x) ==
              { u \in Nat : \A y \in H : part[y] = part[x] /\ place[y] <= place[x] => c[y] <= u }
            Least(x, m) == m \in Bounds(x) /\ \A u \in Bounds(x) : ~ (u < m)
            t == [x \in H |-> CHOOSE m : Least(x, m)]
<1>1. ASSUME NEW x \in H PROVE r[x] \in Bounds(x) /\ \E m : Least(x, m)
  <2>1. r[x] \in Bounds(x) /\ Bounds(x) \subseteq Nat
    OBVIOUS
  <2>2. \E m \in Bounds(x) : \A u \in Bounds(x) : ~ (u < m)
    <3>. HIDE DEF Bounds
    <3>. QED BY <2>1, Loops!LeastNumber
  <2>. QED BY <2>1, <2>2
<1>2. \A x \in H : Least(x, t[x])
  <2>. HIDE DEF Least
  <2>. QED BY <1>1
<1>. HIDE DEF t
<1>3. t \in [H -> Nat]
  <2>1. \A x \in H : t[x] \in Nat
    BY <1>2
  <2>. QED BY <2>1 DEF t
<1>4. ASSUME NEW x \in H PROVE c[x] <= t[x] /\ t[x] <= r[x]
  <2>1. t[x] \in Bounds(x) /\ ~ (r[x] < t[x])
    BY <1>1, <1>2
  <2>2. t[x] \in Nat /\ r[x] \in Nat /\ place[x] <= place[x]
    BY <1>3
  <2>. QED BY <2>1, <2>2
<1>5. ASSUME NEW x \in H, NEW y \in H, part[x] = part[y], place[x] <= place[y]
      PROVE  t[x] <= t[y]
  <2>1. t[y] \in Bounds(x)
    <3>1. t[y] \in Bounds(y)
      BY <1>2
    <3>. QED BY <1>5, <3>1
  <2>2. ~ (t[y] < t[x])
    BY <1>2, <2>1
  <2>3. t[x] \in Nat /\ t[y] \in Nat
    BY <1>3
  <2>. QED BY <2>2, <2>3
<1>. QED BY <1>3, <1>4, <1>5 DEF AreMoments

(* By their moments they are all ordered, and as their parts order them.   *)
Merges(H, t, part, place, B) ==
  /\ IsOrdered(H, B)
  /\ \A x, y \in H : <<x, y>> \in B => t[x] <= t[y]
  /\ \A x, y \in H : <<x, y>> \in B /\ part[x] = part[y] => place[x] < place[y]

LEMMA MergeOrder ==
  ASSUME NEW H, NEW t \in [H -> Nat], NEW part \in [H -> Nat], NEW place \in [H -> Nat],
         \A x, y \in H : part[x] = part[y] /\ place[x] = place[y] => x = y,
         \A x, y \in H : part[x] = part[y] /\ place[x] <= place[y] => t[x] <= t[y]
  PROVE  \E B : Merges(H, t, part, place, B)
<1>. DEFINE Before(x, y) ==
              \/ t[x] < t[y]
              \/ t[x] = t[y] /\ part[x] < part[y]
              \/ t[x] = t[y] /\ part[x] = part[y] /\ place[x] < place[y]
            B == { z \in H \X H : Before(z[1], z[2]) }
<1>1. \A x, y \in H : <<x, y>> \in B <=> Before(x, y)
  OBVIOUS
<1>2. \A x \in H : t[x] \in Nat /\ part[x] \in Nat /\ place[x] \in Nat
  OBVIOUS
<1>. HIDE DEF B
<1>3. \A x \in H : ~ Before(x, x)
  BY <1>2
<1>4. \A x, y, z \in H : Before(x, y) /\ Before(y, z) => Before(x, z)
  BY <1>2
<1>5. \A x, y \in H : x # y => Before(x, y) \/ Before(y, x)
  BY <1>2
<1>6. \A x, y \in H : Before(x, y) => t[x] <= t[y]
  BY <1>2
<1>7. ASSUME NEW x \in H, NEW y \in H, Before(x, y), part[x] = part[y]
      PROVE  place[x] < place[y]
  <2>1. place[y] <= place[x] => t[y] <= t[x]
    BY <1>7
  <2>2. place[y] = place[x] => x = y
    BY <1>7
  <2>. QED BY <1>2, <1>3, <1>7, <2>1, <2>2
<1>. HIDE DEF Before
<1>8. IsOrdered(H, B)
  BY <1>1, <1>3, <1>4, <1>5 DEF IsOrdered
<1>. QED BY <1>1, <1>6, <1>7, <1>8 DEF Merges

(* R is the order of operations that are called at c and return at r.      *)
IsTimed(H, R, c, r) ==
  /\ c \in [H -> Nat] /\ r \in [H -> Nat]
  /\ \A x \in H : c[x] <= r[x]
  /\ \A x, y \in H : <<x, y>> \in R <=> r[x] < c[y]

(* Operations that concern the same object are in the same part.           *)
IsSplit(Key, H, in, part, K) ==
  /\ part \in [H -> Nat] /\ \A x \in H : part[x] \in K
  /\ \A x, y \in H : Key[in[x]] = Key[in[y]] => part[x] = part[y]

(* What explains the parts, merged by the moments of the operations,       *)
(* explains the whole.                                                     *)
LEMMA Merged ==
  ASSUME NEW Key, NEW View, IsLocal(Key, View),
         NEW H, IsFiniteSet(H), NEW in \in [H -> Input], NEW out \in [H -> Output],
         NEW R, NEW c, NEW r, IsTimed(H, R, c, r),
         NEW part, NEW K, IsSplit(Key, H, in, part, K),
         \A k \in K : Explained({ x \in H : part[x] = k }, R, in, out)
  PROVE  Explained(H, R, in, out)
<1>. USE DEF IsTimed, IsSplit
<1>. DEFINE Of(k) == { x \in H : part[x] = k }
            Why(k, w) == Accepted(Of(k), R, in, out, w[1], w[2], w[3])
            why == [k \in K |-> CHOOSE w : Why(k, w)]
            n == [k \in K |-> why[k][1]]
            line == [k \in K |-> why[k][2]]
            g == [k \in K |-> why[k][3]]
<1>1. ASSUME NEW k \in K PROVE Why(k, why[k])
  <2>1. PICK m, l, f : Accepted(Of(k), R, in, out, m, l, f)
    BY DEF Explained
  <2>2. Why(k, <<m, l, f>>)
    BY <2>1
  <2>. HIDE DEF Why
  <2>. QED BY <2>2
<1>2. \A k \in K : Accepted(Of(k), R, in, out, n[k], line[k], g[k])
  <2>. HIDE DEF why
  <2>. QED BY <1>1
<1>. HIDE DEF why, n, line, g
<1>. HIDE DEF Of, Why
<1>3. /\ \A k \in K : n[k] \in Nat
      /\ \A k \in K : IsLine(Of(k), R, n[k], line[k])
      /\ \A k \in K : line[k] \in [1..n[k] -> Of(k)]
      /\ \A k \in K : g[k][0] = InitState
      /\ \A k \in K : \A j \in 0..n[k] : g[k][j] \in State
      /\ \A k \in K : \A j \in 1..n[k] :
           g[k][j] = Step(g[k][j - 1], in[line[k][j]], out[line[k][j]]) /\ g[k][j] # Rejected
  BY <1>2, AcceptedRuns
<1>of. \A k : Of(k) = { x \in H : part[x] = k }
  BY DEF Of
<1>4. \A k \in K : \A i, j \in 1..n[k] : line[k][i] = line[k][j] => i = j
  <2>. SUFFICES ASSUME NEW k \in K, NEW i \in 1..n[k], NEW j \in 1..n[k], line[k][i] = line[k][j]
                PROVE  i = j
    OBVIOUS
  <2>1. IsLine(Of(k), R, n[k], line[k])
    BY <1>3
  <2>2. ~ (i < j) /\ ~ (j < i)
    BY <2>1 DEF IsLine
  <2>. QED BY <1>3, <2>2
<1>. DEFINE place == [x \in H |-> CHOOSE m \in 1..n[part[x]] : line[part[x]][m] = x]
<1>5. ASSUME NEW x \in H
      PROVE  place[x] \in 1..n[part[x]] /\ line[part[x]][place[x]] = x
  <2>1. x \in Of(part[x]) /\ part[x] \in K
    BY DEF Of
  <2>2. \E m \in 1..n[part[x]] : line[part[x]][m] = x
    BY <1>3, <2>1 DEF IsLine
  <2>. QED BY <2>2
<1>6. place \in [H -> Nat]
  <2>1. ASSUME NEW x \in H PROVE place[x] \in Nat
    <3>1. n[part[x]] \in Nat
      BY <1>3
    <3>. HIDE DEF place
    <3>. QED BY <1>5, <3>1
  <2>2. place = [x \in H |-> place[x]]
    OBVIOUS
  <2>. HIDE DEF place
  <2>. QED BY <2>1, <2>2
<1>. HIDE DEF place
<1>7. \A k \in K : \A j \in 1..n[k] :
        line[k][j] \in H /\ part[line[k][j]] = k /\ place[line[k][j]] = j
  <2>. SUFFICES ASSUME NEW k \in K, NEW j \in 1..n[k]
                PROVE  line[k][j] \in H /\ part[line[k][j]] = k /\ place[line[k][j]] = j
    OBVIOUS
  <2>1. line[k][j] \in Of(k)
    BY <1>3
  <2>2. line[k][j] \in H /\ part[line[k][j]] = k
    BY <2>1 DEF Of
  <2>. QED BY <1>4, <1>5, <2>2
<1>8. ASSUME NEW x \in H, NEW y \in H, part[x] = part[y], place[x] <= place[y]
      PROVE  c[x] <= r[y]
  <2>1. CASE place[x] = place[y]
    BY <1>5, <1>8, <2>1
  <2>2. CASE place[x] < place[y]
    <3>1. IsLine(Of(part[x]), R, n[part[x]], line[part[x]])
      BY <1>3
    <3>2. /\ place[x] \in 1..n[part[x]] /\ line[part[x]][place[x]] = x
          /\ place[y] \in 1..n[part[x]] /\ line[part[x]][place[y]] = y
      BY <1>5, <1>8
    <3>3. <<y, x>> \notin R
      BY <2>2, <3>1, <3>2 DEF IsLine
    <3>4. r[y] \in Nat /\ c[x] \in Nat /\ ~ (r[y] < c[x])
      BY <3>3
    <3>. QED BY <3>4
  <2>3. place[x] \in Nat /\ place[y] \in Nat
    BY <1>6
  <2>. QED BY <1>8, <2>1, <2>2, <2>3
<1>at. PICK t : AreMoments(H, c, r, part, place, t)
  BY <1>6, <1>8, Moments
<1>9. /\ t \in [H -> Nat]
      /\ \A x \in H : c[x] <= t[x] /\ t[x] <= r[x]
      /\ \A x, y \in H : part[x] = part[y] /\ place[x] <= place[y] => t[x] <= t[y]
  BY <1>at DEF AreMoments
<1>10. \A x, y \in H : part[x] = part[y] /\ place[x] = place[y] => x = y
  BY <1>5
<1>merge. PICK B : Merges(H, t, part, place, B)
  BY <1>6, <1>9, <1>10, MergeOrder
<1>11. /\ IsOrdered(H, B)
       /\ \A x, y \in H : <<x, y>> \in B => t[x] <= t[y]
       /\ \A x, y \in H : <<x, y>> \in B /\ part[x] = part[y] => place[x] < place[y]
  BY <1>merge DEF Merges
<1>12. ASSUME NEW x \in H, NEW y \in H, <<x, y>> \in B PROVE <<y, x>> \notin R
  <2>1. t[x] <= t[y] /\ c[x] <= t[x] /\ t[y] <= r[y]
    BY <1>9, <1>11, <1>12
  <2>. QED BY <1>9, <2>1
<1>13. PICK N, order : LinesUp(H, R, B, N, order)
  BY <1>11, <1>12, LinedUp
<1>14. /\ N \in Nat /\ IsLine(H, R, N, order)
       /\ \A j, k \in 1..N : j < k => <<order[j], order[k]>> \in B
  BY <1>13 DEF LinesUp
<1>15. ASSUME NEW k \in K PROVE Agrees(N, order, n[k], line[k])
  <2>. SUFFICES ASSUME NEW i \in 1..n[k], NEW j \in 1..n[k], NEW p \in 1..N, NEW q \in 1..N,
                       i < j, order[p] = line[k][i], order[q] = line[k][j]
                PROVE  p < q
    BY DEF Agrees
  <2>1. /\ order[p] \in H /\ part[order[p]] = k /\ place[order[p]] = i
        /\ order[q] \in H /\ part[order[q]] = k /\ place[order[q]] = j
    BY <1>7
  <2>2. p # q
    BY <1>3, <2>1
  <2>3. ~ (q < p)
    <3>1. ASSUME q < p PROVE FALSE
      <4>1. <<order[q], order[p]>> \in B
        BY <1>14, <3>1
      <4>2. j < i
        BY <1>11, <2>1, <4>1
      <4>. QED BY <1>3, <4>2
    <3>. QED BY <3>1
  <2>. QED BY <2>2, <2>3
<1>. DEFINE Going(k, s) == Progress(Of(k), N, order, n[k], line[k], s)
            far == [k \in K |-> CHOOSE s : Going(k, s)]
<1>16. ASSUME NEW k \in K PROVE Going(k, far[k])
  <2>1. Of(k) \subseteq H
    BY DEF Of
  <2>2. n[k] \in Nat /\ IsLine(Of(k), R, n[k], line[k])
    BY <1>3
  <2>3. \E s : Progress(Of(k), N, order, n[k], line[k], s)
    BY <1>14, <1>15, <2>1, <2>2, Progresses
  <2>. QED BY <2>3
<1>. HIDE DEF far
<1>17. PICK F : IsTrial(in, out, N, order, F)
  <2>1. order \in [1..N -> H]
    BY <1>14 DEF IsLine
  <2>. QED BY <1>14, <2>1, Trials
<1>. DEFINE Held(k) == { Key[in[x]] : x \in Of(k) }
            S == { j \in 0..N : /\ F[j] \in State
                                /\ \A k \in K : \A o \in Held(k) :
                                     View[o][F[j]] = View[o][g[k][far[k][j]]] }
<1>18. 0 \in S
  <2>1. F[0] = InitState
    BY <1>17 DEF IsTrial
  <2>2. \A k \in K : far[k][0] = 0 /\ g[k][0] = InitState
    BY <1>3, <1>16 DEF Progress
  <2>. QED BY <1>14, <2>1, <2>2, ModelAssumption
<1>19. ASSUME NEW j \in 1..N, j - 1 \in S PROVE j \in S
  <2>. DEFINE x == order[j]
              k == part[x]
  <2>1. /\ x \in H /\ in[x] \in Input /\ out[x] \in Output /\ k \in K /\ x \in Of(k)
        /\ Key[in[x]] \in Held(k)
    <3>1. x \in H
      BY <1>14 DEF IsLine
    <3>. QED BY <3>1 DEF Of
  <2>2. /\ F[j - 1] \in State
        /\ \A l \in K : \A o \in Held(l) : View[o][F[j - 1]] = View[o][g[l][far[l][j - 1]]]
    BY <1>19
  <2>3. j \in 0..N /\ j - 1 \in 0..N
    BY <1>14
  <2>4. /\ far[k][j] \in 1..n[k] /\ far[k][j] - 1 = far[k][j - 1] /\ far[k][j - 1] \in 0..n[k]
        /\ line[k][far[k][j]] = x
    <3>. HIDE DEF k
    <3>1. Going(k, far[k])
      BY <1>16, <2>1
    <3>2. far[k][j] = far[k][j - 1] + 1 /\ line[k][far[k][j]] = x
          /\ far[k][j] \in 0..n[k] /\ far[k][j - 1] \in 0..n[k]
      BY <2>1, <2>3, <3>1 DEF Progress
    <3>3. n[k] \in Nat
      BY <1>3, <2>1
    <3>. QED BY <3>2, <3>3
  <2>. DEFINE s == g[k][far[k][j - 1]]
  <2>5. /\ s \in State /\ g[k][far[k][j]] = Step(s, in[x], out[x]) /\ Step(s, in[x], out[x]) # Rejected
    <3>. HIDE DEF k, x
    <3>1. s \in State
      BY <1>3, <2>1, <2>4
    <3>. DEFINE m == far[k][j]
    <3>2. m \in 1..n[k] /\ m - 1 = far[k][j - 1] /\ line[k][m] = x
      BY <2>4
    <3>3. g[k][m] = Step(g[k][m - 1], in[line[k][m]], out[line[k][m]]) /\ g[k][m] # Rejected
      <4>. HIDE DEF m
      <4>. QED BY <1>3, <2>1, <3>2
    <3>. QED BY <3>1, <3>2, <3>3
  <2>6. /\ Step(F[j - 1], in[x], out[x]) \in State /\ Step(F[j - 1], in[x], out[x]) # Rejected
        /\ \A o \in Held(k) : View[o][Step(s, in[x], out[x])] = View[o][Step(F[j - 1], in[x], out[x])]
    <3>1. \A o \in Held(k) : View[o][s] = View[o][F[j - 1]]
      BY <2>1, <2>2
    <3>2. AreKeys(Key, Held(k))
      BY <2>1 DEF Of, AreKeys
    <3>. HIDE DEF s, x, k, Held
    <3>. QED BY <2>1, <2>2, <2>5, <3>1, <3>2, SameViews
  <2>7. F[j] = Step(F[j - 1], in[x], out[x])
    BY <1>17, <2>2, ModelAssumption DEF IsTrial
  <2>8. ASSUME NEW l \in K, NEW o \in Held(l), l # k
        PROVE  View[o][F[j]] = View[o][g[l][far[l][j]]]
    <3>1. PICK y \in Of(l) : o = Key[in[y]]
      OBVIOUS
    <3>2. y \in H /\ part[y] = l /\ in[y] \in Input
      BY DEF Of
    <3>3. o # Key[in[x]]
      BY <2>1, <2>8, <3>1, <3>2
    <3>4. View[o][F[j]] = View[o][F[j - 1]]
      <4>1. Key[in[y]] # Key[in[x]] /\ in[y] \in Input /\ o = Key[in[y]]
        BY <3>1, <3>2, <3>3
      <4>. HIDE DEF x, k, Held
      <4>2. View[Key[in[y]]][Step(F[j - 1], in[x], out[x])] = View[Key[in[y]]][F[j - 1]]
        BY <2>1, <2>2, <2>6, <4>1 DEF IsLocal
      <4>. QED BY <2>7, <4>1, <4>2
    <3>5. x \notin Of(l)
      BY <2>8 DEF Of
    <3>6. far[l][j] = far[l][j - 1]
      <4>. HIDE DEF k
      <4>1. Going(l, far[l])
        BY <1>16
      <4>. QED BY <3>5, <4>1 DEF Progress
    <3>. QED BY <2>2, <3>4, <3>6
  <2>9. \A o \in Held(k) : View[o][F[j]] = View[o][g[k][far[k][j]]]
    <3>. HIDE DEF s, x, k, Held
    <3>. QED BY <2>5, <2>6, <2>7
  <2>10. \A l \in K : \A o \in Held(l) : View[o][F[j]] = View[o][g[l][far[l][j]]]
    <3>. HIDE DEF Held, k
    <3>. QED BY <2>8, <2>9
  <2>11. F[j] \in State
    BY <2>6, <2>7
  <2>. HIDE DEF Held
  <2>. QED BY <2>3, <2>10, <2>11
<1>20. N \in S
  <2>. HIDE DEF S
  <2>1. \A j \in 0..N : j \in S
    BY <1>14, <1>18, <1>19, Upward
  <2>. QED BY <1>14, <2>1
<1>21. F[N] # Rejected
  BY <1>20, ModelAssumption
<1>. QED BY <1>14, <1>17, <1>21 DEF Explained, Accepted

-----------------------------------------------------------------------------
(***************************************************************************)
(* The history as a set of operations.                                     *)
(***************************************************************************)
Ins      == [i \in HistoryOps |-> InputOf(i)]
Outs     == [i \in HistoryOps |-> OutputOf(i)]
RealTime == { z \in HistoryOps \X HistoryOps : HappensBefore(z[1], z[2]) }

HappenSometime == \E c, r : IsTimed(HistoryOps, RealTime, c, r)

(* A history that has passed its assertion is a finite set of operations,  *)
(* each called and returning at some time, that real time orders.          *)
LEMMA HistoryFacts ==
  ASSUME IInv, Built
  PROVE  /\ IsFiniteSet(HistoryOps) /\ HappenSometime
         /\ \A i \in HistoryOps : InputOf(i) \in Input /\ OutputOf(i) \in Output
<1>1. CASE form = "operations"
  <2>1. history \in Seq(Operation) /\ assert_well_formed(history)
    BY <1>1, InputsAssumption DEF IInv, InputInv, AssertedInv, Built, HistoryAsserted
  <2>2. Len(history) \in Nat /\ HistoryOps = 1..Len(history) /\ HistoryOps = DOMAIN history
    BY <1>1, <2>1 DEF HistoryOps
  <2>3. IsFiniteSet(HistoryOps)
    BY <2>2, FS_Interval
  <2>4. ASSUME NEW i \in HistoryOps
        PROVE  /\ history[i].call \in Nat /\ history[i].return_time \in Nat
               /\ history[i].call <= history[i].return_time
               /\ history[i].input \in Input /\ history[i].output \in Output
    <3>1. history[i] \in Operation
      BY <2>1, <2>2
    <3>. QED BY <2>1, <2>2, <3>1 DEF Operation, assert_well_formed
  <2>. DEFINE c == [i \in HistoryOps |-> history[i].call]
              r == [i \in HistoryOps |-> history[i].return_time]
  <2>5. IsTimed(HistoryOps, RealTime, c, r)
    <3>. HIDE DEF HistoryOps
    <3>. QED BY <1>1, <2>4 DEF IsTimed, RealTime, HappensBefore
  <2>. QED BY <1>1, <2>3, <2>4, <2>5 DEF HappenSometime, InputOf, OutputOf
<1>2. CASE form = "events"
  <2>1. history \in Seq(Event) /\ assert_well_formed_events(history)
    BY <1>2, InputsAssumption DEF IInv, InputInv, AssertedInv, Built, HistoryAsserted
  <2>2. PICK hc, hr : PairedAt(history, hc, hr)
    BY <2>1, EventPairs
  <2>3. /\ HistoryOps = EventIds(history)
        /\ \A i \in HistoryOps : EventOf(i, "call") = hc[i] /\ EventOf(i, "return") = hr[i]
    BY <1>2, <2>2, EventsOf
  <2>4. IsFiniteSet(HistoryOps)
    BY <2>1, <2>2, <2>3, NewIds
  <2>5. DOMAIN history \subseteq Nat
    BY <2>1, EventTypes
  <2>. DEFINE c == [i \in HistoryOps |-> hc[i]]
              r == [i \in HistoryOps |-> hr[i]]
  <2>6. ASSUME NEW i \in HistoryOps
        PROVE  /\ hc[i] \in Nat /\ hr[i] \in Nat /\ hc[i] < hr[i]
               /\ history[hc[i]].input \in Input /\ history[hr[i]].output \in Output
    BY <2>2, <2>3, <2>5 DEF PairedAt
  <2>7. IsTimed(HistoryOps, RealTime, c, r)
    <3>1. ASSUME NEW i \in HistoryOps, NEW j \in HistoryOps
          PROVE  HappensBefore(i, j) <=> hr[i] < hc[j]
      BY <1>2, <2>3 DEF HappensBefore
    <3>. QED BY <2>6, <3>1 DEF IsTimed, RealTime
  <2>8. \A i \in HistoryOps : InputOf(i) \in Input /\ OutputOf(i) \in Output
    BY <1>2, <2>3, <2>6 DEF InputOf, OutputOf
  <2>. QED BY <2>4, <2>7, <2>8 DEF HappenSometime
<1>. QED BY <1>1, <1>2 DEF IInv, InputInv

(* Their inputs and outputs are those of the model.                        *)
LEMMA InsAndOuts ==
  ASSUME IInv, Built
  PROVE  Ins \in [HistoryOps -> Input] /\ Outs \in [HistoryOps -> Output]
BY HistoryFacts DEF Ins, Outs

(* The states after the first operations of an order are those of a trial. *)
LEMMA StateAfterIs ==
  ASSUME IInv, Built, NEW n \in Nat, NEW order \in [1..n -> HistoryOps], NEW f,
         IsTrial(Ins, Outs, n, order, f)
  PROVE  StateAfter(order, n) = f[n]
<1>. DEFINE S == State \cup {Rejected}
            loop(g) ==
              [m \in 0..n |->
                 IF m = 0 THEN InitState
                 ELSE IF g[m - 1] = Rejected THEN Rejected
                      ELSE Step(g[m - 1], InputOf(order[m]), OutputOf(order[m]))]
            after == CHOOSE g : g = loop(g)
<1>1. /\ \A m \in 1..n : Ins[order[m]] = InputOf(order[m]) /\ Outs[order[m]] = OutputOf(order[m])
      /\ Ins \in [HistoryOps -> Input] /\ Outs \in [HistoryOps -> Output]
  BY InsAndOuts DEF Ins, Outs
<1>2. f \in [0..n -> S] /\ f[0] = InitState
  BY DEF IsTrial
<1>3. f = loop(f)
  <2>1. ASSUME NEW m \in 0..n PROVE f[m] = loop(f)[m]
    <3>1. CASE m = 0
      BY <1>2, <3>1
    <3>2. CASE m # 0
      <4>1. m \in 1..n
        BY <3>2
      <4>2. loop(f)[m] = IF f[m - 1] = Rejected THEN Rejected
                         ELSE Step(f[m - 1], InputOf(order[m]), OutputOf(order[m]))
        BY <3>2
      <4>3. f[m] = IF f[m - 1] = Rejected THEN Rejected
                   ELSE Step(f[m - 1], Ins[order[m]], Outs[order[m]])
        BY <4>1 DEF IsTrial
      <4>. QED BY <1>1, <4>1, <4>2, <4>3
    <3>. QED BY <3>1, <3>2
  <2>2. f = [m \in 0..n |-> f[m]] /\ loop(f) = [m \in 0..n |-> loop(f)[m]]
    BY <1>2
  <2>. HIDE DEF loop
  <2>3. [m \in 0..n |-> f[m]] = [m \in 0..n |-> loop(f)[m]]
    BY <2>1
  <2>. QED BY <2>2, <2>3
<1>4. after = loop(after)
  BY <1>3
<1>5. Loops!Follows(after, n, S, InitState, TrialStep(Ins, Outs, n, order))
  <2>1. after = [m \in 0..n |-> after[m]] /\ after[0] = InitState
    <3>1. ASSUME NEW g, g = loop(g) PROVE g = [m \in 0..n |-> g[m]] /\ g[0] = InitState
      <4>1. loop(g) = [m \in 0..n |-> loop(g)[m]] /\ loop(g)[0] = InitState
        OBVIOUS
      <4>. HIDE DEF loop
      <4>. QED BY <3>1, <4>1
    <3>. HIDE DEF after, loop
    <3>. QED BY <1>4, <3>1
  <2>2. ASSUME NEW m \in 1..n, after[m - 1] \in S
        PROVE  after[m] = TrialStep(Ins, Outs, n, order)[<<m, after[m - 1]>>]
    <3>1. ASSUME NEW g, g = loop(g)
          PROVE  g[m] = IF g[m - 1] = Rejected THEN Rejected
                        ELSE Step(g[m - 1], InputOf(order[m]), OutputOf(order[m]))
      <4>1. m \in 0..n /\ m # 0
        OBVIOUS
      <4>2. loop(g)[m] = IF g[m - 1] = Rejected THEN Rejected
                         ELSE Step(g[m - 1], InputOf(order[m]), OutputOf(order[m]))
        BY <4>1
      <4>. HIDE DEF loop
      <4>. QED BY <3>1, <4>2
    <3>. HIDE DEF after, loop
    <3>2. after[m] = IF after[m - 1] = Rejected THEN Rejected
                     ELSE Step(after[m - 1], InputOf(order[m]), OutputOf(order[m]))
      BY <1>4, <3>1
    <3>3. TrialStep(Ins, Outs, n, order)[<<m, after[m - 1]>>] =
            IF after[m - 1] = Rejected THEN Rejected
            ELSE Step(after[m - 1], Ins[order[m]], Outs[order[m]])
      BY <2>2 DEF TrialStep
    <3>. QED BY <1>1, <3>2, <3>3
  <2>. HIDE DEF after
  <2>. QED BY <2>1, <2>2 DEF Loops!Follows
<1>6. /\ Loops!IsCourse(f, n, S, InitState, TrialStep(Ins, Outs, n, order))
      /\ InitState \in S
      /\ TrialStep(Ins, Outs, n, order) \in [(1..n) \X S -> S]
  BY <1>1, TrialIsCourse
<1>7. after = f
  <2>. HIDE DEF after, S
  <2>. QED BY <1>5, <1>6, Loops!OneCourse
<1>8. StateAfter(order, n) = after[n]
  BY DEF StateAfter
<1>. HIDE DEF after
<1>. QED BY <1>7, <1>8

(* The history is linearizable when its operations are explained.          *)
LEMMA HistoryExplained ==
  ASSUME IInv, Built
  PROVE  HistoryLinearizable <=> Explained(HistoryOps, RealTime, Ins, Outs)
<1>. DEFINE H == HistoryOps
            N == Cardinality(H)
<1>1. /\ IsFiniteSet(H) /\ N \in Nat
      /\ Ins \in [H -> Input] /\ Outs \in [H -> Output]
  BY HistoryFacts, InsAndOuts, FS_CardinalityType
<1>2. \A i, j \in H : <<i, j>> \in RealTime <=> HappensBefore(i, j)
  BY DEF RealTime
<1>3. \A n \in Nat : \A order \in [1..n -> H] : DOMAIN order = 1..n /\ Len(order) = n
  OBVIOUS
<1>. HIDE DEF H
<1>4. ASSUME HistoryLinearizable PROVE Explained(H, RealTime, Ins, Outs)
  <2>1. PICK order \in SetToSeqs(H) :
          /\ \A j, k \in DOMAIN order : j < k => ~ HappensBefore(order[k], order[j])
          /\ StateAfter(order, Len(order)) # Rejected
    BY <1>4 DEF HistoryLinearizable, H
  <2>2. /\ order \in [1..N -> H]
        /\ \A i, j \in 1..N : i # j => order[i] # order[j]
    BY <2>1 DEF SetToSeqs
  <2>. HIDE DEF N
  <2>3. DOMAIN order = 1..N /\ Len(order) = N
    BY <1>1, <1>3, <2>2
  <2>4. \A x \in H : \E m \in 1..N : order[m] = x
    <3>1. order \in Injection(1..N, H)
      BY <2>2 DEF Injection, IsInjective
    <3>2. IsFiniteSet(1..N) /\ Cardinality(1..N) = N
      BY <1>1, FS_Interval
    <3>3. order \in Surjection(1..N, H)
      BY <1>1, <3>1, <3>2, FS_Injection DEF N
    <3>. QED BY <3>3 DEF Surjection
  <2>5. \A j, k \in 1..N : j < k =>
          order[j] # order[k] /\ <<order[k], order[j]>> \notin RealTime
    BY <1>2, <2>1, <2>2, <2>3
  <2>6. IsLine(H, RealTime, N, order)
    BY <2>2, <2>4, <2>5 DEF IsLine
  <2>7. PICK f : IsTrial(Ins, Outs, N, order, f)
    BY <1>1, <2>2, Trials
  <2>8. StateAfter(order, N) = f[N]
    BY <1>1, <2>2, <2>7, StateAfterIs DEF H
  <2>9. Accepted(H, RealTime, Ins, Outs, N, order, f)
    BY <1>1, <2>1, <2>3, <2>6, <2>7, <2>8 DEF Accepted
  <2>. QED BY <2>9 DEF Explained
<1>5. ASSUME Explained(H, RealTime, Ins, Outs) PROVE HistoryLinearizable
  <2>1. PICK n, line, f : Accepted(H, RealTime, Ins, Outs, n, line, f)
    BY <1>5 DEF Explained
  <2>2. /\ n \in Nat /\ IsLine(H, RealTime, n, line) /\ line \in [1..n -> H]
        /\ IsTrial(Ins, Outs, n, line, f) /\ f[n] # Rejected
    BY <2>1 DEF Accepted, IsLine
  <2>3. N = n
    BY <2>2, LineSize
  <2>4. \A i, j \in 1..n : i # j => line[i] # line[j]
    <3>1. ASSUME NEW i \in 1..n, NEW j \in 1..n, i # j PROVE line[i] # line[j]
      <4>1. i < j \/ j < i
        BY <3>1
      <4>. QED BY <2>2, <4>1 DEF IsLine
    <3>. QED BY <3>1
  <2>5. line \in SetToSeqs(H)
    BY <2>2, <2>3, <2>4 DEF SetToSeqs
  <2>6. DOMAIN line = 1..n /\ Len(line) = n
    BY <1>3, <2>2
  <2>7. \A j, k \in DOMAIN line : j < k => ~ HappensBefore(line[k], line[j])
    <3>1. \A j, k \in 1..n : j < k => <<line[k], line[j]>> \notin RealTime
      BY <2>2 DEF IsLine
    <3>2. \A j \in 1..n : line[j] \in H
      BY <2>2
    <3>. QED BY <1>2, <2>6, <3>1, <3>2
  <2>8. StateAfter(line, Len(line)) # Rejected
    BY <2>2, <2>6, StateAfterIs DEF H
  <2>. QED BY <2>5, <2>7, <2>8 DEF HistoryLinearizable, H
<1>. QED BY <1>4, <1>5 DEF H

(* The operations of the history that list k holds.                        *)
OpsOf(k) == { Origin(k, a) : a \in Ops(lists[k]) }

(* The list says of them what the history does.                            *)
Tells(k, m) ==
  /\ m \in Nat /\ Ops(lists[k]) = 0..(m - 1) /\ Len(lists[k]) \div 2 = m
  /\ \A a \in Ops(lists[k]) : /\ Origin(k, a) \in HistoryOps
                              /\ lists[k][CallOf(lists[k], a)].value = Ins[Origin(k, a)]
                              /\ lists[k][ReturnOf(lists[k], a)].value = Outs[Origin(k, a)]
  /\ \A a, b \in Ops(lists[k]) :
       /\ Precedes(lists[k], a, b) <=> <<Origin(k, a), Origin(k, b)>> \in RealTime
       /\ Origin(k, a) = Origin(k, b) => a = b

(* Every list built does.                                                  *)
LEMMA ListTells ==
  ASSUME IInv, AnswersAscend, Built, NEW k \in DOMAIN lists
  PROVE  \E m : Tells(k, m)
<1>1. PICK m \in Nat : \E c, r :
        /\ ListIs(k, m, c, r) /\ EndsAt(lists[k], m, c, r)
        /\ Ops(lists[k]) = 0..(m - 1)
        /\ \A a \in 0..(m - 1) : CallOf(lists[k], a) = c[a] /\ ReturnOf(lists[k], a) = r[a]
  BY ListsBuilt
<1>2. PICK c, r :
        /\ ListIs(k, m, c, r) /\ EndsAt(lists[k], m, c, r)
        /\ Ops(lists[k]) = 0..(m - 1)
        /\ \A a \in 0..(m - 1) : CallOf(lists[k], a) = c[a] /\ ReturnOf(lists[k], a) = r[a]
  BY <1>1
<1>3. Len(lists[k]) = 2 * m
  BY <1>2 DEF EndsAt
<1>4. Len(lists[k]) \div 2 = m
  BY <1>3
<1>5. ASSUME NEW a \in Ops(lists[k])
      PROVE  /\ Origin(k, a) \in HistoryOps
             /\ lists[k][CallOf(lists[k], a)].value = Ins[Origin(k, a)]
             /\ lists[k][ReturnOf(lists[k], a)].value = Outs[Origin(k, a)]
  <2>1. /\ Origin(k, a) \in HistoryOps
        /\ lists[k][CallOf(lists[k], a)].value = InputOf(Origin(k, a))
        /\ lists[k][ReturnOf(lists[k], a)].value = OutputOf(Origin(k, a))
    BY <1>2 DEF ListIs
  <2>. QED BY <2>1 DEF Ins, Outs
<1>6. ASSUME NEW a \in Ops(lists[k]), NEW b \in Ops(lists[k])
      PROVE  /\ Precedes(lists[k], a, b) <=> <<Origin(k, a), Origin(k, b)>> \in RealTime
             /\ Origin(k, a) = Origin(k, b) => a = b
  <2>1. Precedes(lists[k], a, b) <=> HappensBefore(Origin(k, a), Origin(k, b))
    BY InvRealTime DEF RealTimeKept
  <2>2. Origin(k, a) = Origin(k, b) => a = b
    BY ListsBuilt DEF OncePerList
  <2>. QED BY <1>5, <2>1, <2>2 DEF RealTime
<1>. QED BY <1>2, <1>4, <1>5, <1>6 DEF Tells

(* A list is linearizable when the operations it holds are explained.      *)
LEMMA ListExplained ==
  ASSUME IInv, AnswersAscend, Built, NEW k \in DOMAIN lists
  PROVE  /\ OpsOf(k) \subseteq HistoryOps
         /\ Linearizable(lists[k]) <=> Explained(OpsOf(k), RealTime, Ins, Outs)
<1>. DEFINE L == lists[k]
            I == Ops(L)
            O(a) == Origin(k, a)
<1>1. PICK m : Tells(k, m)
  BY ListTells
<1>2. /\ m \in Nat /\ I = 0..(m - 1) /\ Len(L) \div 2 = m
      /\ \A a \in I : /\ O(a) \in HistoryOps
                      /\ \A s : Apply(L, s, a) = Step(s, Ins[O(a)], Outs[O(a)])
      /\ \A a, b \in I : /\ Precedes(L, a, b) <=> <<O(a), O(b)>> \in RealTime
                         /\ O(a) = O(b) => a = b
  BY <1>1 DEF Tells, Apply
<1>3. OpsOf(k) = { O(a) : a \in I } /\ OpsOf(k) \subseteq HistoryOps
  BY <1>2 DEF OpsOf
<1>4. Linearizable(L) <=> Completable(L, I, m, InitState)
  BY <1>2 DEF Linearizable
<1>. HIDE DEF L, I, O
<1>5. ASSUME Completable(L, I, m, InitState)
      PROVE  Explained(OpsOf(k), RealTime, Ins, Outs)
  <2>1. PICK order \in [1..m -> I] :
          IsOrder(L, I, m, order) /\ \E at \in [0..m -> State] : IsRun(L, InitState, m, order, at)
    BY <1>5 DEF Completable
  <2>2. PICK at \in [0..m -> State] : IsRun(L, InitState, m, order, at)
    BY <2>1
  <2>. DEFINE line == [j \in 1..m |-> O(order[j])]
  <2>3. \A j \in 1..m : order[j] \in I /\ line[j] = O(order[j])
    OBVIOUS
  <2>4. line \in [1..m -> OpsOf(k)]
    BY <1>3
  <2>. HIDE DEF line
  <2>5. \A x \in OpsOf(k) : \E j \in 1..m : line[j] = x
    <3>1. \A a \in I : \E j \in 1..m : order[j] = a
      BY <2>1 DEF IsOrder
    <3>. QED BY <1>3, <2>3, <3>1
  <2>6. ASSUME NEW i \in 1..m, NEW j \in 1..m, i < j
        PROVE  line[i] # line[j] /\ <<line[j], line[i]>> \notin RealTime
    <3>1. order[i] # order[j] /\ ~ Precedes(L, order[j], order[i])
      BY <2>1, <2>6 DEF IsOrder
    <3>. QED BY <1>2, <2>3, <3>1
  <2>7. IsLine(OpsOf(k), RealTime, m, line)
    BY <2>4, <2>5, <2>6 DEF IsLine
  <2>8. ASSUME NEW j \in 1..m
        PROVE  at[j] = IF at[j - 1] = Rejected THEN Rejected
                       ELSE Step(at[j - 1], Ins[line[j]], Outs[line[j]])
    <3>1. j - 1 \in 0..m
      BY <1>2
    <3>2. at[j - 1] \in State
      BY <2>2, <3>1
    <3>3. at[j] = Apply(L, at[j - 1], order[j])
      BY <2>2 DEF IsRun
    <3>4. at[j - 1] # Rejected
      BY <3>2, ModelAssumption
    <3>. QED BY <1>2, <2>3, <3>3, <3>4
  <2>9. at \in [0..m -> State \cup {Rejected}] /\ at[0] = InitState
    BY <2>2 DEF IsRun
  <2>10. IsTrial(Ins, Outs, m, line, at)
    BY <2>8, <2>9 DEF IsTrial
  <2>11. at[m] # Rejected
    BY <1>2, ModelAssumption
  <2>12. Accepted(OpsOf(k), RealTime, Ins, Outs, m, line, at)
    BY <1>2, <2>7, <2>10, <2>11 DEF Accepted
  <2>. QED BY <2>12 DEF Explained
<1>6. ASSUME Explained(OpsOf(k), RealTime, Ins, Outs)
      PROVE  Completable(L, I, m, InitState)
  <2>1. PICK n, line, f : Accepted(OpsOf(k), RealTime, Ins, Outs, n, line, f)
    BY <1>6 DEF Explained
  <2>2. /\ n \in Nat /\ IsLine(OpsOf(k), RealTime, n, line) /\ line \in [1..n -> OpsOf(k)]
        /\ f[0] = InitState
        /\ \A j \in 0..n : f[j] \in State
        /\ \A j \in 1..n : f[j] = Step(f[j - 1], Ins[line[j]], Outs[line[j]])
    BY <2>1, AcceptedRuns
  <2>. DEFINE order == [j \in 1..n |-> CHOOSE a \in I : O(a) = line[j]]
              Before == { z \in I \X I : Precedes(L, z[1], z[2]) }
  <2>3. \A j \in 1..n : order[j] \in I /\ O(order[j]) = line[j]
    <3>1. \A j \in 1..n : \E a \in I : O(a) = line[j]
      BY <1>3, <2>2
    <3>. QED BY <3>1
  <2>4. order \in [1..n -> I]
    BY <2>3
  <2>. HIDE DEF order
  <2>5. \A a \in I : \E j \in 1..n : order[j] = a
    <3>1. ASSUME NEW a \in I PROVE \E j \in 1..n : order[j] = a
      <4>1. O(a) \in OpsOf(k)
        BY <1>3
      <4>2. PICK j \in 1..n : line[j] = O(a)
        BY <2>2, <4>1 DEF IsLine
      <4>. QED BY <1>2, <2>3, <4>2
    <3>. QED BY <3>1
  <2>6. ASSUME NEW i \in 1..n, NEW j \in 1..n, i < j
        PROVE  order[i] # order[j] /\ ~ Precedes(L, order[j], order[i])
    <3>1. line[i] # line[j] /\ <<line[j], line[i]>> \notin RealTime
      BY <2>2, <2>6 DEF IsLine
    <3>. QED BY <1>2, <2>3, <3>1
  <2>7. IsLine(I, Before, n, order)
    BY <2>4, <2>5, <2>6 DEF IsLine
  <2>8. n = m
    <3>1. Cardinality(I) = n
      BY <2>2, <2>7, LineSize
    <3>2. 0 \in Int /\ m - 1 \in Int
      BY <1>2
    <3>3. Cardinality(0..(m - 1)) = IF 0 > m - 1 THEN 0 ELSE (m - 1) - 0 + 1
      BY <3>2, FS_Interval
    <3>. QED BY <1>2, <3>1, <3>3
  <2>9. IsOrder(L, I, n, order)
    <3>1. { order[j] : j \in 1..n } = I
      BY <2>4, <2>5
    <3>. QED BY <2>6, <3>1 DEF IsOrder
  <2>10. f \in [0..n -> State]
    <3>1. f \in [0..n -> State \cup {Rejected}]
      BY <2>1 DEF Accepted, IsTrial
    <3>. QED BY <2>2, <3>1
  <2>11. IsRun(L, InitState, n, order, f)
    <3>1. ASSUME NEW j \in 1..n PROVE f[j] \in State /\ f[j] = Apply(L, f[j - 1], order[j])
      <4>1. f[j] \in State
        BY <2>2
      <4>2. order[j] \in I /\ O(order[j]) = line[j]
        BY <2>3
      <4>3. Apply(L, f[j - 1], order[j]) = Step(f[j - 1], Ins[line[j]], Outs[line[j]])
        BY <1>2, <4>2
      <4>. QED BY <2>2, <4>1, <4>3
    <3>. QED BY <2>2, <3>1 DEF IsRun
  <2>. QED BY <2>4, <2>8, <2>9, <2>10, <2>11 DEF Completable
<1>. QED BY <1>3, <1>4, <1>5, <1>6 DEF L

-----------------------------------------------------------------------------
(* The operation of the history that position p of a part is of.           *)
OpAt(p) == IF form = "operations" THEN p ELSE history[p].id

(* No two parts concern the same key.                                      *)
PartsByKey(Key) ==
  parts # NoPartition =>
    \A k, l \in DOMAIN parts : \A p \in DOMAIN parts[k], q \in DOMAIN parts[l] :
      Key[InputOf(OpAt(parts[k][p]))] = Key[InputOf(OpAt(parts[l][q]))] => k = l

(* The operations of a list are those of its part.                         *)
LEMMA OriginInPart ==
  ASSUME IInv, AnswersAscend, Built, NEW k \in DOMAIN lists, NEW a \in Ops(lists[k])
  PROVE  \E p \in DOMAIN TheParts[k] : Origin(k, a) = OpAt(TheParts[k][p])
<1>1. CASE form = "operations"
  <2>1. /\ DOMAIN TheParts[k] = 1..Len(TheParts[k]) /\ Len(TheParts[k]) \in Nat
        /\ a \in 0..(Len(TheParts[k]) - 1)
        /\ Origin(k, a) = TheParts[k][a + 1]
    BY <1>1, OperationListOf
  <2>2. a + 1 \in DOMAIN TheParts[k]
    BY <2>1
  <2>. QED BY <1>1, <2>1, <2>2 DEF OpAt
<1>2. CASE form = "events"
  <2>1. history \in Seq(Event) /\ assert_well_formed_events(history)
    BY <1>2, InputsAssumption DEF IInv, InputInv, AssertedInv, Built, HistoryAsserted
  <2>2. PICK hc, hr : PairedAt(history, hc, hr)
    BY <2>1, EventPairs
  <2>3. CallOf(lists[k], a) \in DOMAIN TheParts[k]
    BY <1>2, <2>2, EventListOf
  <2>4. Origin(k, a) = history[TheParts[k][CallOf(lists[k], a)]].id
    BY <1>2, PartsAre DEF Origin
  <2>. QED BY <1>2, <2>3, <2>4 DEF OpAt
<1>. QED BY <1>1, <1>2 DEF IInv, InputInv

(* Operations of different lists have different keys.                      *)
LEMMA KeysApart ==
  ASSUME IInv, AnswersAscend, Built, NEW Key, PartsByKey(Key),
         NEW k \in DOMAIN lists, NEW l \in DOMAIN lists,
         NEW x \in OpsOf(k), NEW y \in OpsOf(l), Key[InputOf(x)] = Key[InputOf(y)]
  PROVE  k = l
<1>1. DOMAIN lists = DOMAIN TheParts
  BY PartsAre
<1>2. CASE parts = NoPartition
  BY <1>1, <1>2 DEF TheParts
<1>3. CASE parts # NoPartition
  <2>1. PICK p \in DOMAIN TheParts[k] : x = OpAt(TheParts[k][p])
    BY OriginInPart DEF OpsOf
  <2>2. PICK q \in DOMAIN TheParts[l] : y = OpAt(TheParts[l][q])
    BY OriginInPart DEF OpsOf
  <2>3. TheParts = parts
    BY <1>3 DEF TheParts
  <2>. QED BY <1>1, <1>3, <2>1, <2>2, <2>3 DEF PartsByKey
<1>. QED BY <1>2, <1>3

(* The lists share the operations of the history out.                      *)
LEMMA ListsShareOut ==
  ASSUME IInv, AnswersAscend, Built
  PROVE  /\ DOMAIN lists \subseteq Nat
         /\ \A x \in HistoryOps : \E k \in DOMAIN lists : x \in OpsOf(k)
         /\ \A k, l \in DOMAIN lists : \A x : x \in OpsOf(k) /\ x \in OpsOf(l) => k = l
<1>1. DOMAIN lists \subseteq Nat
  <2>1. DOMAIN lists = DOMAIN TheParts
    BY PartsAre
  <2>2. CASE parts = NoPartition
    BY <2>1, <2>2 DEF TheParts
  <2>3. CASE parts # NoPartition
    <3>1. parts \in Seq(Seq(Nat))
      BY <2>3, InputsAssumption DEF IInv, InputInv, IsAnswer
    <3>. QED BY <2>1, <2>3, <3>1 DEF TheParts
  <2>. QED BY <2>2, <2>3
<1>. QED BY <1>1, ListsBuilt DEF OncePerList, OpsOf

(* The verdict is that of the lists.                                       *)
VerdictInv == pc = "done" => (verdict = "ok" <=> \A k \in DOMAIN lists : Linearizable(lists[k]))

LEMMA InitVerdict == Init => VerdictInv
BY DEF Init, VerdictInv

LEMMA StepVerdict == VerdictInv /\ [Next]_vars => VerdictInv'
<1>. SUFFICES ASSUME VerdictInv, [Next]_vars PROVE VerdictInv'
  OBVIOUS
<1>1. CASE AssertHistory
  BY <1>1 DEF AssertHistory, VerdictInv
<1>2. CASE Partition
  BY <1>2 DEF Partition, VerdictInv
<1>3. CASE NotPartitioned
  BY <1>3 DEF NotPartitioned, VerdictInv
<1>4. CASE AssertPartition
  BY <1>4 DEF AssertPartition, VerdictInv
<1>5. CASE FlattenWhole
  BY <1>5 DEF FlattenWhole, VerdictInv
<1>6. CASE FlattenParts
  BY <1>6 DEF FlattenParts, VerdictInv
<1>7. CASE Search
  BY <1>7 DEF Search, VerdictInv
<1>8. CASE Stop \/ UNCHANGED vars
  BY <1>8 DEF Stop, vars, VerdictInv
<1>. QED BY <1>1, <1>2, <1>3, <1>4, <1>5, <1>6, <1>7, <1>8 DEF Next

(* So it says whether the operations of each list are explained.           *)
LEMMA VerdictExplained ==
  ASSUME IInv, AnswersAscend, VerdictInv, pc = "done"
  PROVE  verdict = "ok" <=> \A k \in DOMAIN lists : Explained(OpsOf(k), RealTime, Ins, Outs)
<1>1. Built
  BY DEF Built
<1>. QED BY <1>1, ListExplained DEF VerdictInv

(* One list holds them all.                                                *)
LEMMA InvVerdictOfWhole ==
  ASSUME IInv, AnswersAscend, VerdictInv, parts = NoPartition
  PROVE  VerdictIsOfHistory
<1>. SUFFICES ASSUME pc = "done" PROVE verdict = "ok" <=> HistoryLinearizable
  BY DEF VerdictIsOfHistory
<1>1. Built
  BY DEF Built
<1>2. DOMAIN lists = {1}
  BY <1>1, PartsAre DEF TheParts
<1>3. OpsOf(1) = HistoryOps
  BY <1>1, <1>2, ListsShareOut, ListExplained
<1>. QED BY <1>1, <1>2, <1>3, VerdictExplained, HistoryExplained

(* What explains the lists explains the history, and conversely.           *)
LEMMA InvVerdictIsLocal ==
  ASSUME IInv, AnswersAscend, VerdictInv, NEW Key, NEW View, IsLocal(Key, View), PartsByKey(Key)
  PROVE  VerdictIsOfHistory
<1>. SUFFICES ASSUME pc = "done" PROVE verdict = "ok" <=> HistoryLinearizable
  BY DEF VerdictIsOfHistory
<1>. DEFINE H == HistoryOps
            K == DOMAIN lists
<1>1. Built
  BY DEF Built
<1>2. /\ K \subseteq Nat
      /\ \A x \in H : \E k \in K : x \in OpsOf(k)
      /\ \A k, l \in K : \A x : x \in OpsOf(k) /\ x \in OpsOf(l) => k = l
      /\ \A k \in K : OpsOf(k) \subseteq H
  BY <1>1, ListsShareOut, ListExplained
<1>3. Ins \in [H -> Input] /\ Outs \in [H -> Output] /\ IsFiniteSet(H)
  BY <1>1, InsAndOuts, HistoryFacts
<1>4. ASSUME NEW k \in K, NEW l \in K, NEW x \in OpsOf(k), NEW y \in OpsOf(l),
             Key[Ins[x]] = Key[Ins[y]]
      PROVE  k = l
  <2>1. Ins[x] = InputOf(x) /\ Ins[y] = InputOf(y)
    BY <1>2 DEF Ins
  <2>. QED BY <1>1, <1>4, <2>1, KeysApart
<1>5. PICK c, r : IsTimed(H, RealTime, c, r)
  BY <1>1, HistoryFacts DEF HappenSometime
<1>. DEFINE part == [x \in H |-> CHOOSE k \in K : x \in OpsOf(k)]
<1>. HIDE DEF H, K
<1>7. \A x \in H : part[x] \in K /\ x \in OpsOf(part[x])
  BY <1>2
<1>8. part \in [H -> Nat]
  BY <1>2, <1>7
<1>. HIDE DEF part
<1>9. \A k \in K : { x \in H : part[x] = k } = OpsOf(k)
  BY <1>2, <1>7
<1>10. ASSUME \A k \in K : Explained(OpsOf(k), RealTime, Ins, Outs)
       PROVE  Explained(H, RealTime, Ins, Outs)
  <2>1. IsSplit(Key, H, Ins, part, K)
    BY <1>4, <1>7, <1>8 DEF IsSplit
  <2>2. \A k \in K : Explained({ x \in H : part[x] = k }, RealTime, Ins, Outs)
    BY <1>9, <1>10
  <2>. QED BY <1>3, <1>5, <2>1, <2>2, Merged
<1>11. ASSUME Explained(H, RealTime, Ins, Outs), NEW k \in K
       PROVE  Explained(OpsOf(k), RealTime, Ins, Outs)
  <2>1. \A x \in OpsOf(k), y \in H \ OpsOf(k) : Key[Ins[x]] # Key[Ins[y]]
    BY <1>2, <1>4, <1>7
  <2>2. OpsOf(k) \subseteq H
    BY <1>2
  <2>. QED BY <1>3, <1>11, <2>1, <2>2, Restricted
<1>12. HistoryLinearizable <=> Explained(H, RealTime, Ins, Outs)
  BY <1>1, HistoryExplained DEF H
<1>13. verdict = "ok" <=> \A k \in K : Explained(OpsOf(k), RealTime, Ins, Outs)
  BY VerdictExplained DEF K
<1>. QED BY <1>10, <1>11, <1>12, <1>13

-----------------------------------------------------------------------------
(* The positions of a key are in ascending order, and are all of them.     *)
LEMMA IndicesAre ==
  ASSUME NEW keys, Len(keys) \in Nat, DOMAIN keys = 1..Len(keys), NEW k
  PROVE  LET x == IndicesOf(keys, k) IN
         /\ \A i \in DOMAIN x : x[i] \in DOMAIN keys /\ keys[x[i]] = k
         /\ \A i, j \in DOMAIN x : i < j => x[i] < x[j]
<1>. DEFINE mine == { p \in DOMAIN keys : keys[p] = k }
            R    == { z \in mine \X mine : z[1] < z[2] }
            x    == IndicesOf(keys, k)
<1>1. IsFiniteSet(mine) /\ mine \subseteq 1..Len(keys)
  <2>1. IsFiniteSet(1..Len(keys))
    BY FS_Interval
  <2>. QED BY <2>1, FS_Subset
<1>2. x = [n \in 1..Cardinality(mine) |->
             CHOOSE p \in mine : Cardinality({ q \in mine : q < p }) = n - 1]
  BY DEF IndicesOf
<1>3. \A p \in mine : p \in DOMAIN keys /\ keys[p] = k /\ p \in Nat
  BY <1>1
<1>. HIDE DEF mine, x
<1>4. \A p, q \in mine : <<p, q>> \in R <=> p < q
  OBVIOUS
<1>. HIDE DEF R
<1>5. IsOrdered(mine, R)
  <2>1. \A p, q : <<p, q>> \in R => p \in mine /\ q \in mine
    BY DEF R
  <2>. QED BY <1>3, <1>4, <2>1 DEF IsOrdered
<1>6. PICK rank : IsRank(mine, R, rank)
  BY <1>1, <1>5, Ranks
<1>7. Cardinality(mine) \in Nat
  BY <1>1, FS_CardinalityType
<1>8. \A p \in mine : rank[p] = Cardinality({ q \in mine : q < p })
  <2>1. ASSUME NEW p \in mine
        PROVE  { q \in mine : <<q, p>> \in R } = { q \in mine : q < p }
    BY <1>4
  <2>. QED BY <1>6, <2>1 DEF IsRank
<1>9. \A p, q \in mine : rank[p] < rank[q] => p < q
  BY <1>4, <1>6 DEF IsRank
<1>10. ASSUME NEW n \in 1..Cardinality(mine)
       PROVE  x[n] \in mine /\ rank[x[n]] = n - 1
  <2>1. PICK p \in mine : rank[p] = n - 1
    <3>1. rank \in Bijection(mine, 0..(Cardinality(mine) - 1))
      BY <1>6 DEF IsRank
    <3>2. n - 1 \in 0..(Cardinality(mine) - 1)
      BY <1>7
    <3>. QED BY <3>1, <3>2 DEF Bijection, Surjection
  <2>2. \E q \in mine : Cardinality({ r \in mine : r < q }) = n - 1
    BY <1>8, <2>1
  <2>3. x[n] \in mine /\ Cardinality({ r \in mine : r < x[n] }) = n - 1
    BY <1>2, <2>2
  <2>. QED BY <1>8, <2>3
<1>11. DOMAIN x = 1..Cardinality(mine)
  BY <1>2
<1>12. \A i \in DOMAIN x : x[i] \in DOMAIN keys /\ keys[x[i]] = k
  BY <1>3, <1>10, <1>11
<1>13. ASSUME NEW i \in DOMAIN x, NEW j \in DOMAIN x, i < j PROVE x[i] < x[j]
  <2>1. i - 1 < j - 1
    BY <1>7, <1>11, <1>13
  <2>. QED BY <1>9, <1>10, <1>11, <2>1
<1>. QED BY <1>12, <1>13 DEF x

(* So the parts are in ascending order, and each is of a key of its own.   *)
LEMMA ByKeyIs ==
  ASSUME NEW keys, Len(keys) \in Nat, DOMAIN keys = 1..Len(keys), NEW answer \in ByKey(keys)
  PROVE  /\ \A k \in DOMAIN answer :
              /\ \A i \in DOMAIN answer[k] : answer[k][i] \in DOMAIN keys
              /\ \A i, j \in DOMAIN answer[k] : i < j => answer[k][i] < answer[k][j]
         /\ \A k, l \in DOMAIN answer : \A i \in DOMAIN answer[k], j \in DOMAIN answer[l] :
              keys[answer[k][i]] = keys[answer[l][j]] => k = l
<1>1. PICK order \in SetToSeqs(Range(keys)) :
        answer = [n \in DOMAIN order |-> IndicesOf(keys, order[n])]
  BY DEF ByKey
<1>2. \A i, j \in DOMAIN order : order[i] = order[j] => i = j
  BY DEF SetToSeqs
<1>3. /\ DOMAIN answer = DOMAIN order
      /\ \A k \in DOMAIN answer : answer[k] = IndicesOf(keys, order[k])
  BY <1>1
<1>4. \A k \in DOMAIN answer :
        /\ \A i \in DOMAIN answer[k] :
             answer[k][i] \in DOMAIN keys /\ keys[answer[k][i]] = order[k]
        /\ \A i, j \in DOMAIN answer[k] : i < j => answer[k][i] < answer[k][j]
  BY <1>3, IndicesAre
<1>. QED BY <1>2, <1>3, <1>4

(* The key-value model partitions by key, if at all.                       *)
PartitionsByKey ==
  /\ \A h \in OpHistories : partition(h) \subseteq KvPartition(h)
  /\ \A h \in EventHistories : partition_events(h) \subseteq KvPartitionEvents(h)

LEMMA KvAscends == ASSUME PartitionsByKey PROVE AnswersAscend
<1>1. ASSUME NEW h \in EventHistories, NEW answer \in partition_events(h)
      PROVE  \A k \in DOMAIN answer : \A i, j \in DOMAIN answer[k] :
               i < j => answer[k][i] < answer[k][j]
  <2>. DEFINE call(i) == CHOOSE p \in DOMAIN h : h[p].id = i /\ h[p].kind = "call"
              keys == [p \in DOMAIN h |-> h[call(h[p].id)].input.key]
  <2>1. answer \in ByKey(keys)
    BY DEF PartitionsByKey, KvPartitionEvents
  <2>2. h \in Seq(Event)
    BY InputsAssumption
  <2>. HIDE DEF call
  <2>3. Len(keys) \in Nat /\ DOMAIN keys = 1..Len(keys)
    BY <2>2
  <2>. HIDE DEF keys
  <2>. QED BY <2>1, <2>3, ByKeyIs
<1>. QED BY <1>1 DEF AnswersAscend

(* Its parts are of different keys, of operations ...                      *)
LEMMA KvOperationParts ==
  ASSUME IInv, Built, IsKvModel, PartitionsByKey, parts # NoPartition, form = "operations"
  PROVE  PartsByKey([i \in KvInput |-> i.key])
<1>. DEFINE Key  == [i \in KvInput |-> i.key]
            keys == [p \in DOMAIN history |-> history[p].input.key]
<1>1. history \in OpHistories /\ parts \in partition(history)
  BY DEF IInv, InputInv
<1>2. parts \in ByKey(keys)
  BY <1>1 DEF PartitionsByKey, KvPartition
<1>3. history \in Seq(Operation)
  BY <1>1, InputsAssumption
<1>4. Len(keys) \in Nat /\ DOMAIN keys = 1..Len(keys) /\ DOMAIN keys = DOMAIN history
  BY <1>3
<1>5. ASSUME NEW p \in DOMAIN history
      PROVE  Key[InputOf(OpAt(p))] = keys[p]
  <2>1. p \in HistoryOps
    BY DEF HistoryOps
  <2>2. InputOf(p) \in KvInput
    BY <2>1, HistoryFacts DEF IsKvModel
  <2>3. InputOf(p) = history[p].input /\ OpAt(p) = p
    BY DEF InputOf, OpAt
  <2>. QED BY <2>2, <2>3
<1>. HIDE DEF Key, keys
<1>6. PartsByKey(Key)
  BY <1>2, <1>4, <1>5, ByKeyIs DEF PartsByKey
<1>. QED BY <1>6 DEF Key

(* ... and of events.                                                      *)
LEMMA KvEventParts ==
  ASSUME IInv, Built, IsKvModel, PartitionsByKey, parts # NoPartition, form = "events"
  PROVE  PartsByKey([i \in KvInput |-> i.key])
<1>. DEFINE Key  == [i \in KvInput |-> i.key]
            call(i) == CHOOSE p \in DOMAIN history : history[p].id = i /\ history[p].kind = "call"
            keys == [p \in DOMAIN history |-> history[call(history[p].id)].input.key]
<1>1. history \in EventHistories /\ parts \in partition_events(history)
  BY DEF IInv, InputInv
<1>2. parts \in ByKey(keys)
  BY <1>1 DEF PartitionsByKey, KvPartitionEvents
<1>3. history \in Seq(Event)
  BY <1>1, InputsAssumption
<1>4. \A i : call(i) = EventOf(i, "call")
  BY DEF EventOf
<1>. HIDE DEF call
<1>5. Len(keys) \in Nat /\ DOMAIN keys = 1..Len(keys) /\ DOMAIN keys = DOMAIN history
  BY <1>3
<1>6. ASSUME NEW p \in DOMAIN history
      PROVE  Key[InputOf(OpAt(p))] = keys[p]
  <2>1. history[p].id \in HistoryOps
    BY DEF HistoryOps
  <2>2. InputOf(history[p].id) \in KvInput
    BY <2>1, HistoryFacts DEF IsKvModel
  <2>3. /\ InputOf(history[p].id) = history[call(history[p].id)].input
        /\ OpAt(p) = history[p].id
    BY <1>4 DEF InputOf, OpAt
  <2>. QED BY <2>2, <2>3
<1>. HIDE DEF Key, keys
<1>7. PartsByKey(Key)
  BY <1>2, <1>5, <1>6, ByKeyIs DEF PartsByKey
<1>. QED BY <1>7 DEF Key

(* Whole or by key, the verdict on the lists is that of the history.       *)
LEMMA InvKvVerdict ==
  ASSUME IInv, VerdictInv, IsKvModel, PartitionsByKey
  PROVE  VerdictIsOfHistory
<1>. SUFFICES ASSUME pc = "done" PROVE VerdictIsOfHistory
  BY DEF VerdictIsOfHistory
<1>. DEFINE Key  == [i \in KvInput |-> i.key]
            View == [k \in Keys |-> [s \in KvState |-> s[k]]]
<1>1. Built /\ AnswersAscend
  BY KvAscends DEF Built
<1>2. IsLocal(Key, View)
  BY KvIsLocal DEF IsKvModel
<1>3. CASE parts = NoPartition
  BY <1>1, <1>3, InvVerdictOfWhole
<1>4. CASE parts # NoPartition
  <2>1. PartsByKey(Key)
    BY <1>1, <1>4, KvOperationParts, KvEventParts DEF IInv, InputInv
  <2>. HIDE DEF Key, View
  <2>. QED BY <1>1, <1>2, <2>1, InvVerdictIsLocal
<1>. QED BY <1>3, <1>4

-----------------------------------------------------------------------------
(* Whatever histories are checked, and however the model partitions them,  *)
(* what check_operations and check_events keep is well typed, and the ids  *)
(* of the entries are below the length of the history.                     *)
THEOREM TypeCorrect == ASSUME AnswersAscend PROVE Spec => []TypeOK
<1>1. IInv => TypeOK
  BY InvTypes
<1>. QED BY InitInv, StepInv, <1>1, PTL DEF Spec

(* make_entries, convert_entries and their indexed forms build well-formed *)
(* lists with dense ids, of every history that passes the assertions.      *)
THEOREM BuildsWellFormedLists == ASSUME AnswersAscend PROVE Spec => []ListsWellFormed
<1>1. IInv => ListsWellFormed
  BY InvLists
<1>. QED BY InitInv, StepInv, <1>1, PTL DEF Spec

(* Sorting by time with calls before returns, and renumbering, keep the    *)
(* order of the history in real time.                                      *)
THEOREM KeepsRealTime == ASSUME AnswersAscend PROVE Spec => []RealTimeKept
<1>1. IInv => RealTimeKept
  BY InvRealTime
<1>. QED BY InitInv, StepInv, <1>1, PTL DEF Spec

(* A partition that passes the assertions has every operation of the       *)
(* history searched, once, as it was.                                      *)
THEOREM SearchesEverythingOnce == ASSUME AnswersAscend PROVE Spec => []EverythingSearchedOnce
<1>1. IInv => EverythingSearchedOnce
  BY InvOnce
<1>. QED BY InitInv, StepInv, <1>1, PTL DEF Spec

(* The assertions of src/invariants.rs tell the malformed histories and    *)
(* the wrong partitions from the others exactly, whatever order a          *)
(* partition is in.                                                        *)
THEOREM AssertsExactly == Spec => []AssertionsExact
<1>1. IInv => AssertionsExact
  BY InvAssertionsExact
<1>. QED BY InitInv, StepInv, <1>1, PTL DEF Spec

(* INV-LIN-01 and 02: the verdict on a history that the model leaves whole *)
(* is that of the history itself: there is an order of its operations that *)
(* respects real time and that the model accepts, or there is none.        *)
THEOREM VerdictOfWhole ==
  ASSUME AnswersAscend
  PROVE  Spec => [](parts = NoPartition => VerdictIsOfHistory)
<1>1. IInv /\ VerdictInv => (parts = NoPartition => VerdictIsOfHistory)
  BY InvVerdictOfWhole
<1>. QED BY InitInv, StepInv, InitVerdict, StepVerdict, <1>1, PTL DEF Spec

(* INV-LIN-03, P-compositionality: when each operation of the model        *)
(* concerns one key, and no two parts the same one, the verdict assembled  *)
(* from the parts is that of the history.                                  *)
THEOREM VerdictIsLocal ==
  ASSUME AnswersAscend, NEW Key, NEW View, IsLocal(Key, View)
  PROVE  Spec => [](PartsByKey(Key) => VerdictIsOfHistory)
<1>1. IInv /\ VerdictInv => (PartsByKey(Key) => VerdictIsOfHistory)
  BY InvVerdictIsLocal
<1>. QED BY InitInv, StepInv, InitVerdict, StepVerdict, <1>1, PTL DEF Spec

(* INV-LIN-03 for the key-value model of tests/common/mod.rs: it           *)
(* partitions by key, so the verdict is that of the history, whichever     *)
(* entry point is called and whatever the history.                         *)
THEOREM KvVerdict ==
  ASSUME IsKvModel, PartitionsByKey
  PROVE  Spec => []VerdictIsOfHistory
<1>1. IInv /\ VerdictInv => VerdictIsOfHistory
  BY InvKvVerdict
<1>. QED BY InitInv, StepInv, InitVerdict, StepVerdict, <1>1, PTL DEF Spec
=============================================================================
