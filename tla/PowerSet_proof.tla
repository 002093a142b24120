--------------------------- MODULE PowerSet_proof ---------------------------
(***************************************************************************)
(* Facts about PowerSet: what the two deduplications and Successors yield  *)
(* for any states, and that the adapters cannot be told apart.             *)
(***************************************************************************)
EXTENDS PowerSet, SequenceTheorems, WellFoundedInduction, TLAPS

-----------------------------------------------------------------------------
(* A set of numbers that is not empty has a least one.                     *)
LEMMA LeastNumber ==
  ASSUME NEW D, D \subseteq Nat, D # {}
  PROVE  \E m \in D : \A k \in D : ~ (k < m)
<1>1. IsWellFoundedOn(OpToRel(<, Nat), Nat)
  BY NatLessThanWellFounded, Zenon
<1>2. \E m \in D : \A k \in D : ~ (<<k, m>> \in OpToRel(<, Nat))
  BY <1>1, WFMin, Zenon
<1>3. \A k, m \in Nat : k < m => <<k, m>> \in OpToRel(<, Nat)
  BY DEF OpToRel
<1>. QED BY <1>2, <1>3

(* f is the course of a loop that takes N steps through S.                 *)
IsCourse(f, N, S, base, step) ==
  /\ f \in [0..N -> S]
  /\ f[0] = base
  /\ \A n \in 1..N : f[n] = step[<<n, f[n - 1]>>]

(* Every loop has one.                                                     *)
LEMMA Course ==
  ASSUME NEW N \in Nat, NEW S, NEW base \in S, NEW step \in [(1..N) \X S -> S]
  PROVE  \E f : IsCourse(f, N, S, base, step)
<1>. DEFINE D == { m \in 0..N : ~ \E f : IsCourse(f, m, S, base, step) }
<1>1. SUFFICES ASSUME D # {} PROVE FALSE
  BY <1>1
<1>2. PICK m \in D : \A k \in D : ~ (k < m)
  <2>1. D \subseteq Nat
    OBVIOUS
  <2>. HIDE DEF D
  <2>. QED BY <1>1, <2>1, LeastNumber
<1>3. CASE m = 0
  <2>1. IsCourse([n \in 0..0 |-> base], 0, S, base, step)
    BY DEF IsCourse
  <2>. QED BY <1>2, <1>3, <2>1
<1>4. CASE m # 0
  <2>1. m - 1 \in 0..N /\ m - 1 < m /\ m \in 1..N
    BY <1>4
  <2>2. PICK g : IsCourse(g, m - 1, S, base, step)
    BY <1>2, <2>1
  <2>. DEFINE f == [n \in 0..m |-> IF n = m THEN step[<<m, g[m - 1]>>] ELSE g[n]]
  <2>3. g[m - 1] \in S
    BY <2>1, <2>2 DEF IsCourse
  <2>4. step[<<m, g[m - 1]>>] \in S
    BY <2>1, <2>3
  <2>5. f \in [0..m -> S]
    BY <2>1, <2>2, <2>4 DEF IsCourse
  <2>6. f[0] = base
    BY <1>4, <2>1, <2>2 DEF IsCourse
  <2>7. ASSUME NEW n \in 1..m PROVE f[n] = step[<<n, f[n - 1]>>]
    <3>1. n \in 0..m /\ n - 1 \in 0..m /\ n - 1 # m /\ m \in Nat
      BY <2>1
    <3>2. f[n - 1] = g[n - 1]
      BY <3>1
    <3>3. CASE n = m
      BY <3>1, <3>2, <3>3
    <3>4. CASE n # m
      <4>1. f[n] = g[n] /\ n \in 1..(m - 1)
        BY <3>1, <3>4
      <4>. QED BY <2>2, <3>2, <4>1 DEF IsCourse
    <3>. QED BY <3>3, <3>4
  <2>8. IsCourse(f, m, S, base, step)
    BY <2>5, <2>6, <2>7 DEF IsCourse
  <2>. QED BY <1>2, <2>8
<1>. QED BY <1>3, <1>4

(* A loop has one course.                                                  *)
Follows(g, N, S, base, step) ==
  /\ g = [n \in 0..N |-> g[n]]
  /\ g[0] = base
  /\ \A n \in 1..N : g[n - 1] \in S => g[n] = step[<<n, g[n - 1]>>]

LEMMA OneCourse ==
  ASSUME NEW N \in Nat, NEW S, NEW base, NEW step,
         NEW f, IsCourse(f, N, S, base, step), NEW g, Follows(g, N, S, base, step)
  PROVE  g = f
<1>. USE DEF Follows
<1>. DEFINE D == { n \in 0..N : g[n] # f[n] }
<1>1. ASSUME D # {} PROVE FALSE
  <2>1. PICK m \in D : \A k \in D : ~ (k < m)
    <3>1. D \subseteq Nat
      OBVIOUS
    <3>. HIDE DEF D
    <3>. QED BY <1>1, <3>1, LeastNumber
  <2>2. m # 0
    BY DEF IsCourse
  <2>3. m \in 1..N /\ m - 1 \in 0..N /\ m - 1 < m
    BY <2>2
  <2>4. g[m - 1] = f[m - 1]
    BY <2>1, <2>3
  <2>5. f[m - 1] \in S /\ f[m] = step[<<m, f[m - 1]>>]
    BY <2>3 DEF IsCourse
  <2>. QED BY <2>3, <2>4, <2>5
<1>2. \A n \in 0..N : g[n] = f[n]
  BY <1>1
<1>3. f = [n \in 0..N |-> f[n]]
  BY DEF IsCourse
<1>. QED BY <1>2, <1>3

-----------------------------------------------------------------------------
(* The course of the loop of deduplicate.                                  *)
DedupCourse(states, S, out) ==
  /\ out \in [0..Len(states) -> Seq(S)]
  /\ out[0] = <<>>
  /\ \A n \in 1..Len(states) :
       out[n] = IF Contains(out[n - 1], states[n]) THEN out[n - 1]
                ELSE Append(out[n - 1], states[n])

LEMMA DedupRuns ==
  ASSUME NEW S, NEW states \in Seq(S)
  PROVE  \E out : DedupCourse(states, S, out) /\ deduplicate(states) = out[Len(states)]
<1>. DEFINE N    == Len(states)
            next == [x \in (1..N) \X Seq(S) |->
                       IF Contains(x[2], states[x[1]]) THEN x[2] ELSE Append(x[2], states[x[1]])]
<1>1. N \in Nat /\ \A n \in 1..N : states[n] \in S
  OBVIOUS
<1>2. next \in [(1..N) \X Seq(S) -> Seq(S)]
  BY <1>1
<1>3. <<>> \in Seq(S)
  OBVIOUS
<1>4. PICK f : IsCourse(f, N, Seq(S), <<>>, next)
  <2>. HIDE DEF next, N
  <2>. QED BY <1>1, <1>2, <1>3, Course
<1>5. ASSUME NEW n \in 1..N
      PROVE  f[n] = IF Contains(f[n - 1], states[n]) THEN f[n - 1]
                    ELSE Append(f[n - 1], states[n])
  <2>1. n - 1 \in 0..N
    BY <1>1
  <2>. QED BY <1>4, <2>1 DEF IsCourse
<1>. DEFINE loop(out) ==
              [n \in 0..N |->
                 IF n = 0 THEN <<>>
                 ELSE IF Contains(out[n - 1], states[n]) THEN out[n - 1]
                      ELSE Append(out[n - 1], states[n])]
            out == CHOOSE out : out = loop(out)
<1>6. f = loop(f)
  <2>1. ASSUME NEW n \in 0..N PROVE f[n] = loop(f)[n]
    <3>1. CASE n = 0
      BY <1>4, <3>1 DEF IsCourse
    <3>2. CASE n # 0
      <4>1. n \in 1..N
        BY <1>1, <3>2
      <4>2. loop(f)[n] = IF Contains(f[n - 1], states[n]) THEN f[n - 1]
                         ELSE Append(f[n - 1], states[n])
        BY <3>2
      <4>. QED BY <1>5, <4>1, <4>2, Zenon
    <3>. QED BY <3>1, <3>2
  <2>. QED BY <1>4, <2>1 DEF IsCourse
<1>7. out = loop(out)
  BY <1>6
<1>8. out = f
  <2>1. out = [n \in 0..N |-> out[n]] /\ out[0] = <<>>
    <3>1. ASSUME NEW g, g = loop(g) PROVE g = [n \in 0..N |-> g[n]] /\ g[0] = <<>>
      <4>1. loop(g) = [n \in 0..N |-> loop(g)[n]] /\ loop(g)[0] = <<>>
        BY <1>1
      <4>. HIDE DEF loop
      <4>. QED BY <3>1, <4>1
    <3>. HIDE DEF out, loop
    <3>. QED BY <1>7, <3>1
  <2>2. ASSUME NEW n \in 1..N, out[n - 1] \in Seq(S) PROVE out[n] = next[<<n, out[n - 1]>>]
    <3>1. n \in 0..N /\ n # 0
      BY <1>1
    <3>2. out[n] = IF Contains(out[n - 1], states[n]) THEN out[n - 1]
                   ELSE Append(out[n - 1], states[n])
      <4>1. loop(out)[n] = IF Contains(out[n - 1], states[n]) THEN out[n - 1]
                           ELSE Append(out[n - 1], states[n])
        BY <3>1
      <4>. QED BY <1>7, <4>1, Zenon
    <3>. HIDE DEF out
    <3>. QED BY <2>2, <3>2
  <2>. HIDE DEF out, next, N
  <2>3. Follows(out, N, Seq(S), <<>>, next)
    BY <2>1, <2>2 DEF Follows
  <2>. QED BY <1>1, <1>4, <2>3, OneCourse
<1>9. deduplicate(states) = out[N]
  BY DEF deduplicate
<1>. HIDE DEF out
<1>. QED BY <1>4, <1>5, <1>8, <1>9 DEF IsCourse, DedupCourse

(* The course of the loop of deduplicate_hashed.                           *)
HashedCourse(states, S, acc) ==
  /\ acc \in [0..Len(states) -> [seen : SUBSET S, out : Seq(S)]]
  /\ acc[0] = [seen |-> {}, out |-> <<>>]
  /\ \A n \in 1..Len(states) :
       acc[n] = IF states[n] \in acc[n - 1].seen THEN acc[n - 1]
                ELSE [seen |-> acc[n - 1].seen \cup {states[n]},
                      out |-> Append(acc[n - 1].out, states[n])]

LEMMA HashedRuns ==
  ASSUME NEW S, NEW states \in Seq(S)
  PROVE  \E acc : /\ HashedCourse(states, S, acc)
                  /\ deduplicate_hashed(states) = acc[Len(states)].out
<1>. DEFINE N    == Len(states)
            T    == [seen : SUBSET S, out : Seq(S)]
            base == [seen |-> {}, out |-> <<>>]
            after(t, s) == IF s \in t.seen THEN t
                           ELSE [seen |-> t.seen \cup {s}, out |-> Append(t.out, s)]
            next == [x \in (1..N) \X T |-> after(x[2], states[x[1]])]
<1>1. N \in Nat /\ \A n \in 1..N : states[n] \in S
  OBVIOUS
<1>2. next \in [(1..N) \X T -> T]
  <2>1. ASSUME NEW t \in T, NEW s \in S PROVE after(t, s) \in T
    OBVIOUS
  <2>. HIDE DEF after, T
  <2>. QED BY <1>1, <2>1
<1>3. base \in T
  OBVIOUS
<1>4. PICK f : IsCourse(f, N, T, base, next)
  <2>. HIDE DEF next, N, T, base
  <2>. QED BY <1>1, <1>2, <1>3, Course
<1>5. ASSUME NEW n \in 1..N PROVE f[n] = after(f[n - 1], states[n])
  <2>1. n - 1 \in 0..N
    BY <1>1
  <2>. HIDE DEF after, T, base
  <2>. QED BY <1>4, <2>1 DEF IsCourse
<1>. DEFINE loop(acc) == [n \in 0..N |-> IF n = 0 THEN base ELSE after(acc[n - 1], states[n])]
            acc       == CHOOSE acc : acc = loop(acc)
<1>6. f = loop(f)
  <2>1. ASSUME NEW n \in 0..N PROVE f[n] = loop(f)[n]
    <3>. HIDE DEF after, T, base
    <3>1. CASE n = 0
      BY <1>4, <3>1 DEF IsCourse
    <3>2. CASE n # 0
      <4>1. n \in 1..N
        BY <1>1, <3>2
      <4>. QED BY <1>5, <3>2, <4>1
    <3>. QED BY <3>1, <3>2
  <2>. HIDE DEF after, T, base
  <2>. QED BY <1>4, <2>1 DEF IsCourse
<1>7. acc = loop(acc)
  <2>. HIDE DEF loop
  <2>. QED BY <1>6
<1>8. acc = f
  <2>1. ASSUME NEW g, g = loop(g) PROVE Follows(g, N, T, base, next)
    <3>. HIDE DEF after, T, base
    <3>1. loop(g) = [n \in 0..N |-> loop(g)[n]] /\ loop(g)[0] = base
      BY <1>1
    <3>2. ASSUME NEW n \in 1..N, g[n - 1] \in T PROVE g[n] = next[<<n, g[n - 1]>>]
      <4>1. n \in 0..N /\ n # 0
        BY <1>1
      <4>2. loop(g)[n] = after(g[n - 1], states[n])
        BY <4>1
      <4>3. next[<<n, g[n - 1]>>] = after(g[n - 1], states[n])
        BY <3>2
      <4>. QED BY <2>1, <4>2, <4>3, Zenon
    <3>. HIDE DEF loop, next
    <3>. QED BY <2>1, <3>1, <3>2 DEF Follows
  <2>. HIDE DEF acc, next, N, T, base, loop
  <2>2. Follows(acc, N, T, base, next)
    BY <1>7, <2>1
  <2>. QED BY <1>1, <1>4, <2>2, OneCourse
<1>9. deduplicate_hashed(states) = acc[N].out
  BY DEF deduplicate_hashed
<1>. HIDE DEF acc
<1>. QED BY <1>4, <1>5, <1>8, <1>9 DEF IsCourse, HashedCourse

-----------------------------------------------------------------------------
(* The states that occur among the first n.                                *)
Occur(states, n) == { states[k] : k \in 1..n }

(* What has been kept of the first n states: each of them, once.           *)
KeptOnce(states, n, out) ==
  /\ Range(out) = Occur(states, n)
  /\ IsInjective(out)

LEMMA KeptNext ==
  ASSUME NEW S, NEW states \in Seq(S), NEW n \in 1..Len(states), NEW out \in Seq(S),
         KeptOnce(states, n - 1, out)
  PROVE  KeptOnce(states, n, IF Contains(out, states[n]) THEN out ELSE Append(out, states[n]))
<1>. DEFINE s == states[n]
<1>1. s \in S /\ n - 1 \in Nat /\ n \in Nat
  OBVIOUS
<1>2. Occur(states, n) = Occur(states, n - 1) \cup {s}
  <2>1. \A k : k \in 1..n <=> k \in 1..(n - 1) \/ k = n
    BY <1>1
  <2>. QED BY <2>1 DEF Occur
<1>3. Contains(out, s) <=> s \in Range(out)
  BY DEF Contains, Range
<1>4. CASE Contains(out, s)
  BY <1>2, <1>3, <1>4 DEF KeptOnce
<1>5. CASE ~ Contains(out, s)
  <2>. DEFINE longer == Append(out, s)
  <2>1. /\ DOMAIN longer = 1..(Len(out) + 1) /\ DOMAIN out = 1..Len(out)
        /\ longer[Len(out) + 1] = s
        /\ \A k \in 1..Len(out) : longer[k] = out[k]
        /\ Len(out) \in Nat
    BY <1>1
  <2>. HIDE DEF longer
  <2>2. \A k : k \in DOMAIN longer <=> k \in DOMAIN out \/ k = Len(out) + 1
    BY <2>1
  <2>3. \A k \in DOMAIN out : longer[k] = out[k]
    BY <2>1
  <2>. DEFINE m == Len(out) + 1
  <2>4. longer[m] = s
    BY <2>1
  <2>. HIDE DEF m, s
  <2>5. Range(longer) = Range(out) \cup {s}
    BY <2>2, <2>3, <2>4 DEF Range, m
  <2>6. s \notin Range(out)
    BY <1>3, <1>5 DEF s
  <2>7. IsInjective(longer)
    <3>1. ASSUME NEW a \in DOMAIN longer, NEW b \in DOMAIN longer, longer[a] = longer[b]
          PROVE  a = b
      <4>1. a \in DOMAIN out \/ a = m
        BY <2>2 DEF m
      <4>2. b \in DOMAIN out \/ b = m
        BY <2>2 DEF m
      <4>3. CASE a \in DOMAIN out /\ b \in DOMAIN out
        BY <2>3, <3>1, <4>3 DEF KeptOnce, IsInjective
      <4>4. CASE a = m /\ b = m
        BY <4>4
      <4>5. CASE a \in DOMAIN out /\ b = m
        BY <2>3, <2>4, <2>6, <3>1, <4>5 DEF Range
      <4>6. CASE a = m /\ b \in DOMAIN out
        BY <2>3, <2>4, <2>6, <3>1, <4>6 DEF Range
      <4>. QED BY <4>1, <4>2, <4>3, <4>4, <4>5, <4>6
    <3>. QED BY <3>1 DEF IsInjective
  <2>8. KeptOnce(states, n, longer)
    BY <1>2, <2>5, <2>7 DEF KeptOnce, s
  <2>. QED BY <1>5, <2>8 DEF longer, s
<1>. QED BY <1>4, <1>5

(* deduplicate keeps every state once.                                     *)
LEMMA Deduplicated ==
  ASSUME NEW S, NEW states \in Seq(S)
  PROVE  /\ deduplicate(states) \in Seq(S)
         /\ Range(deduplicate(states)) = Range(states)
         /\ IsInjective(deduplicate(states))
<1>1. PICK out : DedupCourse(states, S, out) /\ deduplicate(states) = out[Len(states)]
  BY DedupRuns
<1>. DEFINE N == Len(states)
            D == { n \in 0..N : ~ KeptOnce(states, n, out[n]) }
<1>2. N \in Nat /\ N \in 0..N
  OBVIOUS
<1>3. ASSUME D # {} PROVE FALSE
  <2>1. PICK m \in D : \A k \in D : ~ (k < m)
    <3>1. D \subseteq Nat
      OBVIOUS
    <3>. HIDE DEF D
    <3>. QED BY <1>3, <3>1, LeastNumber
  <2>2. CASE m = 0
    <3>1. out[0] = <<>>
      BY <1>1 DEF DedupCourse
    <3>2. KeptOnce(states, 0, <<>>)
      BY DEF KeptOnce, Occur, Range, IsInjective
    <3>. QED BY <2>2, <3>1, <3>2
  <2>3. CASE m # 0
    <3>1. m \in 1..N /\ m - 1 \in 0..N /\ m - 1 < m
      BY <2>3
    <3>2. KeptOnce(states, m - 1, out[m - 1])
      BY <2>1, <3>1
    <3>3. out[m - 1] \in Seq(S)
      BY <1>1, <3>1 DEF DedupCourse
    <3>4. KeptOnce(states, m, out[m])
      <4>1. out[m] = IF Contains(out[m - 1], states[m]) THEN out[m - 1]
                     ELSE Append(out[m - 1], states[m])
        BY <1>1, <3>1 DEF DedupCourse
      <4>. HIDE DEF D
      <4>. QED BY <3>1, <3>2, <3>3, <4>1, KeptNext
    <3>. QED BY <3>4
  <2>. QED BY <2>2, <2>3
<1>4. KeptOnce(states, N, out[N]) /\ out[N] \in Seq(S)
  BY <1>1, <1>2, <1>3 DEF DedupCourse
<1>5. Occur(states, N) = Range(states)
  BY DEF Occur, Range
<1>. QED BY <1>1, <1>4, <1>5 DEF KeptOnce

(* The hash set tells what the scan of the list would have told.           *)
LEMMA HashedSame ==
  ASSUME NEW S, NEW states \in Seq(S)
  PROVE  deduplicate_hashed(states) = deduplicate(states)
<1>1. PICK out : DedupCourse(states, S, out) /\ deduplicate(states) = out[Len(states)]
  BY DedupRuns
<1>2. PICK acc : HashedCourse(states, S, acc) /\ deduplicate_hashed(states) = acc[Len(states)].out
  BY HashedRuns
<1>. DEFINE N == Len(states)
            Same(n) == acc[n].out = out[n] /\ acc[n].seen = Range(out[n])
            D == { n \in 0..N : ~ Same(n) }
<1>3. N \in Nat /\ N \in 0..N
  OBVIOUS
<1>4. ASSUME D # {} PROVE FALSE
  <2>1. PICK m \in D : \A k \in D : ~ (k < m)
    <3>1. D \subseteq Nat
      OBVIOUS
    <3>. HIDE DEF D
    <3>. QED BY <1>4, <3>1, LeastNumber
  <2>2. CASE m = 0
    <3>1. Range(<<>>) = {}
      BY DEF Range
    <3>2. out[0] = <<>> /\ acc[0] = [seen |-> {}, out |-> <<>>]
      BY <1>1, <1>2 DEF DedupCourse, HashedCourse
    <3>3. Same(0)
      BY <3>1, <3>2
    <3>. HIDE DEF Same
    <3>. QED BY <2>2, <3>3
  <2>3. CASE m # 0
    <3>1. m \in 1..N /\ m - 1 \in 0..N /\ m - 1 < m
      BY <2>3
    <3>2. acc[m - 1].out = out[m - 1] /\ acc[m - 1].seen = Range(out[m - 1])
      BY <2>1, <3>1
    <3>. DEFINE before == out[m - 1]
                s      == states[m]
    <3>3. before \in Seq(S) /\ s \in S
      BY <1>1, <3>1 DEF DedupCourse
    <3>4. out[m] = IF Contains(before, s) THEN before ELSE Append(before, s)
      BY <1>1, <3>1 DEF DedupCourse
    <3>5. acc[m] = IF s \in acc[m - 1].seen THEN acc[m - 1]
                   ELSE [seen |-> acc[m - 1].seen \cup {s}, out |-> Append(acc[m - 1].out, s)]
      BY <1>2, <3>1 DEF HashedCourse
    <3>. HIDE DEF before, s
    <3>6. Contains(before, s) <=> s \in Range(before)
      BY <3>3 DEF Contains, Range
    <3>7. Range(Append(before, s)) = Range(before) \cup {s}
      BY <3>3, AppendProperties DEF Range
    <3>8. CASE Contains(before, s)
      <4>1. out[m] = before /\ acc[m] = acc[m - 1]
        BY <3>2, <3>4, <3>5, <3>6, <3>8 DEF before
      <4>. HIDE DEF D
      <4>2. Same(m)
        BY <3>2, <4>1 DEF before
      <4>. QED BY <4>2 DEF D
    <3>9. CASE ~ Contains(before, s)
      <4>1. out[m] = Append(before, s)
        BY <3>4, <3>9
      <4>2. /\ acc[m].seen = Range(before) \cup {s}
            /\ acc[m].out = Append(before, s)
        BY <3>2, <3>5, <3>6, <3>9 DEF before
      <4>. HIDE DEF D
      <4>3. Same(m)
        BY <3>7, <4>1, <4>2
      <4>. QED BY <4>3 DEF D
    <3>. QED BY <3>8, <3>9
  <2>. QED BY <2>2, <2>3
<1>5. Same(N)
  BY <1>3, <1>4
<1>. QED BY <1>1, <1>2, <1>5

-----------------------------------------------------------------------------
(* The course of the loop of FlattenSeq.                                   *)
FlatCourse(seqs, S, flat) ==
  /\ flat \in [0..Len(seqs) -> Seq(S)]
  /\ flat[0] = <<>>
  /\ \A n \in 1..Len(seqs) : flat[n] = flat[n - 1] \o seqs[n]

LEMMA FlattenRuns ==
  ASSUME NEW S, NEW seqs \in Seq(Seq(S))
  PROVE  \E flat : FlatCourse(seqs, S, flat) /\ FlattenSeq(seqs) = flat[Len(seqs)]
<1>. DEFINE N    == Len(seqs)
            T    == Seq(S)
            next == [x \in (1..N) \X T |-> x[2] \o seqs[x[1]]]
<1>1. N \in Nat /\ \A n \in 1..N : seqs[n] \in T
  OBVIOUS
<1>2. next \in [(1..N) \X T -> T]
  BY <1>1
<1>3. <<>> \in T
  OBVIOUS
<1>4. PICK f : IsCourse(f, N, T, <<>>, next)
  <2>. HIDE DEF next, N, T
  <2>. QED BY <1>1, <1>2, <1>3, Course
<1>5. /\ f \in [0..N -> T] /\ f[0] = <<>>
      /\ \A n \in 1..N : f[n] = f[n - 1] \o seqs[n]
  <2>1. ASSUME NEW n \in 1..N PROVE f[n] = f[n - 1] \o seqs[n]
    <3>1. n - 1 \in 0..N
      BY <1>1
    <3>. QED BY <1>4, <3>1 DEF IsCourse
  <2>. QED BY <1>4, <2>1 DEF IsCourse
<1>6. FlatCourse(seqs, S, f)
  BY <1>5 DEF FlatCourse
<1>7. CASE N = 0
  <2>1. seqs = <<>>
    BY <1>7, EmptySeq
  <2>2. FlattenSeq(seqs) = seqs
    BY <1>7 DEF FlattenSeq
  <2>. QED BY <1>5, <1>6, <1>7, <2>1, <2>2
<1>8. CASE N # 0
  <2>. DEFINE loop(g) == [i \in 1..N |-> IF i = 1 THEN seqs[i] ELSE g[i - 1] \o seqs[i]]
              flatten == CHOOSE g : g = loop(g)
              h       == [i \in 1..N |-> f[i]]
  <2>1. h = loop(h)
    <3>1. ASSUME NEW i \in 1..N PROVE h[i] = loop(h)[i]
      <4>1. f[i] = f[i - 1] \o seqs[i] /\ seqs[i] \in Seq(S)
        BY <1>1, <1>5
      <4>2. CASE i = 1
        <5>1. f[i - 1] = <<>>
          BY <1>5, <4>2
        <5>2. f[i] = seqs[i]
          BY <4>1, <5>1, ConcatEmptySeq
        <5>. QED BY <4>2, <5>2
      <4>3. CASE i # 1
        <5>1. i - 1 \in 1..N
          BY <1>1, <4>3
        <5>2. loop(h)[i] = h[i - 1] \o seqs[i]
          BY <4>3
        <5>3. h[i - 1] = f[i - 1] /\ h[i] = f[i]
          BY <5>1
        <5>. HIDE DEF h, loop
        <5>. QED BY <4>1, <5>2, <5>3
      <4>. QED BY <4>2, <4>3
    <3>. QED BY <3>1
  <2>2. flatten = loop(flatten)
    <3>. HIDE DEF loop, h
    <3>. QED BY <2>1
  <2>3. ASSUME NEW g, g = loop(g) PROVE g[N] = f[N]
    <3>. DEFINE G == [n \in 0..N |-> IF n = 0 THEN <<>> ELSE g[n]]
    <3>1. ASSUME NEW n \in 1..N, G[n - 1] \in T PROVE G[n] = next[<<n, G[n - 1]>>]
      <4>1. n \in 0..N /\ n # 0 /\ G[n] = g[n]
        BY <1>1
      <4>2. loop(g)[n] = IF n = 1 THEN seqs[n] ELSE g[n - 1] \o seqs[n]
        OBVIOUS
      <4>3. next[<<n, G[n - 1]>>] = G[n - 1] \o seqs[n]
        <5>1. \A x \in T : next[<<n, x>>] = x \o seqs[n]
          OBVIOUS
        <5>. HIDE DEF G, next, T
        <5>. QED BY <3>1, <5>1
      <4>4. CASE n = 1
        <5>1. G[n - 1] = <<>> /\ seqs[n] \in Seq(S)
          BY <1>1, <4>4
        <5>. HIDE DEF G, loop, next
        <5>. QED BY <2>3, <4>1, <4>2, <4>3, <4>4, <5>1, ConcatEmptySeq
      <4>5. CASE n # 1
        <5>1. n - 1 \in 0..N /\ n - 1 # 0
          BY <1>1, <4>5
        <5>2. G[n - 1] = g[n - 1]
          BY <5>1
        <5>. HIDE DEF G, loop, next
        <5>. QED BY <2>3, <4>1, <4>2, <4>3, <4>5, <5>2
      <4>. QED BY <4>4, <4>5
    <3>2. G = [n \in 0..N |-> G[n]] /\ G[0] = <<>> /\ G[N] = g[N]
      BY <1>1, <1>8
    <3>3. Follows(G, N, T, <<>>, next)
      <4>. HIDE DEF G, next, N, T
      <4>. QED BY <3>1, <3>2 DEF Follows
    <3>4. G = f
      <4>. HIDE DEF G, next, N, T
      <4>. QED BY <1>1, <1>4, <3>3, OneCourse
    <3>. HIDE DEF G
    <3>. QED BY <3>2, <3>4
  <2>4. FlattenSeq(seqs) = flatten[N]
    BY <1>8 DEF FlattenSeq
  <2>5. flatten[N] = f[N]
    <3>. HIDE DEF flatten, loop
    <3>. QED BY <2>2, <2>3
  <2>. HIDE DEF flatten
  <2>. QED BY <1>6, <2>4, <2>5
<1>. QED BY <1>7, <1>8

(* FlattenSeq loses nothing and invents nothing.                           *)
LEMMA Flattened ==
  ASSUME NEW S, NEW seqs \in Seq(Seq(S))
  PROVE  /\ FlattenSeq(seqs) \in Seq(S)
         /\ \A t : t \in Range(FlattenSeq(seqs)) <=> \E k \in DOMAIN seqs : t \in Range(seqs[k])
<1>1. PICK flat : FlatCourse(seqs, S, flat) /\ FlattenSeq(seqs) = flat[Len(seqs)]
  BY FlattenRuns
<1>. DEFINE N == Len(seqs)
            Holds(n) == \A t : t \in Range(flat[n]) <=> \E k \in 1..n : t \in Range(seqs[k])
            D == { n \in 0..N : ~ Holds(n) }
<1>2. N \in Nat /\ N \in 0..N /\ DOMAIN seqs = 1..N
  OBVIOUS
<1>3. ASSUME D # {} PROVE FALSE
  <2>1. PICK m \in D : \A k \in D : ~ (k < m)
    <3>1. D \subseteq Nat
      OBVIOUS
    <3>. HIDE DEF D
    <3>. QED BY <1>3, <3>1, LeastNumber
  <2>2. CASE m = 0
    <3>1. flat[0] = <<>>
      BY <1>1 DEF FlatCourse
    <3>2. Holds(0)
      BY <3>1 DEF Range
    <3>. HIDE DEF Holds
    <3>. QED BY <2>2, <3>2
  <2>3. CASE m # 0
    <3>1. m \in 1..N /\ m - 1 \in 0..N /\ m - 1 < m
      BY <2>3
    <3>2. Holds(m - 1)
      <4>. HIDE DEF Holds
      <4>. QED BY <2>1, <3>1
    <3>. DEFINE before == flat[m - 1]
                s      == seqs[m]
    <3>3. before \in Seq(S) /\ s \in Seq(S) /\ flat[m] = before \o s
      <4>1. seqs[m] \in Seq(S)
        BY <3>1
      <4>2. flat[m - 1] \in Seq(S) /\ flat[m] = flat[m - 1] \o seqs[m]
        BY <1>1, <3>1 DEF FlatCourse
      <4>. QED BY <4>1, <4>2
    <3>. HIDE DEF before, s, D
    <3>4. Range(before \o s) = Range(before) \cup Range(s)
      <4>. DEFINE a == Len(before)
                  b == Len(s)
                  c == before \o s
      <4>1. /\ a \in Nat /\ b \in Nat
            /\ DOMAIN c = 1..(a + b) /\ DOMAIN before = 1..a /\ DOMAIN s = 1..b
            /\ \A i \in 1..(a + b) : c[i] = IF i <= a THEN before[i] ELSE s[i - a]
        BY <3>3, ConcatProperties
      <4>. HIDE DEF a, b, c
      <4>2. \A i \in 1..a : before[i] = c[i] /\ i \in 1..(a + b)
        BY <4>1
      <4>3. \A i \in 1..b : s[i] = c[i + a] /\ i + a \in 1..(a + b)
        <5>1. ASSUME NEW i \in 1..b PROVE s[i] = c[i + a] /\ i + a \in 1..(a + b)
          <6>1. i + a \in 1..(a + b) /\ ~ (i + a <= a) /\ (i + a) - a = i
            BY <4>1
          <6>. QED BY <4>1, <6>1
        <5>. QED BY <5>1
      <4>4. \A i \in 1..(a + b) : c[i] \in Range(before) \cup Range(s)
        <5>1. ASSUME NEW i \in 1..(a + b) PROVE c[i] \in Range(before) \cup Range(s)
          <6>1. CASE i <= a
            <7>1. i \in 1..a
              BY <4>1, <6>1
            <7>. QED BY <4>1, <4>2, <7>1 DEF Range
          <6>2. CASE ~ (i <= a)
            <7>1. i - a \in 1..b
              BY <4>1, <6>2
            <7>. QED BY <4>1, <6>2, <7>1 DEF Range
          <6>. QED BY <6>1, <6>2
        <5>. QED BY <5>1
      <4>5. Range(c) = { c[i] : i \in 1..(a + b) }
        BY <4>1 DEF Range
      <4>6. Range(before) = { before[i] : i \in 1..a } /\ Range(s) = { s[i] : i \in 1..b }
        BY <4>1 DEF Range
      <4>7. Range(c) = Range(before) \cup Range(s)
        BY <4>2, <4>3, <4>4, <4>5, <4>6
      <4>. QED BY <4>7 DEF c
    <3>5. \A k : k \in 1..m <=> k \in 1..(m - 1) \/ k = m
      BY <3>1
    <3>6. Holds(m)
      BY <3>2, <3>3, <3>4, <3>5 DEF before, s
    <3>. QED BY <3>6 DEF D
  <2>. QED BY <2>2, <2>3
<1>4. Holds(N)
  BY <1>2, <1>3
<1>5. flat[N] \in Seq(S)
  BY <1>1, <1>2 DEF FlatCourse
<1>. QED BY <1>1, <1>2, <1>4, <1>5

-----------------------------------------------------------------------------
(* The states a step of nd leads to from any of S.                         *)
Image(nd, S, l) == UNION { Range(nd.step[<<s, l>>]) : s \in S }

(* A step of the adapter leads to all the states a step of nd leads to,    *)
(* each of them once, and is refused if there is none.                     *)
LEMMA PowerStepIs ==
  ASSUME NEW S, NEW nd, NEW l, NEW states \in Seq(S),
         \A s \in S : nd.step[<<s, l>>] \in Seq(S)
  PROVE  /\ Image(nd, Range(states), l) = {} => PowerStep(nd, states, l) = NoPower
         /\ Image(nd, Range(states), l) # {} =>
              /\ PowerStep(nd, states, l) \in Seq(S)
              /\ Range(PowerStep(nd, states, l)) = Image(nd, Range(states), l)
              /\ IsInjective(PowerStep(nd, states, l))
         /\ HashedStep(nd, states, l) = PowerStep(nd, states, l)
<1>. DEFINE after == Image(nd, Range(states), l)
            seqs  == [k \in DOMAIN states |-> nd.step[<<states[k], l>>]]
            all   == Successors(nd, states, l)
            kept  == deduplicate(all)
<1>1. seqs \in Seq(Seq(S)) /\ DOMAIN seqs = DOMAIN states
  <2>1. DOMAIN states = 1..Len(states) /\ Len(states) \in Nat
    OBVIOUS
  <2>2. \A k \in 1..Len(states) : nd.step[<<states[k], l>>] \in Seq(S)
    OBVIOUS
  <2>3. seqs \in [1..Len(states) -> Seq(S)]
    BY <2>1, <2>2
  <2>. HIDE DEF seqs
  <2>4. seqs \in Seq(Seq(S))
    BY <2>1, <2>3, SeqDef
  <2>. QED BY <2>1, <2>3, <2>4
<1>2. /\ all \in Seq(S)
      /\ \A t : t \in Range(all) <=> \E k \in DOMAIN seqs : t \in Range(seqs[k])
  <2>1. all = FlattenSeq(seqs)
    BY DEF Successors
  <2>. HIDE DEF seqs, all
  <2>. QED BY <1>1, <2>1, Flattened
<1>3. Range(all) = after
  <2>1. \A t : (\E k \in DOMAIN seqs : t \in Range(seqs[k]))
               <=> \E s \in Range(states) : t \in Range(nd.step[<<s, l>>])
    BY DEF Range
  <2>. HIDE DEF seqs, all
  <2>2. \A t : t \in Range(all) <=> t \in after
    BY <1>2, <2>1 DEF Image
  <2>. HIDE DEF after
  <2>. QED BY <2>2
<1>4. kept \in Seq(S) /\ Range(kept) = after /\ IsInjective(kept)
  <2>. HIDE DEF all, after
  <2>. QED BY <1>2, <1>3, Deduplicated
<1>5. deduplicate_hashed(all) = kept
  <2>. HIDE DEF all
  <2>. QED BY <1>2, HashedSame
<1>6. kept = <<>> <=> after = {}
  <2>. HIDE DEF kept, after
  <2>1. Range(<<>>) = {}
    BY DEF Range
  <2>2. ASSUME kept # <<>> PROVE Range(kept) # {}
    <3>1. 1 \in DOMAIN kept
      BY <1>4, <2>2, EmptySeq
    <3>. QED BY <3>1 DEF Range
  <2>. QED BY <1>4, <2>1, <2>2
<1>7. PowerStep(nd, states, l) = OrNone(kept) /\ HashedStep(nd, states, l) = OrNone(kept)
  BY <1>5 DEF PowerStep, HashedStep
<1>. HIDE DEF kept, after
<1>8. /\ after = {} => PowerStep(nd, states, l) = NoPower
      /\ after # {} => PowerStep(nd, states, l) = kept
      /\ HashedStep(nd, states, l) = PowerStep(nd, states, l)
  BY <1>6, <1>7 DEF OrNone
<1>. QED BY <1>4, <1>8 DEF after

(* And it starts in the initial states of nd.                              *)
LEMMA PowerInitIs ==
  ASSUME NEW S, NEW nd, nd.init \in Seq(S)
  PROVE  /\ PowerInit(nd) \in Seq(S)
         /\ Range(PowerInit(nd)) = Range(nd.init)
         /\ IsInjective(PowerInit(nd))
         /\ HashedInit(nd) = PowerInit(nd)
BY Deduplicated, HashedSame DEF PowerInit, HashedInit
=============================================================================
