# A TLA+ model of porcupine-rust

porcupine-rust decides whether a concurrent history is linearizable with
respect to a sequential model.  This directory holds TLA+ modules that model
it, TLC configurations that check them on small instances, and proofs of the
main results that TLAPS checks.  "Line n" below is a line of
`src/checker.rs` unless another file is named.

## 1. The system

| Part | State | Operations | What makes it correct |
|---|---|---|---|
| Histories to entry lists (`make_entries`, `make_entries_from_indices`, `renumber`, `convert_entries`, `convert_entries_from_indices`; lines 62-198) | none | flatten operations or events into a list of calls and returns ordered by time, calls first among equals, with dense ids | the list orders a return before a call exactly when the history does (INV-HIST-02) |
| Assertions (`src/invariants.rs`) | none, debug builds only | well-formedness of operations and events; partitions disjoint, complete, in bounds, calls and returns together | they fire on malformed histories and partitions and on nothing else (INV-HIST-01, INV-LIN-03) |
| `NodeArena` (lines 200-363) | nodes with `match_idx`, `prev`, `next` | build, `head_next`, `next_of`, `match_of`, `lift`, `unlift` | the list holds the live entries, in order, after any nesting of lifts |
| `Bitset` (`src/bitset.rs`) | 64-bit words | `set`, `clear`, `hash`, `hash_with_bit`, `eq_with_bit` | a probe with a bit adjusted finds what was stored with the bit set |
| `check_single` (lines 369-583) | list, bitset, model state, stack, cursor, cache; reads the kill flag | linearize a call, skip it, backtrack, return | sound, complete, terminating (INV-LIN-01, 02, 04) |
| `check_parallel` (lines 585-687) | kill flag, `definitive_illegal`, rayon's tasks | four paths: no partition, one, few entries (sequential), many (rayon) | the first refusal stops the siblings; a killed search is never a verdict |
| Timer and `to_check_result` (lines 689-757) | `timed_out`, a mutex, a condition variable | wait, fire, cancel; translate the flags | a time-out is never reported as a verdict, nor a verdict lost for good |
| `check_operations`, `check_events` (lines 759-851) | none of their own | assertions, partition, lists, timer, `check_parallel`, cancel, result | the composition |
| `examples/s2_checker.rs` | none | parse a recorder's lines into events, step a stream model, check, exit with a code | exit code 0 only for what a stream can have done, FAIL only for what it cannot |
| Models (`src/model.rs`) | none | `PowerSetModel`, `HashedPowerSetModel` reduce a nondeterministic model to a deterministic one | INV-ND-01 |

The searches of different partitions share nothing but the kill flag and the
model, which is immutable.  What is hard is: a cache that outlives the path
that filled it; state that backtracking must restore piece by piece; a flag
that two kinds of threads raise and all searches poll, with relaxed ordering;
a timer that may fire while the check is finishing; a model that panics under
one search while the others run; an answer assembled from three flags written
by different threads; and, in the example, requests whose effect is unknown.
`PROJECT.json` lists these hazards at their lines, with the properties that
watch them.

## 2. The modules

    History          models, entry lists, what a linearization is
      Search         the backtracking search on sets and positions
        Search_proof  soundness, completeness, cache soundness, the contract
      NodeArena      the linked list
    Bitset           the bitset
      CheckSingle    check_single on list, words and buckets; implements Search
        CheckSingle_proof  list and bitset, its own invariants, the refinement
    Decision         what check_single promises; it and Search implement it
    Checker          check_parallel, the timer, to_check_result
      Checker_proof  its proofs
    Verdict          what a check promises its caller; Checker implements it
    RegisterModel    the register model of the unit tests and its histories
    Entries          histories to entry lists; the assertions
      CheckHistory   check_operations and check_events, up to the verdict
        CheckHistory_proof   its proofs
    KvModel          the key-value model of the tests and its partitions
    PowerSet         the two power-set adapters
      PowerSet_proof   their loops, step by step, and what they compute
      PowerSetRun    the adapters next to the runs of the model they adapt
        PowerSetRun_proof  its proofs
      NdSearch       Search on an adapted model, and what its verdict means
        NdSearch_proof     that it is the verdict on the model adapted
      LossyRegister  the lossy register of the tests, adapted
      S2StreamModel  the model of an S2 stream, of s2_checker
        S2Service    the stream itself, its clients and the recorder
          S2Checker  the parser, check_events by Verdict, the exit code
            S2Checker_proof  its proofs
    MC*              what TLC needs to run them

An operator or action whose comment is `mutant` is a deliberately wrong
variant of the definition below it.  It is used by nothing: substituting it
for that definition must make a property fail, and `PROJECT.json` says which.

`Verdict` and `Decision`, and in `History` and `CheckHistory` the definitions
of what is well-formed and what linearizable, are specification: they stand
for no code, and `PROJECT.json` maps them to none.

**History.**  `State`, `Input`, `Output`, `InitState`, `Rejected` and `Step`
are the `Model` trait; `Rejected` is the `None` of `step`.  An entry has the
`id`, the kind and the value of the code's `Entry`; its position is its time,
because `time` is read only by the sort.  `Linearizable` is the definition the
checker is measured against and mentions nothing of the algorithm.

**Search.**  The list is the set `Live` of entries of operations not yet
linearized, the bitset a set, the cache a set of pairs; `cursor` is a
position, and one past the last stands for `None`.  One action is one
iteration of the loop of lines 494-582, which starts with the load of the kill
flag:

| Action | Code |
|---|---|
| `ReturnEmpty` | 448: before the loop, and before the flag is looked at |
| `ReturnKilled` | 495 |
| `ReturnTrue` | 500: the cursor is `None` |
| `Linearize` | 532: the step is accepted and not cached; cache, stack, state, bitset, list and cursor change together |
| `SkipCached`, `SkipRejected` | 558, 562 |
| `Backtrack`, `ReturnExhausted` | 571, 569: the cursor is on a return |
| `SetKill` | the environment |

**CheckSingle** is the same loop on the code's own data.  Its refinement
mapping reads the set of operations off the bitset's words and the pairs off
the buckets; the list needs no mapping, since `Search` has none, and that the
cursor found by following `next` is the one `Search` chooses is what
`ImplementsSearch` checks.  `W` is the width of a word.

**Decision** is the contract between the two levels: a verdict is right if
given, and `false` may be given once kill is set.  `Search` and `CheckSingle`
implement it (`KeepsContract`; both proved, as `ContractKept`); in
**Checker** each partition's search takes the contract's
two steps, `SearchEnds` and `SearchKilled`, and everything else is the code of
lines 599-757: the dispatch on the number of partitions and of entries, the
closure given to `any` (which may skip closures once one has answered true),
the judgement at lines 672-684, the timer thread, the cancellation and the
translation of flags into a result.  `LoadKill` models a relaxed load: a
thread may read a stale `false` until it has once read, or stored, `true`.
The timer's two stores take effect in either order, while it holds the mutex.
A search in `Panics` may end by unwinding instead (`SearchPanics`): a search
of the calling thread leaves the check at once; rayon keeps a worker's panic,
takes no further closure and passes the panic on when the others have
finished; nobody cancels the timer, which may still fire into a check that is
over.

**Verdict** is the contract one level up: until the timer has fired the only
answer is the truth; afterwards a linearizable history is `Unknown`, another
one `Unknown` or `Illegal`; a check that panics does not answer.  `Checker`
implements it (`ImplementsVerdict`), and `S2Checker` takes `check_events` by
it.

**Entries** and **CheckHistory**.  A history is a sequence of operations with
times, or of events with ids, inputs and outputs.  The sort puts each entry
after as many as sort before it: those that are earlier, or calls at the time
of a return, and, the sort being stable, those among equals that were pushed
before.  Renumbering is the count of ids seen before an id
first appears.  An assertion is the condition under which it passes; the
action that makes it goes to `panicked` otherwise.  The model's answer to
`partition` is any member of a set the instance gives, or `None`.  The module
also states, from the history alone, what its real-time order is
(`HappensBefore`), when it is linearizable and what the documentation requires
of a partition; the properties relate the lists to these.  The search of the
lists is taken by its contract.

**PowerSet** has the two ways to deduplicate as the loops they are, one
recursive function of the number of states looked at each, and a
nondeterministic model as a record of sequences.  **PowerSetRun** takes both
adapters along the same operations.  **NdSearch** is `Search` on an adapted
model, with the linearizations of the model that was adapted next to it;
**LossyRegister** is the one the runs adapt.

**S2StreamModel**, **S2Service**, **S2Checker**.  The stream model is
translated branch by branch, overflow of the `u32` tail included (a panic, as
in a debug build).  `S2Service` is not code of this repository: clients that
ask and are answered, any answers, and the recorder that writes a line for
each.  It carries along the set `possible` of streams, and of answers not yet
given, that explain the lines so far, for streams that honour the guards as
the comments on `S2Input` state them.  The checker may be started at any
moment: while lines are still missing, or after the recorder died in the
middle of one (`Torn`).  Parsing abstracts the JSON syntax and keeps the
truncation `as u32`, the panic on a line that does not parse and the
assertions of `check_events`.  The properties compare the exit code with
`possible`, which knows nothing of the search or of the model.

## 3. What the runs check

| Run | Instance | Shows |
|---|---|---|
| `search` | all histories of up to 3 operations, writes of 1 and reads of 0 and 1, of a register that may lose writes, behind `PowerSetModel`; kill raised at any time | a `true` comes with a linearization on the stack; a `false` with the flag clear only if there is none; a cache hit never prunes a completable branch; the stack is always an execution that jumps over no live return; the verdict is that of the nondeterministic register (INV-ND-01) |
| `check_single` | the same with the plain register, words of 2 bits, under fairness | list, words and buckets implement `Search`; list links are right in both directions; each pair is cached once, where probes look for it; every search returns; the contract `Decision` is kept |
| `checker` | up to 3 partitions of 0, 2 or 4 entries, each linearizable or not, 2 workers, threshold 6, timer or none, spurious wake-ups, panics | check_operations implements `Verdict`: `Ok` and `Illegal` are never wrong, and `Unknown` comes only after a time-out; nothing runs when `check_parallel` has come back or a panic has left it; cancel is final |
| `checker_live` | 2 partitions, one of which never ends by itself, either may panic; no spurious wake-ups | a time-out, and a raised kill flag, end the check; a panic reaches the caller; the timer does not fire early |
| `check_history` | writes with any times, or any events, of up to 3 (2) operations, with every partition into two parts of up to two positions in range or one beyond (operations), or in ascending order, split, incomplete or doubled (events); and every key-value history of up to 3 operations on two keys, by key | assertions stop what is malformed and nothing else; lists are well-formed with dense ids, hold each operation once, and order them as the history does; the joint verdict is the history's |
| `power_set` | every model of two states and two operations that lists up to two states as initial and as successors; 3 operations | both adapters hold the reachable states, once each, in the same order |
| `s2` | every recording of two clients with up to 3 requests: appends that install a token, replace it naming it, name it, match the tail, or go past the range of the tail (`U32` = 4); reads, tail checks; every answer up to one record more than appended | exit code 0 only for histories a stream that honours its guards can have produced; FAIL only for those it cannot; a file that is torn or lacks answers is never judged |
| `search_frontier`, `checker_duration`, `checker_cancel`, `check_history_order`, `s2_fencing` | | the five findings below |

*Bounds.*  Three operations are the fewest with which a branch can be reached
by two paths, refused below, and met again through the cache.  Two-bit words
make a bitset of three operations cross a word.  Three partitions on two
workers give a task that waits, one that runs and one that has refused; the
sizes and the threshold reach the single, the sequential and the parallel
path, with empty partitions among them.  Times 0..2 put three operations in
a row, make them touch, overlap, and take no time; slices are in any order for
up to three writes and for two key-value operations.  Two keys and three
operations give a part in which order matters next to another.  Two states
with lists of two make every case of deduplication: equal neighbours, equal
states apart, and states reached from different states.  Two clients and three
requests let an append whose fate is unknown overlap a second request and be
found out by a third; `U32` = 4 is passed by two appends, one of them of two
records; two tokens are enough for one to be replaced.

*What is assumed of the world of `s2`.*  A stream acts on a request between
its two lines; an append that failed indefinitely takes effect before its
`Finish` line or never.  In run `s2` a client names a fencing token only when
the stream is known to have one (`Disciplined`); `s2_fencing` drops this.
Clients go on asking, up to `MaxOps` requests, after an answer that no stream
can have given.

*Fairness.*  The searching thread is scheduled (`WF_vars(Iterate)`).  In
`Checker` every thread is scheduled, the clock advances while the timer waits,
and a relaxed store becomes visible in finite time; a search in `Endless` is
promised nothing but that it keeps polling kill.  No search is promised to
panic.

## 4. Findings

1. `search_frontier`: `docs/spec.md` (INV-HIST-03) allows only the earliest
   live call to be linearized; the code tries later calls too, as it must.
   What does hold is `NoReturnJumped`.
2. `checker_duration`: the timer takes a spurious wake-up for the time-out.
3. `checker_cancel`: a cancellation before the timer thread has locked the
   mutex is lost.  The thread does not look at the flag before it waits, so it
   sleeps its full duration with no wake-up coming, the check long reported.
4. `check_history_order`: a part of an event history must list its events in
   ascending order, since their places in the part become their times;
   `src/invariants.rs` requires and asserts disjointness, completeness, bounds
   and pairing only, so a descending part is searched as a history that did
   not happen.  (For operations any order will do: they are sorted.)

5. `s2_fencing`: after an append that failed indefinitely and names a fencing
   token, the model of `examples/s2_checker.rs` lets the append take effect on
   a stream that has no token (lines 95-101), though after a success it
   refuses just that (line 112), and the comments on the field and on the
   branch in `src/tests/s2_model.rs` rule it out.  Histories no stream can
   have produced are accepted.

Also worth knowing:

- A timer that fires after the last search has ended and before it is
  cancelled turns a decided check into `Unknown`, because `to_check_result`
  looks at `timed_out` before it looks at `ok` (line 750).
- A panic in a user's model leaves the timer thread asleep for its full
  duration: `check_operations` never gets to cancel it.
- `hash_with_bit` is not the hash of the bitset with the bit set, as its
  comment (`src/bitset.rs`, line 56) says, because it adds one to the
  population count by xor.  It is the only key the cache is probed and filled
  with, and it depends on the resulting set alone (`KeyOfResult`, proved), so the
  cache is right.
- `s2_checker` exits with 1 also for a missing argument or an unreadable file
  and with 101 on a panic; its header lists 0 and 1 only.  Numbers in the file
  are cut to 32 bits.

## 5. What is proved

Eight modules hold proofs; each names what it assumes of the constants, and
nothing else is assumed.

**`Search_proof`, soundness**, for every model, every set of well-formed entry lists and
any moment of the kill flag (`ModelAssumption`, `HistoriesAssumption`): type
correctness, `StackIsExecution`, `NoReturnJumped`, and soundness,
`AcceptedIsLinearization`.  The inductive invariant `IInv` joins these with
two facts they need: the cursor stands on a live entry (else an operation
could be pushed twice), and `true` is returned with all operations linearized.
The argument: a move of the cursor passes over linearized entries only
(`PassedOver`), so every return before the cursor is linearized; hence a call
is pushed only after the operations that returned before it, and a cursor off
the list means nothing is left.

**`Search_proof`, completeness**, from the same assumptions: completeness,
`RefusedIsNotLinearizable`; cache soundness, `PrunedIsHopeless`; and
`ContractKept`, that the search implements `Decision` (its safety part).  A
node of the search is a set of operations with the state after them; a call
is eligible in it if its operation is not in the set and every return before
it is of one that is; the node is closed if each eligible call is refused or
leads to a node in the cache.  The inductive invariant `CInv` adds to `IInv`:
in each node on the stack everything before the position reached there has
been tried (`StackTried`); nodes on the stack are in the cache
(`StackCached`), or backtracking could not close the node below; cached nodes
off the stack are closed (`CacheClosed`); and the full set is in the cache
only when it has just been reached (`CompleteAtEnd`).  At a live return
nothing eligible is left behind the cursor, so the node is closed
(`ClosedAtReturn`).  `Hopeless` then shows that a closed node has no
completion: along one, take the first node that is not cached, by
well-foundedness of `<`; the one before it is closed, so the call between
them was refused or its result is cached, a contradiction.  For `ContractKept`
the entries of a list are counted (`CountOps`), since `Linearizable` fixes the
length of a linearization.

**`CheckSingle_proof`, the list**, says what the list is with one predicate, `Links(A, S)`:
from the sentinel on, every `next` leads to the least member of `S` beyond,
every `prev` back to the greatest before.  `from_entries` links the whole list
(`BuiltLinked`); `lift` of a live call takes out the call and its return and
nothing else (`LiftLinks`); and `unlift` of the last lift returns the very
arena it was applied to (`UnliftRestores`).  The last holds because a node
keeps its links when it is taken out, and because `unlift` puts the two back
in the opposite order.

**`CheckSingle_proof`, the bitset**, for any word width (`WidthAssumption`): a bitset is the
set of its bits (`SameMembers`), which `set` and `clear` change by one member;
`eq_with_bit` is equality with the result of `set` (`EqMeansSet`); and
`hash_with_bit` of a bit that is clear is a function of the result
(`HashIsKey`, `KeyOfResult`).

**`CheckSingle_proof`, the search**, for every model, set of entry lists, word width and
moment of the kill flag (`ModelAssumption`, `HistoriesAssumption`,
`NoneAssumption`, `WidthAssumption`): type correctness, `ListIsLive`,
`CachedOnceInItsBucket`, the refinement of `Search` and, with it,
`ContractKept`.  That the list is linked right at present is not inductive:
backtracking must bring back an earlier list.  `ListsLayered` therefore
says that under every frame on the stack lies an arena, linked as the entries
that were live then, whose lift by that frame's call is the next one, so that
`UnliftRestores` gives back the one below.  `FramesAreCalls` ties the stack to
the bits, `CursorIsLive` the cursor to the list, and `BucketsKeyed` each
cached bitset to the bucket of its `Key`, without which a probe could miss a
pair that is stored.  Given these, each step of the loop is the step of
`Search` of the same name: the cursor found by following `next` is the first
live entry, and a scan of one bucket answers for the whole cache.  What is
proved of `Search` is then instantiated at the refinement mapping, so that
pointers, words and buckets keep the promise of `Decision`.

**`Checker_proof`**, for any number of partitions, entries and workers, any
threshold, any set of searches that panic or never end, with spurious wake-ups
or without (`CheckerAssumption`, and that is all): type correctness,
`NothingLeftRunning`, `CancelIsFinal` and `ImplementsVerdict`.  The inductive
invariant `IInv` has, besides the types: `TimerInv`, which ties the timer's
stage, its stores and the cancellation together (a cancelled timer does not
hold the mutex, so it stores nothing more); `ThreadInv`, which thread may be
searching when; `CauseInv`, that every flag was raised for a reason: kill by
the timer or by a refused partition, `definitive_illegal` by one only;
`CoverInv`, that a partition that is not linearizable is still to be searched,
in some thread's hands, or has left a trace in the flags, which is what makes
`Ok` right; and `ReturnInv`, what the boolean of `check_parallel` means until
it is translated.  From `ElapsedInv`, that the timer leaves its wait only when
the duration is over or by a spurious wake-up, follows `TimesOutAfterDuration`
(`NeverTimesOutEarly`; its hypothesis `~Spurious` is finding 2).  Liveness of `Checker`, and of a search that panics
(`PanicSurfaces`), is not part of it.

**`CheckHistory_proof`**, for any model, histories of any length and any
answers of `partition` (`ModelAssumption`, `InputsAssumption`): `AssertionsExact`,
that what the assertions refuse is malformed and what they let through is not;
and, if parts of events are in ascending order (`AnswersAscend`, a hypothesis
of these theorems because of finding 4), type correctness, `ListsWellFormed`,
`RealTimeKept` and `EverythingSearchedOnce`.  The inductive invariant `IInv`
only says how far the check has come, that what is past an assertion passed
it, and which lists were built; the work is in what follows from it.  In a
finite set with a strict total order, counting the elements below each numbers
them from 0 (`Ranks`); this makes the sort a permutation that puts the entries
in order (`SortedPlaces`), and new ids dense (`NewIds`).  Events that pass
their assertion pair up (`EventPairs`), two to an id (`TwoEventsEach`).
Indices that are in bounds, distinct, and as many as the history is long are
all of them (`Covered`).  So a list built from a part consists of the ends of
its operations (`EndsAt`), which gives everything asked of it (`ListFacts`).

The same module proves `VerdictIsOfHistory`.  For a history that is left whole
nothing more is assumed of the model (`VerdictOfWhole`).  For one that is
partitioned, INV-LIN-03 asks that the parts be independent, and the proof says
what that has to mean (`VerdictIsLocal`): every input has a key, what a step
looks at and changes is the view of the state under that key (`IsLocal`), and
no two parts have operations of the same key (`PartsByKey`).  Neither
premise can be dropped: a partition that splits a key passes all assertions.
Both hold of the key-value model of the tests: `KvIsLocal` proves `IsLocal` of
its `step`, and its `partition` and `partition_events` collect the positions of
each key in ascending order (`IndicesAre`, `ByKeyIs`), so for this model
`KvVerdict` is free of them: its hypotheses only say that the model is this
one (`IsKvModel`, `PartitionsByKey`).  Operations of the history that are lined
up in real-time order and accepted (`Explained`) are what both
`HistoryLinearizable` and `Linearizable` of a list amount to
(`HistoryExplained`, `ListExplained`).  Dropping the operations of other keys
from an explanation of the whole leaves one of the part (`Restricted`).  The
other direction is the theorem that linearizability is local: explanations of
the parts are merged into one of the whole (`Merged`).  Each operation gets a
moment, the latest call up to it in the line of its own part; that moment is
not after its return because the line respects real time (`Moments`).  Ordering
all operations by moment, and by part and place where moments tie, respects
real time and keeps each line (`MergeOrder`).  Then the merged trial and the
trials of the parts advance together (`Progress`), with equal views of the keys
of each part.

**`PowerSet_proof`** and **`PowerSetRun_proof`**, for every nondeterministic
model and any number of operations (`NdAssumption`): `PowerIsReachable`,
`NoDuplicates` and `AdaptersAgree`.  The loops that deduplicate are recursive
functions, and what a loop has computed after k states is stated as an
invariant of its course (`IsCourse`, `Course`): what is kept are the states
met so far, once each, in the order of their first occurrence (`KeptNext`,
`Deduplicated`).  The library's induction takes an operator the provers cannot
instantiate, so each is an induction by least counterexample (`LeastNumber`).
The hashing adapter keeps the same sequence (`HashedSame`), because at every
step its set has the members of the other's list.  A step of the adapter is
then the image of a set of states under the relation of the model
(`PowerStepIs`), and the inductive invariant is `PowerIsReachable` itself: a
run of the model to a state, extended by a successor, is a run.

**`NdSearch_proof`**, for every model made by `PowerSetModel` (`AdapterAssumption`
and the assumptions of `Search`): `NdVerdict`.  Along any order of operations
the adapter has a run exactly when the nondeterministic model has one: going
forward, the states that the model passes through stay members of the adapter's
(`AdapterFollows`); going back from any state of the last, predecessors can be
chosen (`ChoicesExist`).  Hence both have the same linearizations
(`SameVerdict`), and soundness and completeness of the search do the rest.

**`S2Checker_proof`**, for any number of clients and requests, any answers and
any bound on the tail (`ServiceAssumption`, `CheckerAssumption`):
`JudgedIsWhole`, `RefusedIsImpossible` and, of clients that are disciplined
and tails that fit, `AcceptedIsPossible`.  The first needs only that the lines
are in order (`FileInv`): a file that passes the assertions has an answer to
every request, so nothing is pending.  For the others the set `possible` of
the stream's worlds, kept line by line, has to be compared with a search that
sees the file only when it is whole.  Between them stands a run (`Run`): the
requests that are answered, one after another through the stream model, in an
order that respects the real time of the file.  `Sound` says that every
possible world has a run; serving one more request extends it
(`RunExtends`).  `Complete` says that the world of every run that ends with a
request answered in the file is possible.  That the last one is answered
matters: a request that is pending is served only when somebody's answer is
recorded.  When an answer is recorded, the part of a run after the last
request answered before is a chain of pending ones, no longer than there are
clients, which `Reachable` follows (`ReachableComplete`).  Here the models
differ where finding 5 says they do, so `Complete` needs that no pending
request names a token a possible stream lacks (`TokensKnown`), which is what
`Disciplined` buys.  At the end a run is an order for the search, whose walk
of `PowerSetModel` goes through the run's states unless it panics
(`RunWalks`); and a walk that is accepted has, by `PowerStepIs`, a path to
any of its last states, which is a run (`WalkHasPath`, `WalkIsRun`).  `as u32`
is harmless in the first direction, since what a stream within 32 bits answers
is parsed as it is (`StepIsParsed`); in the second it is not, and `TailsFit`
is the weakest bound on recorded tails found to suffice (`ParsedIsStep`): below
2^32, plus the records just appended for an append, which is so of whatever a
stream answers whose tail was within 32 bits before.  A torn file is claimed
nothing about but that it is not judged.

Only model-checked: all liveness, which is out of the prover's reach (as are `ENABLED`, induction over
data, and recursive operators).  Thus the fair half of `ImplementsSearch` and
`KeepsContract`, that a search that is scheduled returns, rests on the run.

## 6. What is left out

Not modelled, and why: lists of 2^32 entries (node indices are `u32`; far out
of TLC's reach, and no state short of it shows the wrap); `LinearizationInfo`
(a type nothing fills in); the benchmarks and the test drivers (the models
they use are modelled); release builds on malformed histories or partitions,
which they trust, and on tails beyond `u32`, which wrap; an append to a stream
that takes effect after its indefinite failure has been recorded, which
`s2_checker` does not claim to handle; and the syntax of the JSON lines.
