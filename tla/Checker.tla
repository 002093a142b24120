------------------------------ MODULE Checker ------------------------------
(***************************************************************************)
(* One call of check_operations or check_events (src/checker.rs), from the *)
(* partitions of the history to the CheckResult: the calling thread, the   *)
(* rayon workers that search the partitions, and the timer thread.         *)
(*                                                                         *)
(* A search is the contract of check_single (module Decision): it ends by  *)
(* itself with the right verdict in an iteration that read the kill flag   *)
(* clear, or with false in one that read it set.  Or the model panics.     *)
(*                                                                         *)
(* All flags are accessed Relaxed.  A thread may go on reading kill clear  *)
(* after another has set it, but never after having read it set, or having *)
(* set it itself; the timer's two stores may become visible in any order.  *)
(* definitive_illegal and timed_out are read only after the join with the  *)
(* workers and after locking the timer's mutex, so they need no such view. *)
(***************************************************************************)
EXTENDS Naturals, FiniteSets, FiniteSetsExt

CONSTANTS
  Partitions,   \* the partitions a history may have
  Sizes,        \* the entry counts a partition may have
  Threshold,    \* SEQUENTIAL_THRESHOLD
  Workers,      \* the threads of the rayon pool
  Main,         \* the calling thread
  NoPartition,  \* not a partition
  Endless,      \* the partitions whose search outlasts any patience
  Panics,       \* the partitions on which Model::step may panic
  Spurious      \* TRUE if wait_timeout may return for no reason

ASSUME CheckerAssumption ==
  /\ NoPartition \notin Partitions
  /\ Sizes \subseteq Nat /\ Threshold \in Nat
  /\ Main \notin Workers
  /\ Endless \subseteq Partitions /\ Panics \subseteq Partitions
  /\ Spurious \in BOOLEAN

Threads == Workers \cup {Main}

VARIABLES
  size,         \* the entry count of each partition of this history
  good,         \* those of them that are linearizable
  timeout,      \* whether a timeout was given
  main,         \* where the calling thread is
  todo,         \* the partitions no thread has taken yet
  at, work,     \* where each thread is in the search of which partition
  decided,      \* (history) the partitions whose search ended by itself
  kill, seen,   \* the flag; the threads that can only read it set
  definitive,   \* the flag definitive_illegal
  found,        \* whether a closure given to `any` has returned true
  panicked,     \* whether a search has panicked
  ok,           \* what check_parallel returned
  timer,        \* where the timer thread is
  elapsed,      \* whether the duration has passed since it began to wait
  cancelled,    \* the Boolean of TimerHandle.cancel
  notified,     \* whether the condition variable has a wake-up to deliver
  timed_out,    \* the flag of TimerHandle
  result        \* what to_check_result returned

history  == <<size, good, timeout>>
searches == <<todo, at, work, decided>>
flags    == <<kill, seen, definitive, found, panicked>>
timing   == <<timer, elapsed, cancelled, notified, timed_out>>
vars     == <<history, main, searches, flags, ok, timing, result>>

Parts == DOMAIN size
Bad   == Parts \ good

TotalEntries == MapThenSumSet(LAMBDA p : size[p], Parts)

(* An empty partition is linearizable. *)
Init ==
  /\ size \in UNION { [P -> Sizes] : P \in SUBSET Partitions }
  /\ good \in SUBSET Parts
  /\ \A p \in Parts : size[p] = 0 => p \in good
  /\ timeout \in BOOLEAN
  /\ main = "start"
  /\ todo = Parts
  /\ at = [t \in Threads |-> "idle"]
  /\ work = [t \in Threads |-> NoPartition]
  /\ decided = {}
  /\ kill = FALSE /\ seen = {}
  /\ definitive = FALSE
  /\ found = FALSE /\ panicked = FALSE
  /\ ok = FALSE
  /\ timer = IF timeout THEN "started" ELSE "none"
  /\ elapsed = FALSE /\ cancelled = FALSE /\ notified = FALSE
  /\ timed_out = FALSE
  /\ result = "unset"
-----------------------------------------------------------------------------
(* Thread t loads kill and gets v. *)
LoadKill(t, v) ==
  \/ v /\ kill /\ seen' = seen \cup {t}
  \/ ~v /\ t \notin seen /\ UNCHANGED seen

Choose(path) ==
  /\ main = "start"
  /\ main' = path
  /\ UNCHANGED <<history, searches, flags, ok, timing, result>>

(* check_parallel comes back with v; the timer is next to be cancelled. *)
ComeBack(v) == ok' = v /\ main' = "cancel"

NoPartitions ==
  /\ main = "start"
  /\ Parts = {}
  /\ ComeBack(TRUE)
  /\ UNCHANGED <<history, searches, flags, timing, result>>

OnePartition ==
  Cardinality(Parts) = 1 /\ Choose("single")

FewEntries ==
  Cardinality(Parts) > 1 /\ TotalEntries < Threshold /\ Choose("sequential")

ManyEntries ==
  Cardinality(Parts) > 1 /\ TotalEntries >= Threshold /\ Choose("parallel")

TakeKeepingTask(t, p) ==                                  \* mutant
  /\ UNCHANGED todo
  /\ at' = [at EXCEPT ![t] = "searching"]
  /\ work' = [work EXCEPT ![t] = p]

Take(t, p) ==
  /\ todo' = todo \ {p}
  /\ at' = [at EXCEPT ![t] = "searching"]
  /\ work' = [work EXCEPT ![t] = p]

Idle(t) == at[t] = "idle"

(* The single partition is searched without looking at kill first. *)
TakeOnly ==
  /\ main = "single" /\ Idle(Main)
  /\ \E p \in todo : Take(Main, p)
  /\ UNCHANGED <<history, main, decided, flags, ok, timing, result>>

(* Few entries: one partition after the other, smallest first. *)
TakeSmallest ==
  /\ main = "sequential" /\ Idle(Main)
  /\ \E p \in todo : (\A q \in todo : size[p] <= size[q]) /\ Take(Main, p)
  /\ LoadKill(Main, FALSE)
  /\ UNCHANGED <<history, main, decided, kill, definitive, found, panicked, ok,
                 timing, result>>

GiveUp ==
  /\ main = "sequential" /\ Idle(Main)
  /\ todo # {}
  /\ LoadKill(Main, TRUE)
  /\ ComeBack(FALSE)
  /\ UNCHANGED <<history, searches, kill, definitive, found, panicked, timing, result>>

AllSearched ==
  /\ main \in {"single", "sequential"} /\ Idle(Main)
  /\ todo = {}
  /\ ComeBack(TRUE)
  /\ UNCHANGED <<history, searches, flags, timing, result>>

(* Many entries: an idle worker enters the closure on some partition. *)
TakeTask(w) ==
  /\ main = "parallel" /\ Idle(w)
  /\ \E p \in todo : Take(w, p)
  /\ LoadKill(w, FALSE)
  /\ UNCHANGED <<history, main, decided, kill, definitive, found, panicked, ok,
                 timing, result>>

Drop == \E p \in todo : todo' = todo \ {p}

(* The closure reads kill set and answers false without a search. *)
AbortTask(w) ==
  /\ main = "parallel" /\ Idle(w)
  /\ Drop
  /\ LoadKill(w, TRUE)
  /\ UNCHANGED <<history, main, at, work, decided, kill, definitive, found, panicked,
                 ok, timing, result>>

(* `any` need not enter the closure once one has answered true, and the    *)
(* panic of one closure drops the partitions that were to follow it.       *)
SkipTask ==
  /\ main = "parallel"
  /\ found \/ panicked
  /\ Drop
  /\ UNCHANGED <<history, main, at, work, decided, flags, ok, timing, result>>

JoinEarly ==                                              \* mutant
  /\ main = "parallel"
  /\ todo = {}
  /\ ComeBack(~found)
  /\ UNCHANGED <<history, searches, flags, timing, result>>

JoinWithoutPanic ==                                       \* mutant
  /\ main = "parallel"
  /\ todo = {} /\ \A w \in Workers : Idle(w)
  /\ ComeBack(~found)
  /\ UNCHANGED <<history, searches, flags, timing, result>>

(* A panic goes on in the calling thread when every worker is done, past   *)
(* the cancellation of the timer.                                          *)
Join ==
  /\ main = "parallel"
  /\ todo = {} /\ \A w \in Workers : Idle(w)
  /\ IF panicked THEN main' = "panicked" /\ UNCHANGED ok ELSE ComeBack(~found)
  /\ UNCHANGED <<history, searches, flags, timing, result>>
-----------------------------------------------------------------------------
Leave(t) ==
  /\ at' = [at EXCEPT ![t] = "idle"]
  /\ work' = [work EXCEPT ![t] = NoPartition]

(* check_single(work[t]) ends by itself.  An empty one does not read kill. *)
SearchEnds(t) ==
  /\ at[t] = "searching"
  /\ IF size[work[t]] = 0 THEN UNCHANGED seen ELSE LoadKill(t, FALSE)
  /\ decided' = decided \cup {work[t]}
  /\ IF work[t] \in good THEN Leave(t)
     ELSE at' = [at EXCEPT ![t] = "refused"] /\ UNCHANGED work
  /\ UNCHANGED <<history, main, todo, kill, definitive, found, panicked, ok, timing,
                 result>>

SearchIgnoringKill(t) ==                                  \* mutant
  /\ at[t] = "searching"
  /\ size[work[t]] > 0
  /\ LoadKill(t, TRUE)
  /\ UNCHANGED <<history, main, todo, at, work, decided, kill, definitive, found, panicked,
                 ok, timing, result>>

(* It is stopped by the kill flag, and returns false. *)
SearchKilled(t) ==
  /\ at[t] = "searching"
  /\ size[work[t]] > 0
  /\ LoadKill(t, TRUE)
  /\ at' = [at EXCEPT ![t] = "refused"]
  /\ UNCHANGED <<history, main, todo, work, decided, kill, definitive, found, panicked,
                 ok, timing, result>>

(* Model::step panics under it.  The calling thread unwinds at once; rayon *)
(* keeps a worker's panic for the join, and nobody raises kill.            *)
SearchPanics(t) ==
  /\ at[t] = "searching"
  /\ work[t] \in Panics /\ size[work[t]] > 0
  /\ LoadKill(t, FALSE)
  /\ panicked' = TRUE
  /\ main' = IF t = Main THEN "panicked" ELSE main
  /\ Leave(t)
  /\ UNCHANGED <<history, todo, decided, kill, definitive, found, ok, timing, result>>

JudgeUnchecked(t) ==                                      \* mutant
  /\ at[t] = "refused"
  /\ definitive' = TRUE
  /\ at' = [at EXCEPT ![t] = "judged"]
  /\ UNCHANGED <<history, main, todo, work, decided, kill, seen, found, panicked, ok,
                 timing, result>>

(* A refusal is definitive if kill still reads clear. *)
Judge(t) ==
  /\ at[t] = "refused"
  /\ \E v \in BOOLEAN : LoadKill(t, v) /\ definitive' = (definitive \/ ~v)
  /\ at' = [at EXCEPT ![t] = "judged"]
  /\ UNCHANGED <<history, main, todo, work, decided, kill, found, panicked, ok, timing,
                 result>>

RaiseKillUnreported(t) ==                                 \* mutant
  /\ at[t] = "judged"
  /\ kill' = TRUE
  /\ seen' = seen \cup {t}
  /\ Leave(t)
  /\ IF t = Main THEN ComeBack(FALSE) ELSE UNCHANGED <<main, ok>>
  /\ UNCHANGED <<history, todo, decided, definitive, found, panicked, timing, result>>

RaiseKill(t) ==
  /\ at[t] = "judged"
  /\ kill' = TRUE
  /\ seen' = seen \cup {t}
  /\ Leave(t)
  /\ IF t = Main THEN ComeBack(FALSE) /\ UNCHANGED found
     ELSE found' = TRUE /\ UNCHANGED <<main, ok>>
  /\ UNCHANGED <<history, todo, decided, definitive, panicked, timing, result>>
-----------------------------------------------------------------------------
(* The timer thread holds the mutex from its return from wait_timeout to   *)
(* its end, so that is where nobody else can lock it.                      *)
Locked == timer \in {"firing", "timed_out_stored", "kill_stored"}

TimerWaits ==
  /\ timer = "started"
  /\ timer' = "waiting"
  /\ UNCHANGED <<history, main, searches, flags, ok, elapsed, cancelled, notified,
                 timed_out, result>>

DurationPasses ==
  /\ timer = "waiting" /\ ~elapsed
  /\ elapsed' = TRUE
  /\ UNCHANGED <<history, main, searches, flags, ok, timer, cancelled, notified,
                 timed_out, result>>

TimerWakesUnchecked ==                                    \* mutant
  /\ timer = "waiting"
  /\ elapsed \/ notified \/ Spurious
  /\ timer' = "firing"
  /\ UNCHANGED <<history, main, searches, flags, ok, elapsed, cancelled, notified,
                 timed_out, result>>

(* wait_timeout returns, with the mutex locked again. *)
TimerWakes ==
  /\ timer = "waiting"
  /\ elapsed \/ notified \/ Spurious
  /\ timer' = IF cancelled THEN "ended" ELSE "firing"
  /\ UNCHANGED <<history, main, searches, flags, ok, elapsed, cancelled, notified,
                 timed_out, result>>

StoreTimedOut ==
  /\ timer \in {"firing", "kill_stored"}
  /\ timed_out' = TRUE
  /\ timer' = IF timer = "firing" THEN "timed_out_stored" ELSE "ended"
  /\ UNCHANGED <<history, main, searches, flags, ok, elapsed, cancelled, notified,
                 result>>

StoreKillForgotten ==                                     \* mutant
  /\ timer \in {"firing", "timed_out_stored"}
  /\ timer' = IF timer = "firing" THEN "kill_stored" ELSE "ended"
  /\ UNCHANGED <<history, main, searches, flags, ok, elapsed, cancelled, notified,
                 timed_out, result>>

StoreKill ==
  /\ timer \in {"firing", "timed_out_stored"}
  /\ kill' = TRUE
  /\ timer' = IF timer = "firing" THEN "kill_stored" ELSE "ended"
  /\ UNCHANGED <<history, main, searches, seen, definitive, found, panicked, ok,
                 elapsed, cancelled, notified, timed_out, result>>
-----------------------------------------------------------------------------
NothingToCancel ==
  /\ main = "cancel"
  /\ timer = "none"
  /\ main' = "report"
  /\ UNCHANGED <<history, searches, flags, ok, timing, result>>

CancelUnlocked ==                                         \* mutant
  /\ main = "cancel"
  /\ timer # "none"
  /\ cancelled' = TRUE
  /\ main' = "notify"
  /\ UNCHANGED <<history, searches, flags, ok, timer, elapsed, notified, timed_out,
                 result>>

Cancel ==
  /\ main = "cancel"
  /\ timer # "none" /\ ~Locked
  /\ cancelled' = TRUE
  /\ main' = "notify"
  /\ UNCHANGED <<history, searches, flags, ok, timer, elapsed, notified, timed_out,
                 result>>

(* notify_one wakes the timer thread if it is waiting, and is lost if not. *)
Notify ==
  /\ main = "notify"
  /\ notified' = (timer = "waiting")
  /\ main' = "report"
  /\ UNCHANGED <<history, searches, flags, ok, timer, elapsed, cancelled, timed_out,
                 result>>

to_check_result ==
  IF ~ok /\ definitive THEN "Illegal"
  ELSE IF timed_out THEN "Unknown"
  ELSE IF ok THEN "Ok"
  ELSE "Illegal"

Report ==
  /\ main = "report"
  /\ result' = to_check_result
  /\ main' = "done"
  /\ UNCHANGED <<history, searches, flags, ok, timing>>

Over == main \in {"done", "panicked"}

(* The check has returned and the timer thread, if any, has ended. *)
Finished ==
  /\ Over /\ timer \in {"none", "ended"}
  /\ UNCHANGED vars
-----------------------------------------------------------------------------
Dispatch == NoPartitions \/ OnePartition \/ FewEntries \/ ManyEntries

MainStep ==
  \/ Dispatch
  \/ TakeOnly
  \/ TakeSmallest
  \/ GiveUp
  \/ AllSearched
  \/ Join
  \/ NothingToCancel
  \/ Cancel
  \/ Notify
  \/ Report

TaskStep(w) == TakeTask(w) \/ AbortTask(w)

SearchStep(t) ==
  \/ SearchEnds(t)
  \/ SearchKilled(t)
  \/ SearchPanics(t)
  \/ Judge(t)
  \/ RaiseKill(t)

TimerStep == TimerWaits \/ DurationPasses \/ TimerWakes \/ StoreTimedOut \/ StoreKill

Next ==
  \/ MainStep
  \/ \E w \in Workers : TaskStep(w)
  \/ SkipTask
  \/ \E t \in Threads : SearchStep(t)
  \/ TimerStep
  \/ Finished

Spec == Init /\ [][Next]_vars

(* Threads are scheduled, a store becomes visible in finite time, and the  *)
(* clock advances; but nothing is promised of an endless search except     *)
(* that it keeps reading kill.                                             *)
Fairness ==
  /\ WF_vars(MainStep)
  /\ \A w \in Workers : WF_vars(TaskStep(w))
  /\ \A t \in Threads :
       /\ WF_vars(SearchEnds(t) /\ work[t] \notin Endless)
       /\ WF_vars(SearchKilled(t))
       /\ WF_vars(Judge(t))
       /\ WF_vars(RaiseKill(t))
  /\ WF_vars(TimerStep)

FairSpec == Spec /\ Fairness
-----------------------------------------------------------------------------
TypeOK ==
  /\ size \in UNION { [P -> Sizes] : P \in SUBSET Partitions }
  /\ good \in SUBSET Parts
  /\ timeout \in BOOLEAN
  /\ main \in {"start", "single", "sequential", "parallel", "cancel", "notify",
               "report", "done", "panicked"}
  /\ todo \in SUBSET Parts
  /\ at \in [Threads -> {"idle", "searching", "refused", "judged"}]
  /\ work \in [Threads -> Parts \cup {NoPartition}]
  /\ \A t \in Threads : Idle(t) <=> work[t] = NoPartition
  /\ \A t \in Threads : work[t] \notin todo
  /\ \A t, u \in Threads : work[t] = work[u] => t = u \/ Idle(t)
  /\ decided \in SUBSET Parts
  /\ kill \in BOOLEAN /\ definitive \in BOOLEAN /\ found \in BOOLEAN /\ panicked \in BOOLEAN
  /\ seen \in SUBSET Threads
  /\ ok \in BOOLEAN
  /\ timer \in {"none", "started", "waiting", "firing", "timed_out_stored",
                "kill_stored", "ended"}
  /\ elapsed \in BOOLEAN /\ cancelled \in BOOLEAN /\ notified \in BOOLEAN
  /\ timed_out \in BOOLEAN
  /\ result \in {"unset", "Ok", "Illegal", "Unknown"}

(* The flags of three kinds of threads add up to the promise of module     *)
(* Verdict: a killed search, a closure that was skipped, a panic or a late *)
(* timer is never taken for a verdict, whatever the other threads were     *)
(* doing when it fell, and without a time-out the truth is answered.       *)
Promise == INSTANCE Verdict WITH linearizable <- Bad = {}

ImplementsVerdict == Promise!Spec

(* Once the timer is cancelled, timed_out has its final value: it does not *)
(* change under to_check_result, and the kill flag of a check that is over *)
(* is no longer written.                                                   *)
CancelIsFinal ==
  [][cancelled => timed_out' = timed_out /\ kill' = kill]_vars

(* When check_parallel comes back, or a panic leaves it, no search is      *)
(* running any more; and if it comes back with true and kill was never     *)
(* raised, all have been searched to the end.                              *)
NothingLeftRunning ==
  main \in {"cancel", "notify", "report", "done", "panicked"}
    => /\ \A t \in Threads : Idle(t)
       /\ ok /\ ~kill => Parts \subseteq decided

(* With a timeout the check returns, though some searches never end.       *)
TimeoutBounds == timeout => <>Over

(* A raised kill flag, be it the timer's or a sibling's, ends the check,   *)
(* though some searches never end.                                         *)
KillEnds == kill ~> Over

(* A panic reaches the caller as a panic, never as a result, although it   *)
(* raises no flag and rayon first waits for the searches of the siblings,  *)
(* which only the timer may be able to stop.                               *)
PanicSurfaces == panicked /\ timeout ~> main = "panicked"

(* spawn_timer: the timer thread "sets kill (and timed_out) after          *)
(* duration".                                                              *)
TimesOutAfterDuration == timed_out => elapsed

(* cancel: "Wake the timer thread immediately so it exits without sleeping *)
(* the full duration".  A timer thread that sleeps when cancel has         *)
(* returned has a wake-up coming.                                          *)
CancelWakesTimer ==
  main \in {"report", "done"} /\ timer = "waiting" => notified
=============================================================================
