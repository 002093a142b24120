--------------------------- MODULE Checker_proof ---------------------------
(***************************************************************************)
(* Proofs about Checker, for any number of partitions, of any sizes, and   *)
(* of workers, and for models that may panic anywhere.                     *)
(***************************************************************************)
EXTENDS Checker, TLAPS

(* main before check_parallel has come back, and after. *)
Before == {"start", "single", "sequential", "parallel"}
After  == {"cancel", "notify", "report", "done"}

(* The timer has struck: it has raised kill, and timed_out is up or next. *)
Struck == timer = "kill_stored" \/ timed_out

Held(p) == \E t \in Threads : work[t] = p

(* The timer thread against the calling thread. *)
TimerInv ==
  /\ timeout <=> timer # "none"
  /\ timed_out => timer \in {"timed_out_stored", "ended"}
  /\ timer = "timed_out_stored" => timed_out
  /\ cancelled => ~Locked /\ main \in {"notify", "report", "done"}
  /\ timeout /\ main \in {"notify", "report", "done"} => cancelled
  /\ result = "unset" <=> main # "done"

(* Which thread may be in a search, and what was raised, when. *)
ThreadInv ==
  /\ main # "parallel" => \A w \in Workers : Idle(w)
  /\ main \notin {"single", "sequential"} => Idle(Main)
  /\ main \notin {"parallel", "panicked"} => ~panicked
  /\ main \in Before \ {"parallel"} => ~found
  /\ found => kill
  /\ seen # {} => kill
  /\ ok => main \in After

(* Every flag that is up was raised for a reason. *)
CauseInv ==
  /\ kill => Struck \/ Bad # {}
  /\ kill /\ main \in Before => Struck \/ found
  /\ definitive => Bad # {}
  /\ \A t \in Threads :
       /\ at[t] \in {"refused", "judged"} => work[t] \in Bad \/ kill
       /\ at[t] = "refused" => work[t] \in Bad \/ t \in seen

(* No partition is lost on the way. *)
CoverInv ==
  main \in Before =>
    /\ \A p \in Bad : p \in todo \/ Held(p) \/ Struck \/ found \/ panicked
    /\ \A p \in Parts :
         p \in todo \/ Held(p) \/ p \in decided \/ kill \/ panicked

(* What check_parallel returns. *)
ReturnInv ==
  main \in After =>
    IF ok THEN /\ Bad = {} \/ Struck
               /\ Parts \subseteq decided \/ kill
          ELSE Bad # {} \/ Struck

IInv == TypeOK /\ TimerInv /\ ThreadInv /\ CauseInv /\ CoverInv /\ ReturnInv
-----------------------------------------------------------------------------
(* What the check was called with, no step changes.                        *)
LEMMA HistoryKept ==
  ASSUME [Next]_vars
  PROVE  UNCHANGED <<size, good, timeout>> /\ Parts' = Parts /\ Bad' = Bad
<1>1. UNCHANGED history
  BY DEF Next, MainStep, Dispatch, TaskStep, SearchStep, TimerStep, Finished,
         vars, NoPartitions, OnePartition, FewEntries, ManyEntries, Choose,
         TakeOnly, TakeSmallest, GiveUp, AllSearched, Join, NothingToCancel,
         Cancel, Notify, Report, TakeTask, AbortTask, SkipTask, SearchEnds,
         SearchKilled, SearchPanics, Judge, RaiseKill, TimerWaits,
         DurationPasses, TimerWakes, StoreTimedOut, StoreKill
<1>. QED BY <1>1 DEF history, Parts, Bad

(* Only partitions of this history are refused.                            *)
LEMMA BadAreParts == Bad \subseteq Parts
BY DEF Bad

(* A partition that is taken goes from todo into a hand.                   *)
LEMMA TakeKeeps ==
  ASSUME TypeOK, NEW t \in Threads, Idle(t), NEW q \in todo, Take(t, q)
  PROVE  \A p \in Parts : p \in todo \/ Held(p) => p \in todo' \/ Held(p)'
<1>. SUFFICES ASSUME NEW p \in Parts, p \in todo \/ Held(p)
              PROVE  p \in todo' \/ Held(p)'
  OBVIOUS
<1>1. NoPartition \notin Parts
  BY CheckerAssumption DEF TypeOK, Parts
<1>2. CASE p = q
  <2>1. work'[t] = p
    BY <1>2 DEF TypeOK, Take
  <2>. QED BY <2>1 DEF Held
<1>3. CASE p \in todo /\ p # q
  BY <1>3 DEF Take
<1>4. CASE Held(p)
  <2>1. PICK u \in Threads : work[u] = p
    BY <1>4 DEF Held
  <2>2. u # t
    BY <2>1, <1>1 DEF TypeOK
  <2>3. work'[u] = p
    BY <2>1, <2>2 DEF TypeOK, Take
  <2>. QED BY <2>3 DEF Held
<1>. QED BY <1>2, <1>3, <1>4

(* A thread that leaves its partition lets go of no other.                 *)
LEMMA LeaveKeeps ==
  ASSUME TypeOK, NEW t \in Threads, Leave(t)
  PROVE  \A p \in Parts : Held(p) => Held(p)' \/ p = work[t]
<1>. SUFFICES ASSUME NEW p \in Parts, Held(p), p # work[t] PROVE Held(p)'
  OBVIOUS
<1>1. PICK u \in Threads : work[u] = p
  BY DEF Held
<1>2. work'[u] = p
  BY <1>1 DEF TypeOK, Leave
<1>. QED BY <1>2 DEF Held

(* When all threads are idle, no partition is in hand.                     *)
LEMMA NothingHeld ==
  ASSUME TypeOK, \A t \in Threads : Idle(t)
  PROVE  \A p \in Parts : ~Held(p)
BY CheckerAssumption DEF TypeOK, Held, Parts

(* The variables keep their types, and no partition is in two hands.       *)
LEMMA TypeOKKept ==
  ASSUME IInv, [Next]_vars
  PROVE  TypeOK'
<1>. USE DEF IInv, TypeOK, Idle, Threads
<1>1. UNCHANGED <<size, good, timeout>> /\ Parts' = Parts /\ Bad' = Bad
  BY HistoryKept
<1>2. Main \notin Workers /\ NoPartition \notin Parts
  BY CheckerAssumption DEF Parts
<1>3. CASE NoPartitions
  BY <1>1, <1>2, <1>3 DEF NoPartitions, ComeBack, history, searches, flags,
         timing
<1>4. CASE OnePartition
  BY <1>1, <1>2, <1>4 DEF OnePartition, Choose, history, searches, flags,
         timing
<1>5. CASE FewEntries
  BY <1>1, <1>2, <1>5 DEF FewEntries, Choose, history, searches, flags, timing
<1>6. CASE ManyEntries
  BY <1>1, <1>2, <1>6 DEF ManyEntries, Choose, history, searches, flags, timing
<1>7. CASE TakeOnly
  BY <1>1, <1>2, <1>7 DEF TakeOnly, Take, history, flags, timing
<1>8. CASE TakeSmallest
  BY <1>1, <1>2, <1>8 DEF TakeSmallest, LoadKill, Take, history, timing
<1>9. CASE GiveUp
  <2>1. main' = "cancel" /\ ok' \in BOOLEAN
    BY <1>9 DEF GiveUp, ComeBack
  <2>2. seen' \in SUBSET Threads
    BY <1>9 DEF GiveUp, LoadKill
  <2>3. UNCHANGED <<todo, at, work, decided, kill, definitive, found, panicked,
                    timer, elapsed, cancelled, notified, timed_out, result>>
    BY <1>9 DEF GiveUp, searches, timing
  <2>. QED BY <1>1, <2>1, <2>2, <2>3
<1>10. CASE AllSearched
  BY <1>1, <1>2, <1>10 DEF AllSearched, ComeBack, history, searches, flags,
         timing
<1>11. CASE Join
  <2>1. main' \in {"cancel", "panicked"} /\ ok' \in BOOLEAN
    BY <1>11 DEF Join, ComeBack
  <2>. QED BY <1>1, <1>11, <2>1 DEF Join, searches, flags, timing
<1>12. CASE NothingToCancel
  BY <1>1, <1>2, <1>12 DEF NothingToCancel, history, searches, flags, timing
<1>13. CASE Cancel
  BY <1>1, <1>2, <1>13 DEF Cancel, history, searches, flags
<1>14. CASE Notify
  BY <1>1, <1>2, <1>14 DEF Notify, history, searches, flags
<1>15. CASE Report
  BY <1>1, <1>2, <1>15 DEF Report, to_check_result, history, searches, flags,
         timing
<1>16. ASSUME NEW w \in Workers, TakeTask(w) PROVE TypeOK'
  BY <1>1, <1>2, <1>16 DEF TakeTask, LoadKill, Take, history, timing
<1>17. ASSUME NEW w \in Workers, AbortTask(w) PROVE TypeOK'
  BY <1>1, <1>2, <1>17 DEF AbortTask, LoadKill, Drop, history, timing
<1>18. CASE SkipTask
  BY <1>1, <1>2, <1>18 DEF SkipTask, Drop, history, flags, timing
<1>19. ASSUME NEW t \in Threads, SearchEnds(t) PROVE TypeOK'
  BY <1>1, <1>2, <1>19 DEF SearchEnds, LoadKill, Leave, history, timing
<1>20. ASSUME NEW t \in Threads, SearchKilled(t) PROVE TypeOK'
  BY <1>1, <1>2, <1>20 DEF SearchKilled, LoadKill, history, timing
<1>21. ASSUME NEW t \in Threads, SearchPanics(t) PROVE TypeOK'
  BY <1>1, <1>2, <1>21 DEF SearchPanics, LoadKill, Leave, history, timing
<1>22. ASSUME NEW t \in Threads, Judge(t) PROVE TypeOK'
  BY <1>1, <1>2, <1>22 DEF Judge, LoadKill, history, timing
<1>23. ASSUME NEW t \in Threads, RaiseKill(t) PROVE TypeOK'
  <2>1. main' \in {main, "cancel"} /\ ok' \in BOOLEAN /\ found' \in BOOLEAN
    BY <1>23 DEF RaiseKill, ComeBack
  <2>2. kill' = TRUE /\ seen' \in SUBSET Threads
    BY <1>23 DEF RaiseKill
  <2>. QED
    BY <1>1, <1>2, <1>23, <2>1, <2>2 DEF RaiseKill, Leave, timing
<1>24. CASE TimerWaits
  BY <1>1, <1>2, <1>24 DEF TimerWaits, history, searches, flags
<1>25. CASE DurationPasses
  BY <1>1, <1>2, <1>25 DEF DurationPasses, history, searches, flags
<1>26. CASE TimerWakes
  BY <1>1, <1>2, <1>26 DEF TimerWakes, history, searches, flags
<1>27. CASE StoreTimedOut
  BY <1>1, <1>2, <1>27 DEF StoreTimedOut, history, searches, flags
<1>28. CASE StoreKill
  BY <1>1, <1>2, <1>28 DEF StoreKill, history, searches
<1>29. CASE UNCHANGED <<main, todo, at, work, decided, kill, seen, definitive,
       found, panicked, ok, timer, elapsed, cancelled, notified, timed_out,
       result>>
  BY <1>1, <1>29
<1>. QED BY <1>3, <1>4, <1>5, <1>6, <1>7, <1>8, <1>9, <1>10, <1>11, <1>12,
            <1>13, <1>14, <1>15, <1>16, <1>17, <1>18, <1>19, <1>20, <1>21,
            <1>22, <1>23, <1>24, <1>25, <1>26, <1>27, <1>28, <1>29
        DEF Next, MainStep, Dispatch, TaskStep, SearchStep, TimerStep,
            Finished, vars, history, searches, flags, timing

(* The timer is cancelled under its mutex and stores its flags under it.   *)
LEMMA TimerInvKept ==
  ASSUME IInv, [Next]_vars
  PROVE  TimerInv'
<1>. USE DEF IInv, TypeOK, TimerInv, ThreadInv, Idle, Locked
<1>1. UNCHANGED <<size, good, timeout>> /\ Parts' = Parts /\ Bad' = Bad
  BY HistoryKept
<1>2. Main \notin Workers /\ NoPartition \notin Parts
  BY CheckerAssumption DEF Parts
<1>3. CASE NoPartitions
  BY <1>1, <1>2, <1>3 DEF NoPartitions, ComeBack, timing
<1>4. CASE OnePartition
  BY <1>1, <1>2, <1>4 DEF OnePartition, Choose, timing
<1>5. CASE FewEntries
  BY <1>1, <1>2, <1>5 DEF FewEntries, Choose, timing
<1>6. CASE ManyEntries
  BY <1>1, <1>2, <1>6 DEF ManyEntries, Choose, timing
<1>7. CASE GiveUp
  BY <1>1, <1>2, <1>7 DEF GiveUp, LoadKill, ComeBack, timing
<1>8. CASE AllSearched
  BY <1>1, <1>2, <1>8 DEF AllSearched, ComeBack, timing
<1>9. CASE Join
  BY <1>1, <1>2, <1>9 DEF Join, ComeBack, timing
<1>10. CASE NothingToCancel
  BY <1>1, <1>2, <1>10 DEF NothingToCancel, timing
<1>11. CASE Cancel
  BY <1>1, <1>2, <1>11 DEF Cancel
<1>12. CASE Notify
  BY <1>1, <1>2, <1>12 DEF Notify
<1>13. CASE Report
  BY <1>1, <1>2, <1>13 DEF Report, to_check_result, timing
<1>14. ASSUME NEW t \in Threads, SearchPanics(t) PROVE TimerInv'
  BY <1>1, <1>2, <1>14 DEF SearchPanics, LoadKill, Leave, timing
<1>15. ASSUME NEW t \in Threads, RaiseKill(t) PROVE TimerInv'
  BY <1>1, <1>2, <1>15 DEF RaiseKill, ComeBack, Leave, timing
<1>16. CASE TimerWaits
  BY <1>1, <1>2, <1>16 DEF TimerWaits
<1>17. CASE TimerWakes
  BY <1>1, <1>2, <1>17 DEF TimerWakes
<1>18. CASE StoreTimedOut
  BY <1>1, <1>2, <1>18 DEF StoreTimedOut
<1>19. CASE StoreKill
  BY <1>1, <1>2, <1>19 DEF StoreKill
<1>20. CASE UNCHANGED <<timer, timed_out, cancelled, main, result>>
  BY <1>1, <1>20
<1>. QED BY <1>3, <1>4, <1>5, <1>6, <1>7, <1>8, <1>9, <1>10, <1>11, <1>12,
            <1>13, <1>14, <1>15, <1>16, <1>17, <1>18, <1>19, <1>20
        DEF Next, MainStep, Dispatch, TaskStep, SearchStep, TimerStep,
            Finished, vars, TakeOnly, timing, TakeSmallest, TakeTask,
            AbortTask, SkipTask, SearchEnds, SearchKilled, Judge,
            DurationPasses

(* No thread searches outside its phase of check_parallel.                 *)
LEMMA ThreadInvKept ==
  ASSUME IInv, [Next]_vars
  PROVE  ThreadInv'
<1>. USE DEF IInv, TypeOK, ThreadInv, Before, After, Idle, Threads
<1>1. UNCHANGED <<size, good, timeout>> /\ Parts' = Parts /\ Bad' = Bad
  BY HistoryKept
<1>2. Main \notin Workers /\ NoPartition \notin Parts
  BY CheckerAssumption DEF Parts
<1>3. CASE NoPartitions
  BY <1>1, <1>2, <1>3 DEF NoPartitions, ComeBack, searches, flags
<1>4. CASE OnePartition
  BY <1>1, <1>2, <1>4 DEF OnePartition, Choose, searches, flags
<1>5. CASE FewEntries
  BY <1>1, <1>2, <1>5 DEF FewEntries, Choose, searches, flags
<1>6. CASE ManyEntries
  BY <1>1, <1>2, <1>6 DEF ManyEntries, Choose, searches, flags
<1>7. CASE TakeOnly
  BY <1>1, <1>2, <1>7 DEF TakeOnly, Take, flags
<1>8. CASE TakeSmallest
  BY <1>1, <1>2, <1>8 DEF TakeSmallest, LoadKill, Take
<1>9. CASE GiveUp
  BY <1>1, <1>2, <1>9 DEF GiveUp, LoadKill, ComeBack, searches
<1>10. CASE AllSearched
  BY <1>1, <1>2, <1>10 DEF AllSearched, ComeBack, searches, flags
<1>11. CASE Join
  BY <1>1, <1>2, <1>11 DEF Join, ComeBack, searches, flags
<1>12. CASE NothingToCancel
  BY <1>1, <1>2, <1>12 DEF NothingToCancel, searches, flags
<1>13. CASE Cancel
  BY <1>1, <1>2, <1>13 DEF Cancel, searches, flags
<1>14. CASE Notify
  BY <1>1, <1>2, <1>14 DEF Notify, searches, flags
<1>15. CASE Report
  BY <1>1, <1>2, <1>15 DEF Report, to_check_result, searches, flags
<1>16. ASSUME NEW w \in Workers, TakeTask(w) PROVE ThreadInv'
  BY <1>1, <1>2, <1>16 DEF TakeTask, LoadKill, Take
<1>17. ASSUME NEW w \in Workers, AbortTask(w) PROVE ThreadInv'
  BY <1>1, <1>2, <1>17 DEF AbortTask, LoadKill, Drop
<1>18. ASSUME NEW t \in Threads, SearchEnds(t) PROVE ThreadInv'
  BY <1>1, <1>2, <1>18 DEF SearchEnds, LoadKill, Leave
<1>19. ASSUME NEW t \in Threads, SearchKilled(t) PROVE ThreadInv'
  BY <1>1, <1>2, <1>19 DEF SearchKilled, LoadKill
<1>20. ASSUME NEW t \in Threads, SearchPanics(t) PROVE ThreadInv'
  BY <1>1, <1>2, <1>20 DEF SearchPanics, LoadKill, Leave
<1>21. ASSUME NEW t \in Threads, Judge(t) PROVE ThreadInv'
  BY <1>1, <1>2, <1>21 DEF Judge, LoadKill
<1>22. ASSUME NEW t \in Threads, RaiseKill(t) PROVE ThreadInv'
  BY <1>1, <1>2, <1>22 DEF RaiseKill, ComeBack, Leave
<1>23. CASE StoreKill
  BY <1>1, <1>2, <1>23 DEF StoreKill, searches
<1>24. CASE UNCHANGED <<main, at, panicked, found, kill, seen, ok>>
  BY <1>1, <1>24
<1>. QED BY <1>3, <1>4, <1>5, <1>6, <1>7, <1>8, <1>9, <1>10, <1>11, <1>12,
            <1>13, <1>14, <1>15, <1>16, <1>17, <1>18, <1>19, <1>20, <1>21,
            <1>22, <1>23, <1>24
        DEF Next, MainStep, Dispatch, TaskStep, SearchStep, TimerStep,
            Finished, vars, SkipTask, flags, TimerWaits, searches,
            DurationPasses, TimerWakes, StoreTimedOut

(* Every flag goes back to the timer or to a refutable partition.          *)
LEMMA CauseInvKept ==
  ASSUME IInv, [Next]_vars
  PROVE  CauseInv'
<1>. USE DEF IInv, TypeOK, TimerInv, ThreadInv, CauseInv, Struck, Before, Idle,
            Threads
<1>1. UNCHANGED <<size, good, timeout>> /\ Parts' = Parts /\ Bad' = Bad
  BY HistoryKept
<1>2. Main \notin Workers /\ NoPartition \notin Parts
  BY CheckerAssumption DEF Parts
<1>3. CASE NoPartitions
  BY <1>1, <1>2, <1>3 DEF NoPartitions, ComeBack, searches, flags, timing
<1>4. CASE OnePartition
  BY <1>1, <1>2, <1>4 DEF OnePartition, Choose, searches, flags, timing
<1>5. CASE FewEntries
  BY <1>1, <1>2, <1>5 DEF FewEntries, Choose, searches, flags, timing
<1>6. CASE ManyEntries
  BY <1>1, <1>2, <1>6 DEF ManyEntries, Choose, searches, flags, timing
<1>7. CASE TakeOnly
  BY <1>1, <1>2, <1>7 DEF TakeOnly, Take, flags, timing
<1>8. CASE TakeSmallest
  BY <1>1, <1>2, <1>8 DEF TakeSmallest, LoadKill, Take, timing
<1>9. CASE GiveUp
  BY <1>1, <1>2, <1>9 DEF GiveUp, LoadKill, ComeBack, searches, timing
<1>10. CASE AllSearched
  BY <1>1, <1>2, <1>10 DEF AllSearched, ComeBack, searches, flags, timing
<1>11. CASE Join
  BY <1>1, <1>2, <1>11 DEF Join, ComeBack, searches, flags, timing
<1>12. CASE NothingToCancel
  BY <1>1, <1>2, <1>12 DEF NothingToCancel, searches, flags, timing
<1>13. CASE Cancel
  BY <1>1, <1>2, <1>13 DEF Cancel, searches, flags
<1>14. CASE Notify
  BY <1>1, <1>2, <1>14 DEF Notify, searches, flags
<1>15. CASE Report
  BY <1>1, <1>2, <1>15 DEF Report, to_check_result, searches, flags, timing
<1>16. ASSUME NEW w \in Workers, TakeTask(w) PROVE CauseInv'
  BY <1>1, <1>2, <1>16 DEF TakeTask, LoadKill, Take, timing
<1>17. ASSUME NEW w \in Workers, AbortTask(w) PROVE CauseInv'
  BY <1>1, <1>2, <1>17 DEF AbortTask, LoadKill, Drop, timing
<1>18. ASSUME NEW t \in Threads, SearchEnds(t) PROVE CauseInv'
  BY <1>1, <1>2, <1>18 DEF SearchEnds, LoadKill, Leave, timing, Bad
<1>19. ASSUME NEW t \in Threads, SearchKilled(t) PROVE CauseInv'
  BY <1>1, <1>2, <1>19 DEF SearchKilled, LoadKill, timing
<1>20. ASSUME NEW t \in Threads, SearchPanics(t) PROVE CauseInv'
  BY <1>1, <1>2, <1>20 DEF SearchPanics, LoadKill, Leave, timing
<1>21. ASSUME NEW t \in Threads, Judge(t) PROVE CauseInv'
  BY <1>1, <1>2, <1>21 DEF Judge, LoadKill, timing
<1>22. ASSUME NEW t \in Threads, RaiseKill(t) PROVE CauseInv'
  BY <1>1, <1>2, <1>22 DEF RaiseKill, ComeBack, Leave, timing
<1>23. CASE TimerWaits
  BY <1>1, <1>2, <1>23 DEF TimerWaits, searches, flags
<1>24. CASE TimerWakes
  BY <1>1, <1>2, <1>24 DEF TimerWakes, searches, flags
<1>25. CASE StoreTimedOut
  BY <1>1, <1>2, <1>25 DEF StoreTimedOut, searches, flags
<1>26. CASE StoreKill
  BY <1>1, <1>2, <1>26 DEF StoreKill, searches
<1>27. CASE UNCHANGED <<kill, timer, timed_out, main, found, definitive, at,
       work, seen>>
  BY <1>1, <1>27
<1>. QED BY <1>3, <1>4, <1>5, <1>6, <1>7, <1>8, <1>9, <1>10, <1>11, <1>12,
            <1>13, <1>14, <1>15, <1>16, <1>17, <1>18, <1>19, <1>20, <1>21,
            <1>22, <1>23, <1>24, <1>25, <1>26, <1>27
        DEF Next, MainStep, Dispatch, TaskStep, SearchStep, TimerStep,
            Finished, vars, SkipTask, flags, timing, DurationPasses, searches

(* Every partition is waiting, in hand, decided, or given up for a reason. *)
LEMMA CoverInvKept ==
  ASSUME IInv, [Next]_vars
  PROVE  CoverInv'
<1>. USE DEF IInv, TypeOK, TimerInv, ThreadInv, CauseInv, CoverInv, Struck,
            Before, Held, Idle
<1>1. UNCHANGED <<size, good, timeout>> /\ Parts' = Parts /\ Bad' = Bad
  BY HistoryKept
<1>2. Main \notin Workers /\ NoPartition \notin Parts
  BY CheckerAssumption DEF Parts
<1>3. CASE NoPartitions
  BY <1>1, <1>2, <1>3 DEF NoPartitions, ComeBack, searches, flags, timing
<1>4. CASE OnePartition
  BY <1>1, <1>2, <1>4 DEF OnePartition, Choose, searches, flags, timing
<1>5. CASE FewEntries
  BY <1>1, <1>2, <1>5 DEF FewEntries, Choose, searches, flags, timing
<1>6. CASE ManyEntries
  BY <1>1, <1>2, <1>6 DEF ManyEntries, Choose, searches, flags, timing
<1>7. CASE TakeOnly
  <2>1. PICK q \in todo : Take(Main, q)
    BY <1>7 DEF TakeOnly
  <2>2. \A p \in Parts : p \in todo \/ Held(p) => p \in todo' \/ Held(p)'
    <3>1. Main \in Threads /\ Idle(Main)
      BY <1>7 DEF TakeOnly, Threads
    <3>. HIDE DEF TypeOK, Held, Idle
    <3>. QED BY <2>1, <3>1, TakeKeeps
  <2>. QED
    BY <1>1, <1>7, <2>2, BadAreParts DEF TakeOnly, flags, timing
<1>8. CASE TakeSmallest
  <2>1. PICK q \in todo : Take(Main, q)
    BY <1>8 DEF TakeSmallest
  <2>2. \A p \in Parts : p \in todo \/ Held(p) => p \in todo' \/ Held(p)'
    <3>1. Main \in Threads /\ Idle(Main)
      BY <1>8 DEF TakeSmallest, Threads
    <3>. HIDE DEF TypeOK, Held, Idle
    <3>. QED BY <2>1, <3>1, TakeKeeps
  <2>. QED
    BY <1>1, <1>8, <2>2, BadAreParts DEF TakeSmallest, LoadKill, timing
<1>9. CASE GiveUp
  BY <1>1, <1>2, <1>9 DEF GiveUp, LoadKill, ComeBack, searches, timing
<1>10. CASE AllSearched
  BY <1>1, <1>2, <1>10 DEF AllSearched, ComeBack, searches, flags, timing
<1>11. CASE Join
  BY <1>1, <1>2, <1>11 DEF Join, ComeBack, searches, flags, timing
<1>12. CASE NothingToCancel
  BY <1>1, <1>2, <1>12 DEF NothingToCancel, searches, flags, timing
<1>13. CASE Cancel
  BY <1>1, <1>2, <1>13 DEF Cancel, searches, flags
<1>14. CASE Notify
  BY <1>1, <1>2, <1>14 DEF Notify, searches, flags
<1>15. CASE Report
  BY <1>1, <1>2, <1>15 DEF Report, to_check_result, searches, flags, timing
<1>16. ASSUME NEW w \in Workers, TakeTask(w) PROVE CoverInv'
  <2>1. PICK q \in todo : Take(w, q)
    BY <1>16 DEF TakeTask
  <2>2. \A p \in Parts : p \in todo \/ Held(p) => p \in todo' \/ Held(p)'
    <3>1. w \in Threads /\ Idle(w)
      BY <1>16 DEF TakeTask, Threads
    <3>. HIDE DEF TypeOK, Held, Idle
    <3>. QED BY <2>1, <3>1, TakeKeeps
  <2>. QED
    BY <1>1, <1>16, <2>2, BadAreParts DEF TakeTask, LoadKill, timing
<1>17. ASSUME NEW w \in Workers, AbortTask(w) PROVE CoverInv'
  BY <1>1, <1>2, <1>17 DEF AbortTask, LoadKill, Drop, timing
<1>18. CASE SkipTask
  BY <1>1, <1>2, <1>18 DEF SkipTask, Drop, flags, timing
<1>19. ASSUME NEW t \in Threads, SearchEnds(t) PROVE CoverInv'
  <2>1. work[t] \in Parts /\ decided' = decided \cup {work[t]}
    BY <1>1, <1>2, <1>19 DEF SearchEnds
  <2>2. CASE work[t] \in good
    <3>1. \A p \in Parts : Held(p) => Held(p)' \/ p = work[t]
      BY <1>19, <2>2, LeaveKeeps DEF SearchEnds
    <3>. QED BY <1>1, <1>19, <2>1, <2>2, <3>1 DEF SearchEnds, timing, Bad
  <2>3. CASE work[t] \notin good
    <3>1. \A p \in Parts : Held(p) => Held(p)'
      BY <1>19, <2>3 DEF SearchEnds, Held
    <3>. QED BY <1>1, <1>19, <2>1, <3>1, BadAreParts DEF SearchEnds, timing
  <2>. QED BY <2>2, <2>3
<1>20. ASSUME NEW t \in Threads, SearchPanics(t) PROVE CoverInv'
  BY <1>1, <1>2, <1>20 DEF SearchPanics, LoadKill, Leave, timing
<1>21. ASSUME NEW t \in Threads, RaiseKill(t) PROVE CoverInv'
  BY <1>1, <1>2, <1>21 DEF RaiseKill, ComeBack, Leave, timing
<1>22. CASE TimerWaits
  BY <1>1, <1>2, <1>22 DEF TimerWaits, searches, flags
<1>23. CASE TimerWakes
  BY <1>1, <1>2, <1>23 DEF TimerWakes, searches, flags
<1>24. CASE StoreTimedOut
  BY <1>1, <1>2, <1>24 DEF StoreTimedOut, searches, flags
<1>25. CASE StoreKill
  BY <1>1, <1>2, <1>25 DEF StoreKill, searches
<1>26. CASE UNCHANGED <<main, todo, work, timer, timed_out, found, panicked,
       decided, kill>>
  BY <1>1, <1>26
<1>. QED BY <1>3, <1>4, <1>5, <1>6, <1>7, <1>8, <1>9, <1>10, <1>11, <1>12,
            <1>13, <1>14, <1>15, <1>16, <1>17, <1>18, <1>19, <1>20, <1>21,
            <1>22, <1>23, <1>24, <1>25, <1>26
        DEF Next, MainStep, Dispatch, TaskStep, SearchStep, TimerStep,
            Finished, vars, SearchKilled, timing, Judge, DurationPasses,
            searches, flags

(* What check_parallel returns is right unless the timer has struck.       *)
LEMMA ReturnInvKept ==
  ASSUME IInv, [Next]_vars
  PROVE  ReturnInv'
<1>. USE DEF IInv, TypeOK, TimerInv, ThreadInv, CauseInv, CoverInv, ReturnInv,
            Struck, Before, After, Held, Idle, Threads
<1>1. UNCHANGED <<size, good, timeout>> /\ Parts' = Parts /\ Bad' = Bad
  BY HistoryKept
<1>2. Main \notin Workers /\ NoPartition \notin Parts
  BY CheckerAssumption DEF Parts
<1>3. CASE NoPartitions
  BY <1>1, <1>3, BadAreParts DEF NoPartitions, ComeBack, timing
<1>4. CASE OnePartition
  BY <1>1, <1>2, <1>4 DEF OnePartition, Choose, searches, flags, timing
<1>5. CASE FewEntries
  BY <1>1, <1>2, <1>5 DEF FewEntries, Choose, searches, flags, timing
<1>6. CASE ManyEntries
  BY <1>1, <1>2, <1>6 DEF ManyEntries, Choose, searches, flags, timing
<1>7. CASE GiveUp
  BY <1>1, <1>2, <1>7 DEF GiveUp, LoadKill, ComeBack, searches, timing
<1>8. CASE AllSearched
  <2>1. \A p \in Parts : p \notin todo /\ ~Held(p)
    BY <1>8, NothingHeld DEF AllSearched
  <2>2. ~found /\ ~panicked /\ main' = "cancel" /\ ok' = TRUE
    BY <1>8 DEF AllSearched, ComeBack
  <2>3. Bad = {} \/ Struck
    BY <1>8, <2>1, <2>2, BadAreParts DEF AllSearched
  <2>4. Parts \subseteq decided \/ kill
    BY <1>8, <2>1, <2>2 DEF AllSearched
  <2>. QED
    BY <1>1, <1>8, <2>2, <2>3, <2>4
       DEF AllSearched, searches, flags, timing
<1>9. CASE Join
  <2>1. CASE panicked
    BY <1>9, <2>1 DEF Join
  <2>2. CASE ~panicked /\ found
    BY <1>1, <1>9, <2>2 DEF Join, ComeBack, flags, timing
  <2>3. CASE ~panicked /\ ~found
    <3>1. \A p \in Parts : p \notin todo /\ ~Held(p)
      BY <1>9, NothingHeld DEF Join
    <3>2. main' = "cancel" /\ ok' = TRUE
      BY <1>9, <2>3 DEF Join, ComeBack
    <3>3. Bad = {} \/ Struck
      BY <1>9, <2>3, <3>1, BadAreParts DEF Join
    <3>4. Parts \subseteq decided \/ kill
      BY <1>9, <2>3, <3>1 DEF Join
    <3>. QED
      BY <1>1, <1>9, <3>2, <3>3, <3>4 DEF Join, searches, flags, timing
  <2>. QED BY <2>1, <2>2, <2>3
<1>10. CASE NothingToCancel
  BY <1>1, <1>2, <1>10 DEF NothingToCancel, searches, flags, timing
<1>11. CASE Cancel
  BY <1>1, <1>2, <1>11 DEF Cancel, searches, flags
<1>12. CASE Notify
  BY <1>1, <1>2, <1>12 DEF Notify, searches, flags
<1>13. CASE Report
  BY <1>1, <1>2, <1>13 DEF Report, to_check_result, searches, flags, timing
<1>14. ASSUME NEW t \in Threads, SearchEnds(t) PROVE ReturnInv'
  BY <1>1, <1>2, <1>14 DEF SearchEnds, LoadKill, Leave, timing
<1>15. ASSUME NEW t \in Threads, SearchPanics(t) PROVE ReturnInv'
  BY <1>1, <1>2, <1>15 DEF SearchPanics, LoadKill, Leave, timing
<1>16. ASSUME NEW t \in Threads, RaiseKill(t) PROVE ReturnInv'
  BY <1>1, <1>2, <1>16 DEF RaiseKill, ComeBack, Leave, timing
<1>17. CASE TimerWaits
  BY <1>1, <1>2, <1>17 DEF TimerWaits, searches, flags
<1>18. CASE TimerWakes
  BY <1>1, <1>2, <1>18 DEF TimerWakes, searches, flags
<1>19. CASE StoreTimedOut
  BY <1>1, <1>2, <1>19 DEF StoreTimedOut, searches, flags
<1>20. CASE StoreKill
  BY <1>1, <1>2, <1>20 DEF StoreKill, searches
<1>21. CASE UNCHANGED <<main, ok, timer, timed_out, decided, kill>>
  BY <1>1, <1>21
<1>. QED BY <1>3, <1>4, <1>5, <1>6, <1>7, <1>8, <1>9, <1>10, <1>11, <1>12,
            <1>13, <1>14, <1>15, <1>16, <1>17, <1>18, <1>19, <1>20, <1>21
        DEF Next, MainStep, Dispatch, TaskStep, SearchStep, TimerStep,
            Finished, vars, TakeOnly, flags, timing, TakeSmallest, TakeTask,
            AbortTask, SkipTask, SearchKilled, Judge, DurationPasses, searches

-----------------------------------------------------------------------------
(* The invariant holds when the check starts: nothing has been raised, and *)
(* every partition is waiting.                                             *)
LEMMA Start == Init => IInv
<1>. SUFFICES ASSUME Init PROVE IInv
  OBVIOUS
<1>1. TypeOK
  BY CheckerAssumption DEF Init, TypeOK, Threads, Idle, Parts
<1>2. TimerInv /\ ThreadInv
  BY DEF Init, TimerInv, ThreadInv, Locked, Before, After, Threads, Idle
<1>3. CauseInv
  BY DEF Init, CauseInv
<1>4. CoverInv /\ ReturnInv
  BY BadAreParts DEF Init, CoverInv, ReturnInv, After
<1>. QED BY <1>1, <1>2, <1>3, <1>4 DEF IInv

(* And no step breaks it.                                                  *)
LEMMA Kept == IInv /\ [Next]_vars => IInv'
BY TypeOKKept, TimerInvKept, ThreadInvKept, CauseInvKept, CoverInvKept,
   ReturnInvKept
   DEF IInv

(* So it always holds.                                                     *)
THEOREM Inductive == Spec => []IInv
BY Start, Kept, PTL DEF Spec
-----------------------------------------------------------------------------
(* The variables of a check keep their types; in particular no two threads *)
(* ever search the same partition.                                         *)
THEOREM TypeCorrect == Spec => []TypeOK
<1>1. IInv => TypeOK
  BY DEF IInv
<1>. QED BY <1>1, Inductive, PTL

(* No search outlives check_parallel, and if it answers true and kill was  *)
(* never raised then every partition has been searched to the end.         *)
THEOREM NoneLeftRunning == Spec => []NothingLeftRunning
<1>1. IInv => NothingLeftRunning
  BY DEF IInv, TypeOK, ThreadInv, ReturnInv, After, Threads, Idle,
         NothingLeftRunning
<1>. QED BY <1>1, Inductive, PTL

(* Once the timer is cancelled neither of its flags is written any more.   *)
THEOREM CancelledForGood == Spec => CancelIsFinal
<1>1. ASSUME IInv, [Next]_vars, cancelled
      PROVE  timed_out' = timed_out /\ kill' = kill
  <2>1. ~Locked /\ \A t \in Threads : at[t] = "idle"
    BY <1>1 DEF IInv, TimerInv, ThreadInv, Threads, Idle
  <2>2. CASE UNCHANGED <<timed_out, kill>>
    BY <2>2
  <2>3. ~StoreTimedOut /\ ~StoreKill
    BY <2>1 DEF StoreTimedOut, StoreKill, Locked
  <2>4. ASSUME NEW t \in Threads PROVE ~RaiseKill(t)
    BY <2>1 DEF RaiseKill
  <2>. QED
    BY <1>1, <2>2, <2>3, <2>4
       DEF Next, MainStep, Dispatch, TaskStep, SearchStep, TimerStep, Finished,
           vars, NoPartitions, OnePartition, FewEntries, ManyEntries, Choose,
           TakeOnly, TakeSmallest, GiveUp, AllSearched, Join, NothingToCancel,
           Cancel, Notify, Report, TakeTask, AbortTask, SkipTask, SearchEnds,
           SearchKilled, SearchPanics, Judge, TimerWaits, DurationPasses,
           TimerWakes, flags, timing
<1>2. IInv /\ [Next]_vars
        => [cancelled => timed_out' = timed_out /\ kill' = kill]_vars
  BY <1>1
<1>. QED BY <1>2, Inductive, PTL DEF Spec, CancelIsFinal
-----------------------------------------------------------------------------
(* The timer leaves wait_timeout to fire only when the duration has passed *)
(* or for no reason: whoever notifies it has cancelled it before.          *)
ElapsedInv ==
  /\ Locked \/ timed_out => elapsed \/ Spurious
  /\ notified => cancelled

LEMMA ElapsedInvKept ==
  ASSUME IInv, ElapsedInv, [Next]_vars
  PROVE  ElapsedInv'
<1>. USE DEF ElapsedInv, Locked
<1>1. CASE Cancel
  BY <1>1 DEF Cancel
<1>2. CASE Notify
  <2>1. main = "notify" /\ UNCHANGED <<timer, elapsed, cancelled, timed_out>>
    BY <1>2 DEF Notify
  <2>2. notified' => cancelled'
    <3>1. ASSUME timer = "waiting" PROVE cancelled
      BY <2>1, <3>1 DEF IInv, TimerInv
    <3>2. notified' = (timer = "waiting")
      BY <1>2 DEF Notify
    <3>. QED BY <2>1, <3>1, <3>2
  <2>. QED BY <2>1, <2>2
<1>3. CASE TimerWaits
  BY <1>3 DEF TimerWaits
<1>4. CASE DurationPasses
  BY <1>4 DEF DurationPasses
<1>5. CASE TimerWakes
  BY <1>5 DEF TimerWakes
<1>6. CASE StoreTimedOut
  BY <1>6 DEF StoreTimedOut
<1>7. CASE StoreKill
  BY <1>7 DEF StoreKill
<1>8. CASE UNCHANGED timing
  BY <1>8 DEF timing
<1>. QED
  BY <1>1, <1>2, <1>3, <1>4, <1>5, <1>6, <1>7, <1>8
     DEF Next, MainStep, Dispatch, TaskStep, SearchStep, TimerStep, Finished,
         vars, NoPartitions, OnePartition, FewEntries, ManyEntries, Choose,
         TakeOnly, TakeSmallest, GiveUp, AllSearched, Join, NothingToCancel,
         Report, TakeTask, AbortTask, SkipTask, SearchEnds, SearchKilled,
         SearchPanics, Judge, RaiseKill

(* spawn_timer: where wait_timeout returns only when it has something to   *)
(* say, the flags go up after the duration and never before, whenever the  *)
(* caller cancels and notifies.                                            *)
THEOREM NeverTimesOutEarly ==
  ASSUME ~Spurious
  PROVE  Spec => []TimesOutAfterDuration
<1>1. Init => ElapsedInv
  BY DEF Init, ElapsedInv, Locked
<1>2. IInv /\ ElapsedInv /\ [Next]_vars => ElapsedInv'
  BY ElapsedInvKept
<1>3. ElapsedInv => TimesOutAfterDuration
  BY DEF ElapsedInv, TimesOutAfterDuration
<1>. QED BY <1>1, <1>2, <1>3, Inductive, PTL DEF Spec
-----------------------------------------------------------------------------
(* What is reported is the truth, or what module Verdict allows after a    *)
(* time-out.                                                               *)
LEMMA ReportIsAnswer ==
  ASSUME IInv, Report
  PROVE  Promise!Answer
<1>1. main = "report" /\ result = "unset" /\ result' = to_check_result
  BY DEF Report, IInv, TimerInv
<1>2. timed_out \in BOOLEAN /\ ok \in BOOLEAN /\ definitive \in BOOLEAN
  BY DEF IInv, TypeOK
<1>3. Struck <=> timed_out
  <2>1. timer # "kill_stored"
    BY <1>1 DEF IInv, TimerInv, Locked
  <2>. QED BY <2>1 DEF Struck
<1>4. IF ok THEN Bad = {} \/ timed_out ELSE Bad # {} \/ timed_out
  BY <1>1, <1>3 DEF IInv, ReturnInv, After
<1>5. definitive => Bad # {}
  BY DEF IInv, CauseInv
<1>6. to_check_result \in Promise!Answers
  <2>1. CASE ~timed_out /\ ok
    BY <1>4, <2>1 DEF to_check_result, Promise!Answers, Promise!Truth
  <2>2. CASE ~timed_out /\ ~ok
    BY <1>4, <2>2 DEF to_check_result, Promise!Answers, Promise!Truth
  <2>3. CASE timed_out /\ ~ok /\ definitive
    BY <1>5, <2>3 DEF to_check_result, Promise!Answers
  <2>4. CASE timed_out /\ ~(~ok /\ definitive)
    BY <2>4 DEF to_check_result, Promise!Answers
  <2>. QED BY <1>2, <2>1, <2>2, <2>3, <2>4
<1>7. UNCHANGED <<Bad, timeout, timed_out>>
  BY DEF Report, history, timing, Bad, Parts
<1>. QED BY <1>1, <1>6, <1>7 DEF Promise!Answer

(* The timer strikes once, and never after an answer.                      *)
LEMMA StoreIsTimeOut ==
  ASSUME IInv, StoreTimedOut
  PROVE  Promise!TimeOut
<1>1. timeout /\ ~timed_out
  BY DEF StoreTimedOut, IInv, TypeOK, TimerInv
<1>2. ~cancelled /\ main # "done"
  BY <1>1 DEF StoreTimedOut, IInv, TimerInv, Locked
<1>3. result = "unset"
  BY <1>2 DEF IInv, TimerInv
<1>4. timed_out' = TRUE /\ UNCHANGED <<Bad, timeout, result>>
  BY DEF StoreTimedOut, history, Bad, Parts
<1>. QED BY <1>1, <1>3, <1>4 DEF Promise!TimeOut

(* check_operations and check_events keep the promise of module Verdict,   *)
(* with any number of partitions and workers, however the flags become     *)
(* visible and whoever panics.                                             *)
THEOREM VerdictImplemented == Spec => ImplementsVerdict
<1>1. Init => Promise!Init
  BY DEF Init, Promise!Init
<1>2. ASSUME IInv, [Next]_vars
      PROVE  [Promise!Next]_(Promise!vars)
  <2>1. CASE Report
    BY <1>2, <2>1, ReportIsAnswer DEF Promise!Next
  <2>2. CASE StoreTimedOut
    BY <1>2, <2>2, StoreIsTimeOut DEF Promise!Next
  <2>3. CASE UNCHANGED <<timed_out, result>>
    BY <1>2, <2>3, HistoryKept DEF Promise!vars
  <2>. QED
    BY <1>2, <2>1, <2>2, <2>3
       DEF Next, MainStep, Dispatch, TaskStep, SearchStep, TimerStep, Finished,
           vars, NoPartitions, OnePartition, FewEntries, ManyEntries, Choose,
           TakeOnly, TakeSmallest, GiveUp, AllSearched, Join, NothingToCancel,
           Cancel, Notify, TakeTask, AbortTask, SkipTask, SearchEnds,
           SearchKilled, SearchPanics, Judge, RaiseKill, TimerWaits,
           DurationPasses, TimerWakes, StoreKill, timing
<1>. QED
  BY <1>1, <1>2, Inductive, PTL DEF Spec, ImplementsVerdict, Promise!Spec
=============================================================================
