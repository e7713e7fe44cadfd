---------------------------- MODULE SchedulerProofs ----------------------------
(***************************************************************************)
(* Proofs about Scheduler for every number of threads, tasks and timers    *)
(* and every value of the bounds.                                          *)
(***************************************************************************)
EXTENDS Scheduler, FiniteSetTheorems, TLAPS

(* What the assumptions on the constants say about the threads.            *)
LEMMA ThreadFacts ==
    /\ NSync \in Nat /\ Timer = NSync + 1 /\ Timer \in Nat
    /\ Timer \in Workers /\ Workers \subseteq Threads /\ Workers \subseteq Nat
    /\ \A w \in Workers : 1 <= w /\ w <= Timer
    /\ \A p \in 1..NSync : p \in Workers /\ p # Timer
    /\ \A p \in App : p \in Threads /\ p \notin Workers
    /\ \A p \in Threads : p # None
    /\ \A i \in Items : i # None
    /\ Tasks \subseteq Items /\ Timers \subseteq Items /\ Intervals \subseteq Timers
    /\ \A i \in Tasks : i \notin Timers
BY ConstantsAssumption DEF Timer, Workers, Threads, Items, Timers

(* A set of times that is not empty has an earliest one.                   *)
LEMMA LeastNat ==
    ASSUME NEW S \in SUBSET Nat, S # {}
    PROVE  \E k \in S : \A m \in S : k <= m
<1> DEFINE less == {ss \in Nat \X Nat : ss[1] < ss[2]}
<1>1. IsWellFoundedOn(less, Nat) BY NatLessThanWellFounded, Zenon DEF OpToRel
<1>2. \A a, b \in Nat : a < b => <<a, b>> \in less BY Zenon
<1> HIDE DEF less
<1>3. PICK k \in S : \A m \in S : ~(<<m, k>> \in less) BY <1>1, WFMin, Zenon
<1>4. \A m \in S : ~(m < k) BY <1>2, <1>3, Zenon
<1> QED BY <1>4

(* The search of get_timeout ends at a key that is not in use: among as    *)
(* many keys and one more as there are timers, one is free.                *)
LEMMA FreeKey ==
    ASSUME timeouts \subseteq Nat \X Timers, IsFiniteSet(timeouts), NEW at \in Nat
    PROVE  get_timeout(at) \in Nat /\ get_timeout(at) \notin Keys
<1> DEFINE n == Cardinality(timeouts)
           f == [e \in timeouts |-> e[1]]
           free == {k \in at..(at + n) : k \notin Keys}
<1>1. n \in Nat BY FS_CardinalityType, Zenon
<1>2. f \in Surjection(timeouts, Keys) BY Zenon DEF Surjection, Keys
<1>3. IsFiniteSet(Keys) /\ Cardinality(Keys) <= n BY <1>2, FS_Surjection, Zenon
<1>4. Cardinality(at..(at + n)) = n + 1 BY <1>1, FS_Interval
<1>5. free # {}
  <2> SUFFICES ASSUME at..(at + n) \in SUBSET Keys PROVE FALSE BY Zenon
  <2>1. Cardinality(at..(at + n)) <= Cardinality(Keys) BY <1>3, FS_Subset, Zenon
  <2> QED BY <2>1, <1>1, <1>3, <1>4, FS_CardinalityType
<1>6. free \in SUBSET Nat BY <1>1
<1>7. \E k \in free : \A m \in free : k <= m BY <1>5, <1>6, LeastNat, Zenon
<1>8. get_timeout(at) \in free BY <1>7, Zenon DEF get_timeout
<1> QED BY <1>6, <1>8, Zenon

(* The timers after set_timeout, set_interval or the re-arming of an       *)
(* interval: the new entry replaces none.                                  *)
LEMMA EmplacedTimers ==
    ASSUME timeouts \subseteq Nat \X Timers, IsFiniteSet(timeouts),
           NEW at \in Nat, NEW i \in Timers
    PROVE  /\ Emplaced(get_timeout(at), i) = timeouts \cup {<<get_timeout(at), i>>}
           /\ get_timeout(at) \in Nat
           /\ Emplaced(get_timeout(at), i) \subseteq Nat \X Timers
           /\ IsFiniteSet(Emplaced(get_timeout(at), i))
<1>1. get_timeout(at) \in Nat /\ get_timeout(at) \notin Keys BY FreeKey, Zenon
<1>2. Emplaced(get_timeout(at), i) = timeouts \cup {<<get_timeout(at), i>>}
  BY <1>1, Zenon DEF Emplaced
<1>3. IsFiniteSet(timeouts \cup {<<get_timeout(at), i>>}) BY FS_AddElement, Zenon
<1> QED BY <1>1, <1>2, <1>3

(* The private queues after one of them changed.                           *)
LEMMA LocalUpdate ==
    ASSUME NEW f \in [Workers -> Seq(Items)], NEW w \in Workers, NEW s \in Seq(Items)
    PROVE  [f EXCEPT ![w] = s] \in [Workers -> Seq(Items)]
BY Zenon

(* The initial state is one of Coherent.                                    *)
LEMMA InitCoherent == Init => Coherent
<1> SUFFICES ASSUME Init PROVE Coherent BY Zenon
<1> USE ThreadFacts
<1>1. TypeOK
  <2>0. FlagsOK BY Zenon DEF Init, FlagsOK
  <2>1. StoppingOK BY DEF Init, StoppingOK
  <2>2. ThreadsOK BY DEF Init, ThreadsOK, PCs
  <2>3. QueueOK /\ HistoryOK /\ BoundsOK BY Zenon DEF Init, QueueOK, HistoryOK, BoundsOK
  <2>4. TimersOK BY FS_EmptySet, Zenon DEF Init, TimersOK
  <2>5. CallsOK BY Zenon DEF Init, CallsOK, Calls, Idle
  <2> QED BY <2>0, <2>1, <2>2, <2>3, <2>4, <2>5, Zenon DEF TypeOK
<1>2. CallsHold BY Zenon DEF Init, CallsHold, Idle
<1>3. WorkersHold BY Zenon DEF Init, WorkersHold
<1>4. Lifecycle BY Zenon DEF Init, Lifecycle
<1> QED BY <1>1, <1>2, <1>3, <1>4, Zenon DEF Coherent, Consistent

(* The conjuncts of Coherent.                                              *)
LEMMA Parts ==
    Coherent <=> /\ FlagsOK /\ StoppingOK /\ ThreadsOK /\ QueueOK /\ TimersOK /\ CallsOK
                 /\ HistoryOK /\ BoundsOK /\ CallsHold /\ WorkersHold /\ Lifecycle
BY Zenon DEF Coherent, TypeOK, Consistent

(* The same after a step.                                                  *)
LEMMA Whole ==
    ASSUME FlagsOK', StoppingOK', ThreadsOK', QueueOK', TimersOK', CallsOK',
           HistoryOK', BoundsOK', CallsHold', WorkersHold', Lifecycle'
    PROVE  Coherent'
BY Zenon DEF Coherent, TypeOK, Consistent

(* A step keeps each conjunct of Coherent whose variables it leaves alone. *)
LEMMA Kept ==
    /\ UNCHANGED flags /\ FlagsOK => FlagsOK'
    /\ UNCHANGED stopping /\ StoppingOK => StoppingOK'
    /\ UNCHANGED <<pc, running, local>> /\ ThreadsOK => ThreadsOK'
    /\ UNCHANGED <<syncq, dummies, rearms>> /\ QueueOK => QueueOK'
    /\ UNCHANGED <<timers, deadline, clock>> /\ TimersOK => TimersOK'
    /\ UNCHANGED call /\ CallsOK => CallsOK'
    /\ UNCHANGED history /\ HistoryOK => HistoryOK'
    /\ UNCHANGED bounds /\ BoundsOK => BoundsOK'
    /\ UNCHANGED <<call, pc>> /\ CallsHold => CallsHold'
    /\ UNCHANGED <<pc, running, local>> /\ WorkersHold => WorkersHold'
    /\ UNCHANGED <<active, enqueue, terminate, stopping, call, pc>> /\ Lifecycle => Lifecycle'
<1>1. UNCHANGED flags /\ FlagsOK => FlagsOK' BY Zenon DEF flags, FlagsOK
<1>2. UNCHANGED stopping /\ StoppingOK => StoppingOK' BY Zenon DEF stopping, StoppingOK
<1>3. UNCHANGED <<pc, running, local>> /\ ThreadsOK => ThreadsOK' BY Zenon DEF ThreadsOK
<1>4. UNCHANGED <<syncq, dummies, rearms>> /\ QueueOK => QueueOK' BY Zenon DEF QueueOK
<1>5. UNCHANGED <<timers, deadline, clock>> /\ TimersOK => TimersOK' BY Zenon DEF timers, TimersOK
<1>6. UNCHANGED call /\ CallsOK => CallsOK' BY Zenon DEF CallsOK
<1>7. UNCHANGED history /\ HistoryOK => HistoryOK' BY Zenon DEF history, HistoryOK
<1>8. UNCHANGED bounds /\ BoundsOK => BoundsOK' BY Zenon DEF bounds, BoundsOK
<1>9. UNCHANGED <<call, pc>> /\ CallsHold => CallsHold' BY Zenon DEF CallsHold
<1>10. UNCHANGED <<pc, running, local>> /\ WorkersHold => WorkersHold' BY Zenon DEF WorkersHold
<1>11. UNCHANGED <<active, enqueue, terminate, stopping, call, pc>> /\ Lifecycle => Lifecycle'
  BY DEF stopping, Lifecycle
<1> QED
  BY <1>1, <1>2, <1>3, <1>4, <1>5, <1>6, <1>7, <1>8, <1>9, <1>10, <1>11

(* set_task keeps Coherent.                                                *)
LEMMA set_task_coherent ==
    ASSUME Coherent, NEW p \in Threads, NEW i \in Tasks, set_task(p, i)
    PROVE  Coherent'
<1> USE Parts
<1>1. /\ FlagsOK' /\ StoppingOK' /\ ThreadsOK' /\ QueueOK' /\ TimersOK' /\ BoundsOK'
      /\ WorkersHold'
  BY Kept, Zenon DEF set_task
<1>2. CallsOK' BY ThreadFacts, Zenon DEF CallsOK, set_task, Calls, Pushing
<1>3. HistoryOK' BY Zenon DEF HistoryOK, set_task
<1>4. CallsHold' BY ThreadFacts, Zenon DEF CallsOK, CallsHold, set_task, CanCall, Pushing, Idle
<1>5. Lifecycle'
  BY Zenon DEF CallsOK, StoppingOK, Lifecycle, set_task, CanCall, Pushing, Idle, Stopping, flags, stopping
<1> QED BY <1>1, <1>2, <1>3, <1>4, <1>5, Whole, Zenon

(* set_task_enqueue keeps Coherent.                                        *)
LEMMA set_task_enqueue_coherent ==
    ASSUME Coherent, NEW p \in Threads, NEW recyclable \in BOOLEAN, set_task_enqueue(p, recyclable)
    PROVE  Coherent'
<1> USE Parts
<1>1. FlagsOK' /\ StoppingOK' /\ TimersOK' /\ HistoryOK' /\ BoundsOK'
  BY Kept, Zenon DEF set_task_enqueue
<1>0. call[p].item \in Items BY ThreadFacts, Zenon DEF CallsHold, set_task_enqueue
<1>2. ThreadsOK'
  <2>1. p \in Workers => Append(local[p], call[p].item) \in Seq(Items)
    BY <1>0 DEF ThreadsOK
  <2>2. \/ local' = local
        \/ p \in Workers /\ local' = [local EXCEPT ![p] = Append(local[p], call[p].item)]
    BY ThreadFacts, Zenon DEF set_task_enqueue, CanBypass
  <2>3. local' \in [Workers -> Seq(Items)] BY <2>1, <2>2, LocalUpdate, Zenon DEF ThreadsOK
  <2> QED BY <2>3, Zenon DEF ThreadsOK, set_task_enqueue
<1>3. QueueOK' BY <1>0, Zenon DEF QueueOK, set_task_enqueue
<1>4. CallsOK' BY Zenon DEF CallsOK, set_task_enqueue, Calls, Idle
<1>5. CallsHold' BY Zenon DEF CallsOK, CallsHold, set_task_enqueue, Idle
<1>6. WorkersHold'
  <2>1. CASE local' = local BY <2>1, Zenon DEF WorkersHold, set_task_enqueue
  <2>2. CASE recyclable /\ CanBypass(p)
    <3>1. p # Timer /\ p \in Workers /\ pc[p] = "run"
      BY <2>2, ThreadFacts DEF CallsHold, set_task_enqueue, CanBypass, Idle
    <3>2. \A w \in Workers : w # p => local'[w] = local[w]
      BY <2>2, Zenon DEF ThreadsOK, set_task_enqueue
    <3> QED BY <3>1, <3>2, Zenon DEF WorkersHold, set_task_enqueue
  <2> QED BY <2>1, <2>2, Zenon DEF set_task_enqueue
<1>7. Lifecycle' BY DEF CallsOK, Lifecycle, set_task_enqueue, Idle, Stopping, flags, stopping
<1> QED BY <1>1, <1>2, <1>3, <1>4, <1>5, <1>6, <1>7, Whole, Zenon

(* set_timer keeps Coherent.                                               *)
LEMMA set_timer_coherent ==
    ASSUME Coherent, NEW p \in Threads, NEW i \in Timers, set_timer(p, i)
    PROVE  Coherent'
<1> USE Parts
<1>1. /\ FlagsOK' /\ StoppingOK' /\ ThreadsOK' /\ QueueOK' /\ TimersOK' /\ BoundsOK'
      /\ WorkersHold'
  BY Kept, Zenon DEF set_timer
<1>2. CallsOK'
  <2>1. clock + Delay[i] \in Nat BY ConstantsAssumption DEF TimersOK
  <2>2. Arming(i, clock + Delay[i]) \in Calls BY <2>1, ThreadFacts, Zenon DEF Arming, Calls
  <2> QED BY <2>2, Zenon DEF CallsOK, set_timer
<1>3. HistoryOK' BY Zenon DEF HistoryOK, set_timer
<1>4. CallsHold' BY ThreadFacts, Zenon DEF CallsOK, CallsHold, set_timer, CanCall, Arming, Idle
<1>5. Lifecycle' BY Zenon DEF CallsOK, Lifecycle, set_timer, CanCall, Arming, Idle, Stopping, flags, stopping
<1> QED BY <1>1, <1>2, <1>3, <1>4, <1>5, Whole, Zenon

(* set_timer_emplace keeps Coherent.                                       *)
LEMMA set_timer_emplace_coherent ==
    ASSUME Coherent, NEW p \in Threads, set_timer_emplace(p)
    PROVE  Coherent'
<1> USE Parts
<1>1. /\ FlagsOK' /\ StoppingOK' /\ ThreadsOK' /\ QueueOK' /\ HistoryOK' /\ BoundsOK'
      /\ WorkersHold'
  BY Kept, Zenon DEF set_timer_emplace
<1>2. TimersOK'
  <2>1. call[p].at \in Nat /\ call[p].item \in Timers
    BY Zenon DEF CallsOK, CallsHold, set_timer_emplace, Calls
  <2>2. timeouts' \subseteq Nat \X Timers /\ IsFiniteSet(timeouts')
    BY <2>1, EmplacedTimers, Zenon DEF TimersOK, set_timer_emplace
  <2> QED BY <2>2, Zenon DEF TimersOK, set_timer_emplace
<1>3. CallsOK' BY Zenon DEF CallsOK, set_timer_emplace, Calls, Idle
<1>4. CallsHold' BY Zenon DEF CallsOK, CallsHold, set_timer_emplace, Idle
<1>5. Lifecycle' BY DEF CallsOK, Lifecycle, set_timer_emplace, Idle, Stopping, flags, stopping
<1> QED BY <1>1, <1>2, <1>3, <1>4, <1>5, Whole, Zenon

(* clear_timeout keeps Coherent.                                           *)
LEMMA clear_timeout_coherent ==
    ASSUME Coherent, NEW p \in Threads, NEW i \in Timers, clear_timeout(p, i)
    PROVE  Coherent'
<1> USE Parts
<1>1. /\ FlagsOK' /\ StoppingOK' /\ ThreadsOK' /\ QueueOK' /\ CallsOK' /\ BoundsOK'
      /\ CallsHold' /\ WorkersHold' /\ Lifecycle'
  BY Kept, Zenon DEF clear_timeout, flags
<1>2. TimersOK'
  <2>1. IsFiniteSet(timeouts') BY FS_Subset, Zenon DEF TimersOK, clear_timeout
  <2> QED BY <2>1, Zenon DEF TimersOK, clear_timeout
<1>3. HistoryOK' BY Zenon DEF HistoryOK, clear_timeout
<1> QED BY <1>1, <1>2, <1>3, Whole, Zenon

(* trigger_timers keeps Coherent.                                          *)
LEMMA trigger_timers_coherent ==
    ASSUME Coherent, NEW p \in Threads, trigger_timers(p)
    PROVE  Coherent'
<1> USE Parts
<1>1. /\ FlagsOK' /\ StoppingOK' /\ ThreadsOK' /\ QueueOK' /\ TimersOK' /\ HistoryOK'
      /\ WorkersHold'
  BY Kept, Zenon DEF trigger_timers
<1>2. CallsOK' BY Zenon DEF CallsOK, trigger_timers, Calls, Triggering
<1>3. BoundsOK' BY DEF BoundsOK, trigger_timers
<1>4. CallsHold'
  BY ThreadFacts, Zenon DEF CallsOK, CallsHold, trigger_timers, CanCall, Triggering, Idle
<1>5. Lifecycle'
  BY DEF CallsOK, Lifecycle, trigger_timers, CanCall, Triggering, Idle, Stopping, flags, stopping
<1> QED BY <1>1, <1>2, <1>3, <1>4, <1>5, Whole, Zenon

(* trigger_timers_next keeps Coherent.                                     *)
LEMMA trigger_timers_next_coherent ==
    ASSUME Coherent, NEW p \in Threads, trigger_timers_next(p)
    PROVE  Coherent'
<1> USE Parts
<1>1. /\ FlagsOK' /\ StoppingOK' /\ ThreadsOK' /\ CallsOK' /\ BoundsOK' /\ CallsHold'
      /\ WorkersHold' /\ Lifecycle'
  BY Kept, Zenon DEF trigger_timers_next, flags
<1>0. PICK e \in timeouts :
        /\ timeouts' = timeouts \ {e}
        /\ syncq' \subseteq syncq \cup {e[2]} /\ dropped' \subseteq dropped \cup {e[2]}
  BY Zenon DEF trigger_timers_next
<1>a. e[2] \in Timers BY Zenon DEF TimersOK
<1>2. QueueOK' BY <1>0, <1>a, ThreadFacts, Zenon DEF QueueOK, trigger_timers_next
<1>3. TimersOK'
  <2>1. IsFiniteSet(timeouts') BY <1>0, FS_Subset, Zenon DEF TimersOK
  <2> QED BY <1>0, <2>1, Zenon DEF TimersOK, trigger_timers_next
<1>4. HistoryOK' BY <1>0, <1>a, Zenon DEF HistoryOK, trigger_timers_next
<1> QED BY <1>1, <1>2, <1>3, <1>4, Whole, Zenon

(* trigger_timers_done keeps Coherent.                                     *)
LEMMA trigger_timers_done_coherent ==
    ASSUME Coherent, NEW p \in Threads, trigger_timers_done(p)
    PROVE  Coherent'
<1> USE Parts
<1>1. /\ FlagsOK' /\ StoppingOK' /\ ThreadsOK' /\ QueueOK' /\ HistoryOK' /\ BoundsOK'
      /\ WorkersHold'
  BY Kept, Zenon DEF trigger_timers_done
<1>2. TimersOK' BY Zenon DEF TimersOK, trigger_timers_done
<1>3. CallsOK' BY Zenon DEF CallsOK, trigger_timers_done, Calls, Idle
<1>4. CallsHold' BY Zenon DEF CallsOK, CallsHold, trigger_timers_done, Idle
<1>5. Lifecycle'
  BY DEF CallsOK, Lifecycle, trigger_timers_done, Triggering, Idle, Stopping, flags, stopping
<1> QED BY <1>1, <1>2, <1>3, <1>4, <1>5, Whole, Zenon

(* boot keeps Coherent.                                                    *)
LEMMA boot_coherent ==
    ASSUME Coherent, NEW w \in Workers, boot(w)
    PROVE  Coherent'
<1> USE Parts
<1>1. /\ FlagsOK' /\ StoppingOK' /\ QueueOK' /\ TimersOK' /\ CallsOK' /\ HistoryOK'
      /\ BoundsOK'
  BY Kept, Zenon DEF boot
<1>2. ThreadsOK' BY Zenon DEF ThreadsOK, boot, PCs
<1>3. CallsHold' BY Zenon DEF ThreadsOK, CallsHold, boot
<1>4. WorkersHold' BY Zenon DEF ThreadsOK, WorkersHold, boot
<1>5. Lifecycle' BY Zenon DEF ThreadsOK, Lifecycle, boot, flags, stopping
<1> QED BY <1>1, <1>2, <1>3, <1>4, <1>5, Whole, Zenon

(* sleep_thread keeps Coherent.                                            *)
LEMMA sleep_thread_coherent ==
    ASSUME Coherent, NEW w \in Workers, sleep_thread(w)
    PROVE  Coherent'
<1> USE Parts
<1>1. /\ FlagsOK' /\ StoppingOK' /\ QueueOK' /\ TimersOK' /\ CallsOK' /\ HistoryOK'
      /\ BoundsOK'
  BY Kept, Zenon DEF sleep_thread
<1>2. ThreadsOK' BY Zenon DEF ThreadsOK, sleep_thread, PCs
<1>3. CallsHold' BY Zenon DEF ThreadsOK, CallsHold, sleep_thread
<1>4. WorkersHold' BY Zenon DEF ThreadsOK, WorkersHold, sleep_thread
<1>5. Lifecycle' BY Zenon DEF ThreadsOK, Lifecycle, sleep_thread, flags, stopping
<1> QED BY <1>1, <1>2, <1>3, <1>4, <1>5, Whole, Zenon

(* dequeue keeps Coherent.                                                 *)
LEMMA dequeue_coherent ==
    ASSUME Coherent, NEW w \in Workers, dequeue(w)
    PROVE  Coherent'
<1> USE Parts
<1>1. FlagsOK' /\ StoppingOK' /\ TimersOK' /\ CallsOK' /\ HistoryOK' /\ BoundsOK'
  BY Kept, Zenon DEF dequeue
<1>2. ThreadsOK'
  <2>1. pc' \in [Workers -> PCs] BY Zenon DEF ThreadsOK, dequeue, PCs
  <2>2. running' \in [Workers -> Items \cup {None}] BY Zenon DEF ThreadsOK, QueueOK, dequeue
  <2> QED BY <2>1, <2>2, Zenon DEF ThreadsOK, dequeue
<1>3. QueueOK' BY DEF QueueOK, dequeue
<1>4. CallsHold' BY Zenon DEF ThreadsOK, CallsHold, dequeue
<1>5. WorkersHold'
  <2>1. ASSUME NEW i \in syncq, running' = [running EXCEPT ![w] = i],
               pc' = [pc EXCEPT ![w] = "run"]
        PROVE  WorkersHold'
    BY <2>1, ThreadFacts, Zenon DEF ThreadsOK, QueueOK, WorkersHold, dequeue
  <2>2. CASE UNCHANGED running /\ pc' = [pc EXCEPT ![w] = "check"]
    BY <2>2, Zenon DEF ThreadsOK, WorkersHold, dequeue
  <2> QED BY <2>1, <2>2, Zenon DEF dequeue
<1>6. Lifecycle' BY Zenon DEF ThreadsOK, Lifecycle, dequeue, flags, stopping
<1> QED BY <1>1, <1>2, <1>3, <1>4, <1>5, <1>6, Whole, Zenon

(* return_task keeps Coherent.                                             *)
LEMMA return_task_coherent ==
    ASSUME Coherent, NEW w \in Workers, return_task(w)
    PROVE  Coherent'
<1> USE Parts
<1>1. FlagsOK' /\ StoppingOK' /\ QueueOK' /\ TimersOK' /\ CallsOK' /\ BoundsOK'
  BY Kept, Zenon DEF return_task
<1>0. running[w] \in Items BY Zenon DEF ThreadsOK, WorkersHold, return_task
<1>2. ThreadsOK'
  <2>1. pc' \in [Workers -> PCs] BY Zenon DEF ThreadsOK, return_task, PCs
  <2>2. running' \in [Workers -> Items \cup {None}] BY Zenon DEF ThreadsOK, return_task
  <2> QED BY <2>1, <2>2, Zenon DEF ThreadsOK, return_task
<1>3. HistoryOK' BY <1>0, Zenon DEF HistoryOK, return_task
<1>4. CallsHold' BY Zenon DEF ThreadsOK, CallsHold, return_task
<1>5. WorkersHold' BY Zenon DEF ThreadsOK, QueueOK, WorkersHold, return_task
<1>6. Lifecycle' BY Zenon DEF ThreadsOK, Lifecycle, return_task, flags, stopping
<1> QED BY <1>1, <1>2, <1>3, <1>4, <1>5, <1>6, Whole, Zenon

(* rearm keeps Coherent.                                                   *)
LEMMA rearm_coherent ==
    ASSUME Coherent, NEW w \in Workers, rearm(w)
    PROVE  Coherent'
<1> USE Parts
<1>1. FlagsOK' /\ StoppingOK' /\ CallsOK' /\ HistoryOK' /\ BoundsOK'
  BY Kept, Zenon DEF rearm
<1>2. ThreadsOK'
  <2>1. pc' \in [Workers -> PCs] BY Zenon DEF ThreadsOK, rearm, PCs
  <2>2. running' \in [Workers -> Items \cup {None}] BY Zenon DEF ThreadsOK, rearm
  <2> QED BY <2>1, <2>2, Zenon DEF ThreadsOK, rearm
<1>3. QueueOK' BY Zenon DEF QueueOK, rearm
<1>4. TimersOK'
  <2>1. running[w] \in Timers BY ThreadFacts, Zenon DEF WorkersHold, rearm
  <2>2. clock + Delay[running[w]] \in Nat BY <2>1, ConstantsAssumption DEF TimersOK
  <2>3. timeouts' \subseteq Nat \X Timers /\ IsFiniteSet(timeouts')
    BY <2>1, <2>2, EmplacedTimers, Zenon DEF TimersOK, rearm
  <2> QED BY <2>3, Zenon DEF TimersOK, rearm
<1>5. CallsHold' BY Zenon DEF ThreadsOK, CallsHold, rearm
<1>6. WorkersHold' BY Zenon DEF ThreadsOK, WorkersHold, rearm
<1>7. Lifecycle' BY Zenon DEF ThreadsOK, Lifecycle, rearm, flags, stopping
<1> QED BY <1>1, <1>2, <1>3, <1>4, <1>5, <1>6, <1>7, Whole, Zenon

(* thread_active keeps Coherent.                                           *)
LEMMA thread_active_coherent ==
    ASSUME Coherent, NEW w \in Workers, thread_active(w)
    PROVE  Coherent'
<1> USE Parts
<1>1. /\ FlagsOK' /\ StoppingOK' /\ QueueOK' /\ TimersOK' /\ CallsOK' /\ HistoryOK'
      /\ BoundsOK'
  BY Kept, Zenon DEF thread_active
<1>2. ThreadsOK' BY Zenon DEF ThreadsOK, thread_active, PCs
<1>3. CallsHold' BY Zenon DEF ThreadsOK, CallsHold, thread_active
<1>4. WorkersHold' BY Zenon DEF ThreadsOK, WorkersHold, thread_active
<1>5. Lifecycle' BY Zenon DEF ThreadsOK, Lifecycle, thread_active, flags, stopping
<1> QED BY <1>1, <1>2, <1>3, <1>4, <1>5, Whole, Zenon

(* take_local keeps Coherent.                                              *)
LEMMA take_local_coherent ==
    ASSUME Coherent, NEW w \in Workers, take_local(w)
    PROVE  Coherent'
<1> USE Parts
<1>1. /\ FlagsOK' /\ StoppingOK' /\ QueueOK' /\ TimersOK' /\ CallsOK' /\ HistoryOK'
      /\ BoundsOK'
  BY Kept, Zenon DEF take_local
<1>2. ThreadsOK'
  <2>1. local[w] # <<>> => Head(local[w]) \in Items /\ Tail(local[w]) \in Seq(Items)
    BY DEF ThreadsOK
  <2>2. \/ local' = local
        \/ local[w] # <<>> /\ local' = [local EXCEPT ![w] = Tail(local[w])]
    BY Zenon DEF take_local
  <2>3. local' \in [Workers -> Seq(Items)] BY <2>1, <2>2, LocalUpdate, Zenon DEF ThreadsOK
  <2>4. pc' \in [Workers -> PCs] BY Zenon DEF ThreadsOK, take_local, PCs
  <2>5. running' \in [Workers -> Items \cup {None}] BY <2>1, Zenon DEF ThreadsOK, take_local
  <2> QED BY <2>3, <2>4, <2>5, Zenon DEF ThreadsOK, take_local
<1>3. CallsHold' BY Zenon DEF ThreadsOK, CallsHold, take_local
<1>4. WorkersHold'
  <2>1. CASE local[w] = <<>> BY <2>1, Zenon DEF ThreadsOK, WorkersHold, take_local
  <2>2. CASE local[w] # <<>>
    <3>1. Head(local[w]) \in Items BY <2>2 DEF ThreadsOK
    <3> QED BY <2>2, <3>1, ThreadFacts DEF ThreadsOK, WorkersHold, take_local
  <2> QED BY <2>1, <2>2, Zenon
<1>5. Lifecycle' BY Zenon DEF ThreadsOK, Lifecycle, take_local, flags, stopping
<1> QED BY <1>1, <1>2, <1>3, <1>4, <1>5, Whole, Zenon

(* flush_local keeps Coherent.                                             *)
LEMMA flush_local_coherent ==
    ASSUME Coherent, NEW w \in Workers, flush_local(w)
    PROVE  Coherent'
<1> USE Parts
<1>1. FlagsOK' /\ StoppingOK' /\ TimersOK' /\ CallsOK' /\ HistoryOK' /\ BoundsOK'
  BY Kept, Zenon DEF flush_local
<1>2. ThreadsOK'
  <2>1. local[w] # <<>> => Head(local[w]) \in Items /\ Tail(local[w]) \in Seq(Items)
    BY DEF ThreadsOK
  <2>2. \/ local' = local
        \/ local[w] # <<>> /\ local' = [local EXCEPT ![w] = Tail(local[w])]
    BY Zenon DEF flush_local
  <2>3. local' \in [Workers -> Seq(Items)] BY <2>1, <2>2, LocalUpdate, Zenon DEF ThreadsOK
  <2>4. pc' \in [Workers -> PCs] BY Zenon DEF ThreadsOK, flush_local, PCs
  <2> QED BY <2>3, <2>4, Zenon DEF ThreadsOK, flush_local
<1>3. QueueOK'
  <2>1. local[w] # <<>> => Head(local[w]) \in Items BY DEF ThreadsOK
  <2> QED BY <2>1, Zenon DEF QueueOK, flush_local
<1>4. CallsHold' BY Zenon DEF ThreadsOK, CallsHold, flush_local
<1>5. WorkersHold' BY Zenon DEF ThreadsOK, WorkersHold, flush_local
<1>6. Lifecycle' BY Zenon DEF ThreadsOK, Lifecycle, flush_local, flags, stopping
<1> QED BY <1>1, <1>2, <1>3, <1>4, <1>5, <1>6, Whole, Zenon

(* lock_timers keeps Coherent.                                             *)
LEMMA lock_timers_coherent ==
    ASSUME Coherent, NEW w \in Workers, lock_timers(w)
    PROVE  Coherent'
<1> USE Parts
<1>1. /\ FlagsOK' /\ StoppingOK' /\ QueueOK' /\ TimersOK' /\ CallsOK' /\ HistoryOK'
      /\ BoundsOK'
  BY Kept, Zenon DEF lock_timers
<1>2. ThreadsOK' BY Zenon DEF ThreadsOK, lock_timers, PCs
<1>3. CallsHold' BY Zenon DEF ThreadsOK, CallsHold, lock_timers
<1>4. WorkersHold' BY Zenon DEF ThreadsOK, WorkersHold, lock_timers
<1>5. Lifecycle' BY Zenon DEF ThreadsOK, Lifecycle, lock_timers, flags, stopping
<1> QED BY <1>1, <1>2, <1>3, <1>4, <1>5, Whole, Zenon

(* fire keeps Coherent.                                                    *)
LEMMA fire_coherent ==
    ASSUME Coherent, NEW w \in Workers, fire(w)
    PROVE  Coherent'
<1> USE Parts
<1>1. /\ FlagsOK' /\ StoppingOK' /\ ThreadsOK' /\ CallsOK' /\ BoundsOK' /\ CallsHold'
      /\ WorkersHold' /\ Lifecycle'
  BY Kept, Zenon DEF fire, flags
<1>0. PICK e \in timeouts :
        /\ timeouts' = timeouts \ {e}
        /\ syncq' \subseteq syncq \cup {e[2]} /\ dropped' \subseteq dropped \cup {e[2]}
        /\ rearms' \subseteq rearms \cup ({e[2]} \cap Intervals)
  BY Zenon DEF fire
<1>a. e[2] \in Timers BY Zenon DEF TimersOK
<1>2. QueueOK' BY <1>0, <1>a, ThreadFacts, Zenon DEF QueueOK, fire
<1>3. TimersOK'
  <2>1. IsFiniteSet(timeouts') BY <1>0, FS_Subset, Zenon DEF TimersOK
  <2> QED BY <1>0, <2>1, Zenon DEF TimersOK, fire
<1>4. HistoryOK' BY <1>0, <1>a, Zenon DEF HistoryOK, fire
<1> QED BY <1>1, <1>2, <1>3, <1>4, Whole, Zenon

(* wait_timers keeps Coherent.                                             *)
LEMMA wait_timers_coherent ==
    ASSUME Coherent, NEW w \in Workers, wait_timers(w)
    PROVE  Coherent'
<1> USE Parts
<1>1. FlagsOK' /\ StoppingOK' /\ QueueOK' /\ CallsOK' /\ HistoryOK' /\ BoundsOK'
  BY Kept, Zenon DEF wait_timers
<1>2. ThreadsOK' BY Zenon DEF ThreadsOK, wait_timers, PCs
<1>3. TimersOK'
  <2>1. Keys \cup {clock + IdleTimeout} \subseteq Nat
    BY ConstantsAssumption DEF TimersOK, Keys, timers
  <2>2. deadline' \in Nat BY <2>1, Zenon DEF wait_timers, timers
  <2> QED BY <2>2, Zenon DEF TimersOK, wait_timers, timers
<1>4. CallsHold' BY Zenon DEF ThreadsOK, CallsHold, wait_timers
<1>5. WorkersHold' BY Zenon DEF ThreadsOK, WorkersHold, wait_timers
<1>6. Lifecycle' BY Zenon DEF ThreadsOK, Lifecycle, wait_timers, flags, stopping
<1> QED BY <1>1, <1>2, <1>3, <1>4, <1>5, <1>6, Whole, Zenon

(* wake_timers keeps Coherent.                                             *)
LEMMA wake_timers_coherent ==
    ASSUME Coherent, NEW w \in Workers, wake_timers(w)
    PROVE  Coherent'
<1> USE Parts
<1>1. FlagsOK' /\ StoppingOK' /\ QueueOK' /\ CallsOK' /\ HistoryOK' /\ BoundsOK'
  BY Kept, Zenon DEF wake_timers
<1>2. ThreadsOK' BY Zenon DEF ThreadsOK, wake_timers, PCs
<1>3. TimersOK' BY Zenon DEF TimersOK, wake_timers
<1>4. CallsHold' BY Zenon DEF ThreadsOK, CallsHold, wake_timers
<1>5. WorkersHold' BY Zenon DEF ThreadsOK, WorkersHold, wake_timers
<1>6. Lifecycle' BY Zenon DEF ThreadsOK, Lifecycle, wake_timers, flags, stopping
<1> QED BY <1>1, <1>2, <1>3, <1>4, <1>5, <1>6, Whole, Zenon

(* start keeps Coherent.                                                   *)
LEMMA start_coherent ==
    ASSUME Coherent, NEW p \in Threads, start(p)
    PROVE  Coherent'
<1> USE Parts
<1>1. StoppingOK' /\ QueueOK' /\ TimersOK' /\ CallsOK' /\ HistoryOK'
  BY Kept, Zenon DEF start
<1>0. \A v \in Workers : pc[v] = "off" BY Zenon DEF Lifecycle, start
<1>2. FlagsOK' BY Zenon DEF FlagsOK, start
<1>3. ThreadsOK' BY Zenon DEF ThreadsOK, start, PCs
<1>4. BoundsOK' BY DEF BoundsOK, start
<1>5. CallsHold' BY <1>0, Zenon DEF CallsHold, start
<1>6. WorkersHold' BY <1>0, Zenon DEF WorkersHold, start
<1>7. Lifecycle' BY Zenon DEF Lifecycle, start, stopping
<1> QED BY <1>1, <1>2, <1>3, <1>4, <1>5, <1>6, <1>7, Whole, Zenon

(* stop keeps Coherent.                                                    *)
LEMMA stop_coherent ==
    ASSUME Coherent, NEW p \in Threads, stop(p)
    PROVE  Coherent'
<1> USE Parts
<1>1. /\ FlagsOK' /\ StoppingOK' /\ ThreadsOK' /\ QueueOK' /\ TimersOK' /\ HistoryOK'
      /\ WorkersHold'
  BY Kept, Zenon DEF stop
<1>2. CallsOK' BY Zenon DEF CallsOK, stop, Calls, Stopping
<1>3. BoundsOK' BY DEF BoundsOK, stop
<1>4. CallsHold' BY ThreadFacts, Zenon DEF CallsOK, CallsHold, stop, CanCall, Stopping, Idle
<1>5. Lifecycle' BY DEF CallsOK, Lifecycle, stop, CanCall, Idle, Stopping, flags, stopping
<1> QED BY <1>1, <1>2, <1>3, <1>4, <1>5, Whole, Zenon

(* stop_lock keeps Coherent.                                               *)
LEMMA stop_lock_coherent ==
    ASSUME Coherent, NEW p \in Threads, stop_lock(p)
    PROVE  Coherent'
<1> USE Parts
<1>1. ThreadsOK' /\ QueueOK' /\ TimersOK' /\ HistoryOK' /\ BoundsOK' /\ WorkersHold'
  BY Kept, Zenon DEF stop_lock
<1>2. FlagsOK' BY Zenon DEF FlagsOK, stop_lock
<1>3. StoppingOK' BY Zenon DEF StoppingOK, stop_lock
<1>4. CallsOK' BY DEF CallsOK, stop_lock, Calls, Idle
<1>5. CallsHold' BY DEF CallsOK, CallsHold, stop_lock, Idle
<1>6. Lifecycle' BY ThreadFacts DEF CallsOK, Lifecycle, stop_lock, Idle, Stopping
<1> QED BY <1>1, <1>2, <1>3, <1>4, <1>5, <1>6, Whole, Zenon

(* stop_wakeup keeps Coherent.                                             *)
LEMMA stop_wakeup_coherent ==
    ASSUME Coherent, NEW p \in Threads, stop_wakeup(p)
    PROVE  Coherent'
<1> USE Parts
<1>1. /\ FlagsOK' /\ ThreadsOK' /\ CallsOK' /\ HistoryOK' /\ BoundsOK' /\ CallsHold'
      /\ WorkersHold'
  BY Kept, Zenon DEF stop_wakeup
<1>2. StoppingOK' BY ThreadFacts DEF StoppingOK, stop_wakeup
<1>3. QueueOK' BY ThreadFacts DEF QueueOK, stop_wakeup, wakeup
<1>4. TimersOK' BY Zenon DEF TimersOK, stop_wakeup, wakeup
<1>5. Lifecycle' BY ThreadFacts DEF Lifecycle, stop_wakeup, flags
<1> QED BY <1>1, <1>2, <1>3, <1>4, <1>5, Whole, Zenon

(* stop_join keeps Coherent.                                               *)
LEMMA stop_join_coherent ==
    ASSUME Coherent, NEW p \in Threads, stop_join(p)
    PROVE  Coherent'
<1> USE Parts
<1>1. ThreadsOK' /\ QueueOK' /\ TimersOK' /\ HistoryOK' /\ BoundsOK' /\ WorkersHold'
  BY Kept, Zenon DEF stop_join
<1>2. FlagsOK' BY Zenon DEF FlagsOK, stop_join
<1>3. StoppingOK' BY ThreadFacts DEF StoppingOK, stop_join
<1>4. CallsOK' BY DEF CallsOK, stop_join, Calls, Idle
<1>5. CallsHold' BY DEF CallsOK, CallsHold, stop_join, Idle
<1>6. Lifecycle'
  <2>1. CASE joining = p BY <2>1, ThreadFacts, Zenon DEF CallsOK, Lifecycle, stop_join, Idle, Stopping
  <2>2. CASE joining # p BY <2>2, ThreadFacts DEF StoppingOK, Lifecycle, stop_join
  <2> QED BY <2>1, <2>2, Zenon
<1> QED BY <1>1, <1>2, <1>3, <1>4, <1>5, <1>6, Whole, Zenon

(* stop_finish keeps Coherent.                                             *)
LEMMA stop_finish_coherent ==
    ASSUME Coherent, NEW p \in Threads, stop_finish(p)
    PROVE  Coherent'
<1> USE Parts
<1>1. QueueOK' /\ BoundsOK'
  BY Kept, Zenon DEF stop_finish
<1>0. \A v \in Workers : pc[v] = "done"
  BY ThreadFacts DEF StoppingOK, Lifecycle, stop_finish
<1>2. FlagsOK' BY Zenon DEF FlagsOK, stop_finish
<1>3. StoppingOK' BY ThreadFacts DEF StoppingOK, stop_finish
<1>4. ThreadsOK' BY Zenon DEF ThreadsOK, stop_finish, PCs
<1>5. TimersOK' BY FS_EmptySet, Zenon DEF TimersOK, stop_finish
<1>6. CallsOK' BY Zenon DEF CallsOK, stop_finish, Calls, Idle
<1>7. HistoryOK'
  <2>1. Armed \subseteq Timers BY Zenon DEF TimersOK, Armed
  <2> QED BY <2>1, Zenon DEF HistoryOK, stop_finish
<1>8. CallsHold' BY <1>0, Zenon DEF CallsOK, CallsHold, stop_finish, Idle
<1>9. WorkersHold' BY <1>0, Zenon DEF WorkersHold, stop_finish
<1>10. Lifecycle' BY ThreadFacts, Zenon DEF CallsOK, Lifecycle, stop_finish, Idle
<1> QED BY <1>1, <1>2, <1>3, <1>4, <1>5, <1>6, <1>7, <1>8, <1>9, <1>10, Whole

(* suspend keeps Coherent.                                                 *)
LEMMA suspend_coherent ==
    ASSUME Coherent, NEW p \in Threads, suspend(p)
    PROVE  Coherent'
<1> USE Parts
<1>1. /\ StoppingOK' /\ ThreadsOK' /\ QueueOK' /\ TimersOK' /\ CallsOK' /\ HistoryOK'
      /\ CallsHold' /\ WorkersHold' /\ Lifecycle'
  BY Kept, Zenon DEF suspend
<1>2. FlagsOK' BY Zenon DEF FlagsOK, suspend
<1>3. BoundsOK' BY DEF BoundsOK, suspend
<1> QED BY <1>1, <1>2, <1>3, Whole, Zenon

(* resume keeps Coherent.                                                  *)
LEMMA resume_coherent ==
    ASSUME Coherent, NEW p \in Threads, resume(p)
    PROVE  Coherent'
<1> USE Parts
<1>1. /\ StoppingOK' /\ ThreadsOK' /\ CallsOK' /\ HistoryOK' /\ BoundsOK' /\ CallsHold'
      /\ WorkersHold' /\ Lifecycle'
  BY Kept, Zenon DEF resume
<1>2. FlagsOK' BY Zenon DEF FlagsOK, resume
<1>3. QueueOK'
  <2>1. dummies' \in Nat BY ThreadFacts DEF QueueOK, resume, wakeup
  <2> QED BY <2>1, Zenon DEF QueueOK, resume
<1>4. TimersOK' BY Zenon DEF TimersOK, resume, wakeup
<1> QED BY <1>1, <1>2, <1>3, <1>4, Whole, Zenon

(* tick keeps Coherent.                                                    *)
LEMMA tick_coherent ==
    ASSUME Coherent, tick
    PROVE  Coherent'
<1> USE Parts
<1>1. /\ FlagsOK' /\ StoppingOK' /\ ThreadsOK' /\ QueueOK' /\ CallsOK' /\ HistoryOK'
      /\ BoundsOK' /\ CallsHold' /\ WorkersHold' /\ Lifecycle'
  BY Kept, Zenon DEF tick, flags
<1>2. TimersOK' BY DEF TimersOK, tick, timers
<1> QED BY <1>1, <1>2, Whole, Zenon

(* A step of a worker keeps Coherent.                                      *)
LEMMA WorkerCoherent ==
    ASSUME Coherent, NEW w \in Workers, trigger_thread(w)
    PROVE  Coherent'
BY boot_coherent, sleep_thread_coherent, dequeue_coherent, return_task_coherent,
   rearm_coherent, thread_active_coherent, take_local_coherent, flush_local_coherent,
   lock_timers_coherent, fire_coherent, wait_timers_coherent, wake_timers_coherent, Zenon
   DEF trigger_thread

(* A step of a call keeps Coherent.                                        *)
LEMMA CallCoherent ==
    ASSUME Coherent, NEW p \in Threads,
           Submit(p) \/ Submitting(p) \/ StopSteps(p) \/ Control(p)
    PROVE  Coherent'
<1>1. CASE Submit(p)
  BY <1>1, set_task_coherent, set_timer_coherent, clear_timeout_coherent,
     trigger_timers_coherent, Zenon DEF Submit
<1>2. CASE Submitting(p)
  BY <1>2, set_task_enqueue_coherent, set_timer_emplace_coherent,
     trigger_timers_next_coherent, trigger_timers_done_coherent, Zenon DEF Submitting
<1>3. CASE StopSteps(p)
  BY <1>3, stop_lock_coherent, stop_wakeup_coherent, stop_join_coherent,
     stop_finish_coherent, Zenon DEF StopSteps
<1>4. CASE Control(p)
  BY <1>4, start_coherent, stop_coherent, suspend_coherent, resume_coherent, Zenon
     DEF Control
<1> QED BY <1>1, <1>2, <1>3, <1>4, Zenon

(* Every step of the schedule keeps Coherent.                              *)
LEMMA NextCoherent == Coherent /\ [Next]_vars => Coherent'
<1> SUFFICES ASSUME Coherent, [Next]_vars PROVE Coherent' BY Zenon
<1>1. CASE UNCHANGED vars BY <1>1, Kept, Parts, Whole, Zenon DEF vars, flags
<1> QED BY <1>1, WorkerCoherent, CallCoherent, tick_coherent, Zenon DEF Next

(* Every queue, map and flag of the schedule stays in its range, and the   *)
(* flags, the calls in progress and the places of the workers agree,       *)
(* whatever threads start, stop, suspend and submit at the same time.      *)
THEOREM ScheduleCoherent == Spec => []Coherent
BY InitCoherent, NextCoherent, PTL DEF Spec

(* A pool that was not started, or whose stop() is complete, holds no      *)
(* callback outside of its global queue; and the schedule accepts work     *)
(* exactly while no stop() is under way or left incomplete.                *)
THEOREM StopCompletes == Spec => []StopIsComplete
<1>1. Coherent => StoppedIsQuiet
  BY ThreadFacts, Zenon DEF Coherent, Consistent, WorkersHold, Lifecycle, StoppedIsQuiet
<1>2. Coherent => RefusesUntilStopped
  BY Zenon DEF Coherent, Consistent, Lifecycle, RefusesUntilStopped
<1>3. Coherent => StopIsComplete
  BY <1>1, <1>2, Zenon DEF StopIsComplete
<1> QED BY <1>3, ScheduleCoherent, PTL

-----------------------------------------------------------------------------
(* A step of a worker keeps NeverOversleeps: the timeout thread computes   *)
(* its deadline under the lock, and a timer that is re-armed sets resync.  *)
LEMMA WorkerNeverOversleeps ==
    ASSUME Coherent, NeverOversleeps, NEW w \in Workers, trigger_thread(w)
    PROVE  NeverOversleeps'
<1>0. Timer \in Workers BY ThreadFacts, Zenon
<1> USE <1>0 DEF Coherent, TypeOK, NeverOversleeps, timers
<1>1. CASE boot(w) BY <1>1, Zenon DEF ThreadsOK, boot
<1>2. CASE sleep_thread(w) BY <1>2, Zenon DEF ThreadsOK, sleep_thread
<1>3. CASE dequeue(w) BY <1>3, Zenon DEF ThreadsOK, dequeue
<1>4. CASE return_task(w) BY <1>4, Zenon DEF ThreadsOK, return_task
<1>5. CASE rearm(w) BY <1>5, Zenon DEF ThreadsOK, rearm
<1>6. CASE thread_active(w) BY <1>6, Zenon DEF ThreadsOK, thread_active
<1>7. CASE take_local(w) BY <1>7, Zenon DEF ThreadsOK, take_local
<1>8. CASE flush_local(w) BY <1>8, Zenon DEF ThreadsOK, flush_local
<1>9. CASE lock_timers(w) BY <1>9, Zenon DEF ThreadsOK, lock_timers
<1>10. CASE fire(w) BY <1>10, Zenon DEF fire
<1>11. CASE wait_timers(w)
  <2>1. \A e \in timeouts : e[1] \in Keys BY Zenon DEF Keys
  <2>2. \A k \in Keys : deadline' <= k BY <1>11, Zenon DEF wait_timers
  <2> QED BY <1>11, <2>1, <2>2, Zenon DEF wait_timers
<1>12. CASE wake_timers(w) BY <1>12, Zenon DEF ThreadsOK, Consistent, WorkersHold, wake_timers
<1> QED
  BY <1>1, <1>2, <1>3, <1>4, <1>5, <1>6, <1>7, <1>8, <1>9, <1>10, <1>11, <1>12, Zenon DEF trigger_thread

(* The timeout thread sleeps past no timer, however timers are added,      *)
(* cleared, fired and re-armed while it waits.                             *)
THEOREM NoOversleep == Spec => []NeverOversleeps
<1>1. Init => NeverOversleeps BY ThreadFacts, Zenon DEF Init, NeverOversleeps
<1>2. Coherent /\ NeverOversleeps /\ [Next]_vars => NeverOversleeps'
  <2> SUFFICES ASSUME Coherent, NeverOversleeps, [Next]_vars PROVE NeverOversleeps'
    BY Zenon
  <2>1. CASE \E w \in Workers : trigger_thread(w) BY <2>1, WorkerNeverOversleeps, Zenon
  <2>0. Timer \in Workers BY ThreadFacts, Zenon
  <2> USE <2>0 DEF Coherent, TypeOK, NeverOversleeps, timers
  <2>2. ASSUME NEW p \in Threads, Submit(p) PROVE NeverOversleeps'
    BY <2>2, Zenon DEF Submit, set_task, set_timer, clear_timeout, trigger_timers
  <2>3. ASSUME NEW p \in Threads, Submitting(p) PROVE NeverOversleeps'
    <3>1. CASE \E recyclable \in BOOLEAN : set_task_enqueue(p, recyclable)
      <4>1. UNCHANGED <<pc, timeouts, resync, deadline>> BY <3>1, Zenon DEF set_task_enqueue
      <4> QED BY <4>1, Zenon
    <3>2. CASE set_timer_emplace(p) BY <3>2, Zenon DEF set_timer_emplace
    <3>3. CASE trigger_timers_next(p) BY <3>3, Zenon DEF trigger_timers_next
    <3>4. CASE trigger_timers_done(p) BY <3>4, Zenon DEF trigger_timers_done
    <3> QED BY <2>3, <3>1, <3>2, <3>3, <3>4, Zenon DEF Submitting
  <2>4. ASSUME NEW p \in Threads, StopSteps(p) PROVE NeverOversleeps'
    <3>1. CASE stop_lock(p) BY <3>1, Zenon DEF stop_lock
    <3>2. CASE stop_wakeup(p) BY <3>2, Zenon DEF stop_wakeup, wakeup
    <3>3. CASE stop_join(p) BY <3>3, Zenon DEF stop_join
    <3>4. CASE stop_finish(p) BY <3>4, Zenon DEF stop_finish
    <3> QED BY <2>4, <3>1, <3>2, <3>3, <3>4, Zenon DEF StopSteps
  <2>5. ASSUME NEW p \in Threads, Control(p) PROVE NeverOversleeps'
    BY <2>5, Zenon DEF Control, start, stop, suspend, resume, wakeup
  <2>6. CASE tick BY <2>6, Zenon DEF tick
  <2>7. CASE UNCHANGED vars BY <2>7, Zenon DEF vars
  <2> QED BY <2>1, <2>2, <2>3, <2>4, <2>5, <2>6, <2>7 DEF Next
<1> QED BY <1>1, <1>2, ScheduleCoherent, PTL DEF Spec
=============================================================================
