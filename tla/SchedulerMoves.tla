---------------------------- MODULE SchedulerMoves ----------------------------
(***************************************************************************)
(* What each step of Scheduler does to the containers that hold tasks and  *)
(* timers: it moves at most one item, along one of a few ways, except that *)
(* the end of stop() drops every timer that is still armed.  The lemmas    *)
(* say so for every number of threads, tasks and timers.                   *)
(***************************************************************************)
EXTENDS Scheduler, TLAPS

(* What the assumptions on the constants say about threads and items.      *)
LEMMA ItemFacts ==
    /\ Timer \in Workers /\ Workers \subseteq Threads
    /\ \A p \in App : p \in Threads /\ p \notin Workers
    /\ \A p \in Threads : p # None
    /\ \A i \in Items : i # None
    /\ Tasks \subseteq Items /\ Timers \subseteq Items /\ Intervals \subseteq Timers
    /\ \A i \in Tasks : i \notin Timers
BY ConstantsAssumption DEF Timer, Workers, Threads, Items, Timers

(* The search of get_timeout ends, and ends at a key that is not in use.   *)
FreeKeys == \A at \in Nat : get_timeout(at) \in Nat /\ get_timeout(at) \notin Keys

-----------------------------------------------------------------------------
(* Conservation: every item is in one container, at one place of it.       *)

ConsInv == OnePlace /\ OneContainer

(* A step that moves nothing, one that moves item i from container c to d,  *)
(* and the end of stop(), which drops what is armed.                       *)
Still == \A k \in Items : \A e \in Containers : In(k, e)' <=> In(k, e)

Moves(i, c, d) ==
    /\ i \in Items /\ In(i, c)
    /\ \A k \in Items : \A e \in Containers :
           In(k, e)' <=> IF k = i THEN e = d ELSE In(k, e)

TimersDropped ==
    \A k \in Items : \A e \in Containers :
        In(k, e)' <=> IF InTimers(k) THEN e = "dropped" ELSE In(k, e)

(* The ways of an item through the schedule.                               *)
Journey(i) ==
    \/ Moves(i, "fresh", "call")
    \/ i \in Tasks /\ (Moves(i, "call", "sync") \/ Moves(i, "call", "local"))
    \/ i \in Timers /\ Moves(i, "call", "timers")
    \/ \E d \in {"sync", "cleared", "dropped"} : Moves(i, "timers", d)
    \/ Moves(i, "local", "sync")
    \/ \E c \in {"sync", "local"} : Moves(i, c, "run")
    \/ Moves(i, "run", "finished")
    \/ i \in Intervals /\ Moves(i, "run", "timers")

OnItsWay == Still \/ TimersDropped \/ \E i \in Items : Journey(i)

(* A call that ends lets go of its item.                                   *)
LEMMA CallEnds ==
    ASSUME TypeOK, OneCall, NEW p \in Threads, call' = [call EXCEPT ![p] = Idle]
    PROVE  /\ OneCall'
           /\ \A i \in Items : InCall(i)' <=> InCall(i) /\ i # call[p].item
BY ItemFacts DEF TypeOK, CallsOK, OneCall, InCall, Calls, Idle

(* A call that begins holds an item that no call has.                      *)
LEMMA CallBegins ==
    ASSUME TypeOK, OneCall, NEW p \in Threads, call[p] = Idle,
           NEW c \in Calls, call' = [call EXCEPT ![p] = c], ~InCall(c.item) \/ c.item = None
    PROVE  /\ OneCall'
           /\ \A i \in Items : InCall(i)' <=> InCall(i) \/ i = c.item
BY ItemFacts DEF TypeOK, CallsOK, OneCall, InCall, Calls, Idle

(* A worker takes up a callback that no worker has.                        *)
LEMMA RunBegins ==
    ASSUME TypeOK, OneRun, NEW w \in Workers, running[w] = None,
           NEW j \in Items, running' = [running EXCEPT ![w] = j], ~InRun(j)
    PROVE  /\ OneRun'
           /\ \A i \in Items : InRun(i)' <=> InRun(i) \/ i = j
BY ItemFacts DEF TypeOK, ThreadsOK, OneRun, InRun

(* A worker is through with its callback.                                  *)
LEMMA RunEnds ==
    ASSUME TypeOK, OneRun, NEW w \in Workers, running' = [running EXCEPT ![w] = None]
    PROVE  /\ OneRun'
           /\ \A i \in Items : InRun(i)' <=> InRun(i) /\ i # running[w]
BY ItemFacts DEF TypeOK, ThreadsOK, OneRun, InRun

(* A timer is added to the map.                                            *)
LEMMA TimerAdded ==
    ASSUME TypeOK, OneTimer, NEW k \in Nat, NEW j \in Items,
           timeouts' = timeouts \cup {<<k, j>>}, ~InTimers(j)
    PROVE  /\ OneTimer'
           /\ \A i \in Items : InTimers(i)' <=> InTimers(i) \/ i = j
<1> DEFINE new == <<k, j>>
<1>1. new[2] = j /\ timeouts' = timeouts \cup {new} BY Zenon
<1> HIDE DEF new
<1>2. OneTimer' BY <1>1, Zenon DEF OneTimer, InTimers
<1>3. \A i \in Items : InTimers(i)' <=> InTimers(i) \/ i = j BY <1>1, Zenon DEF InTimers
<1> QED BY <1>2, <1>3, Zenon

(* A timer is taken from the map.                                          *)
LEMMA TimerRemoved ==
    ASSUME TypeOK, OneTimer, NEW e \in timeouts, timeouts' = timeouts \ {e}
    PROVE  /\ OneTimer'
           /\ \A i \in Items : InTimers(i)' <=> InTimers(i) /\ i # e[2]
BY Zenon DEF OneTimer, InTimers

(* A worker recycles a task that no worker has recycled.                   *)
LEMMA LocalAppended ==
    ASSUME TypeOK, OneLocal, NEW w \in Workers, NEW j \in Items,
           local' = [local EXCEPT ![w] = Append(local[w], j)], ~InLocal(j)
    PROVE  /\ OneLocal'
           /\ \A i \in Items : InLocal(i)' <=> InLocal(i) \/ i = j
BY DEF TypeOK, ThreadsOK, OneLocal, InLocal

(* A worker takes the first of its recycled tasks.                         *)
LEMMA LocalTaken ==
    ASSUME TypeOK, OneLocal, NEW w \in Workers, local[w] # <<>>,
           local' = [local EXCEPT ![w] = Tail(local[w])]
    PROVE  /\ OneLocal'
           /\ \A i \in Items : InLocal(i)' <=> InLocal(i) /\ i # Head(local[w])
<1>1. local[w] \in Seq(Items) /\ Len(local[w]) \in Nat \ {0} /\ Head(local[w]) = local[w][1]
  BY DEF TypeOK, ThreadsOK
<1>2. /\ Len(local'[w]) = Len(local[w]) - 1
      /\ \A n \in 1..Len(local'[w]) : local'[w][n] = local[w][n + 1]
  BY <1>1 DEF TypeOK, ThreadsOK
<1>3. \A v \in Workers \ {w} : local'[v] = local[v] BY Zenon DEF TypeOK, ThreadsOK
<1>4. \A v \in Workers : Len(local[v]) \in Nat BY DEF TypeOK, ThreadsOK
<1>5. OneLocal'
  <2> SUFFICES ASSUME NEW u \in Workers, NEW v \in Workers,
                      NEW m \in 1..Len(local'[u]), NEW n \in 1..Len(local'[v]),
                      local'[u][m] = local'[v][n]
               PROVE  u = v /\ m = n
    BY Zenon DEF OneLocal
  <2>1. CASE u = w /\ v = w BY <1>1, <1>2, <2>1 DEF OneLocal
  <2>2. CASE u = w /\ v # w BY <1>1, <1>2, <1>3, <2>2 DEF OneLocal
  <2>3. CASE u # w /\ v = w BY <1>1, <1>2, <1>3, <2>3 DEF OneLocal
  <2>4. CASE u # w /\ v # w BY <1>3, <2>4 DEF OneLocal
  <2> QED BY <2>1, <2>2, <2>3, <2>4, Zenon
<1>6. ASSUME NEW i \in Items PROVE InLocal(i)' <=> InLocal(i) /\ i # Head(local[w])
  <2>1. ASSUME InLocal(i)' PROVE InLocal(i) /\ i # Head(local[w])
    <3>0. PICK v \in Workers : \E n \in 1..Len(local'[v]) : local'[v][n] = i
      BY <2>1, Zenon DEF InLocal
    <3>1. PICK n \in 1..Len(local'[v]) : local'[v][n] = i BY <3>0, Zenon
    <3>2. CASE v = w BY <1>1, <1>2, <3>1, <3>2 DEF InLocal, OneLocal
    <3>3. CASE v # w BY <1>1, <1>3, <3>1, <3>3 DEF InLocal, OneLocal
    <3> QED BY <3>2, <3>3, Zenon
  <2>2. ASSUME InLocal(i), i # Head(local[w]) PROVE InLocal(i)'
    <3>0. PICK v \in Workers : \E n \in 1..Len(local[v]) : local[v][n] = i
      BY <2>2, Zenon DEF InLocal
    <3>1. PICK n \in 1..Len(local[v]) : local[v][n] = i BY <3>0, Zenon
    <3>2. CASE v = w
      <4>1. n - 1 \in 1..Len(local'[w]) /\ local'[w][n - 1] = i
        BY <1>1, <1>2, <2>2, <3>1, <3>2
      <4> QED BY <4>1, Zenon DEF InLocal
    <3>3. CASE v # w BY <1>3, <3>1, <3>3, Zenon DEF InLocal
    <3> QED BY <3>2, <3>3, Zenon
  <2> QED BY <2>1, <2>2, Zenon
<1> QED BY <1>5, <1>6
-----------------------------------------------------------------------------
(* The names of the containers.                                            *)
LEMMA Names ==
    /\ "fresh" \in Containers /\ "finished" \in Containers /\ "cleared" \in Containers
    /\ "dropped" \in Containers /\ "sync" \in Containers /\ "call" \in Containers
    /\ "run" \in Containers /\ "timers" \in Containers /\ "local" \in Containers
BY Zenon DEF Containers

(* An item that is in one container is in no other.                        *)
LEMMA OnlyIn ==
    ASSUME OneContainer, NEW i \in Items, NEW c \in Containers, In(i, c)
    PROVE  \A d \in Containers : In(i, d) <=> d = c
BY Zenon DEF OneContainer

(* A step that leaves a container alone.                                   *)
LEMMA SameCalls ==
    ASSUME OneCall, \A p \in Threads : call'[p].item = call[p].item
    PROVE  OneCall' /\ \A i \in Items : InCall(i)' <=> InCall(i)
BY Zenon DEF OneCall, InCall

(* A call without an item begins or ends.                                  *)
LEMMA SameItems ==
    ASSUME Coherent, NEW p \in Threads, call[p].item = None,
           NEW c, c.item = None, call' = [call EXCEPT ![p] = c]
    PROVE  \A q \in Threads : call'[q].item = call[q].item
BY Zenon DEF Coherent, TypeOK, CallsOK

(* No worker takes up or ends a callback.                                  *)
LEMMA SameRuns ==
    ASSUME OneRun, UNCHANGED running
    PROVE  OneRun' /\ \A i \in Items : InRun(i)' <=> InRun(i)
BY Zenon DEF OneRun, InRun

(* The map of timers is left alone.                                        *)
LEMMA SameTimers ==
    ASSUME OneTimer, UNCHANGED timeouts
    PROVE  OneTimer' /\ \A i \in Items : InTimers(i)' <=> InTimers(i)
BY Zenon DEF OneTimer, InTimers

(* The private queues are left alone.                                      *)
LEMMA SameLocals ==
    ASSUME OneLocal, UNCHANGED local
    PROVE  OneLocal' /\ \A i \in Items : InLocal(i)' <=> InLocal(i)
BY DEF OneLocal, InLocal

(* A step that moves nothing.                                              *)
LEMMA NothingMoved ==
    ASSUME ConsInv, UNCHANGED <<fresh, finished, cleared, dropped, syncq>>,
           \A p \in Threads : call'[p].item = call[p].item,
           UNCHANGED running, UNCHANGED timeouts, UNCHANGED local
    PROVE  ConsInv' /\ OnItsWay
<1> USE DEF ConsInv, OnePlace
<1>1. OneCall' /\ \A i \in Items : InCall(i)' <=> InCall(i) BY SameCalls, Zenon
<1>2. OneRun' /\ \A i \in Items : InRun(i)' <=> InRun(i) BY SameRuns, Zenon
<1>3. OneTimer' /\ \A i \in Items : InTimers(i)' <=> InTimers(i) BY SameTimers, Zenon
<1>4. OneLocal' /\ \A i \in Items : InLocal(i)' <=> InLocal(i) BY SameLocals, Zenon
<1>5. \A i \in Items : \A d \in Containers : In(i, d)' <=> In(i, d)
  BY <1>1, <1>2, <1>3, <1>4 DEF In, Containers
<1>6. OneContainer' BY <1>5 DEF OneContainer, Containers
<1> QED BY <1>1, <1>2, <1>3, <1>4, <1>5, <1>6, Zenon DEF OnItsWay, Still

(* A step after which item i is in d and every other item where it was.    *)
LEMMA Arrived ==
    ASSUME ConsInv, NEW i \in Items, NEW c \in Containers, NEW d \in Containers,
           In(i, c), OneCall', OneRun', OneTimer', OneLocal',
           \A k \in Items : \A e \in Containers :
               In(k, e)' <=> IF k = i THEN e = d ELSE In(k, e)
    PROVE  ConsInv' /\ Moves(i, c, d)
<1>1. OneContainer' BY Zenon DEF ConsInv, OneContainer
<1>2. Moves(i, c, d) BY Zenon DEF Moves
<1> QED BY <1>1, <1>2, Zenon DEF ConsInv, OnePlace

(* set_task takes a task that the schedule has not seen.                   *)
LEMMA set_task_moves ==
    ASSUME Coherent, ConsInv, NEW p \in Threads, NEW i \in Tasks, set_task(p, i)
    PROVE  ConsInv' /\ Moves(i, "fresh", "call")
<1>0. /\ i \in fresh /\ fresh' = fresh \ {i}
      /\ call[p] = Idle /\ call' = [call EXCEPT ![p] = Pushing(i)]
      /\ UNCHANGED <<finished, cleared, dropped, syncq, running, timeouts, local>>
  BY Zenon DEF set_task, CanCall, timers
<1>1. i \in Items /\ In(i, "fresh") BY <1>0, ItemFacts, Zenon DEF In
<1>2. \A e \in Containers : In(i, e) <=> e = "fresh" BY <1>1, OnlyIn, Names, Zenon DEF ConsInv
<1>3. OneCall' /\ \A k \in Items : InCall(k)' <=> InCall(k) \/ k = i
  <2>1. Pushing(i) \in Calls /\ Pushing(i).item = i BY <1>1, Zenon DEF Pushing, Calls
  <2>2. ~InCall(i) BY <1>2, Names, Zenon DEF In
  <2> QED BY <1>0, <2>1, <2>2, CallBegins, Zenon DEF Coherent, ConsInv, OnePlace
<1>4. OneRun' /\ \A k \in Items : InRun(k)' <=> InRun(k)
  BY <1>0, SameRuns, Zenon DEF ConsInv, OnePlace
<1>5. OneTimer' /\ \A k \in Items : InTimers(k)' <=> InTimers(k)
  BY <1>0, SameTimers, Zenon DEF ConsInv, OnePlace
<1>6. OneLocal' /\ \A k \in Items : InLocal(k)' <=> InLocal(k)
  BY <1>0, SameLocals, Zenon DEF ConsInv, OnePlace
<1>7. \A k \in Items : \A e \in Containers :
        In(k, e)' <=> IF k = i THEN e = "call" ELSE In(k, e)
  BY ONLY <1>0, <1>2, <1>3, <1>4, <1>5, <1>6 DEF In, Containers
<1> QED BY <1>1, <1>3, <1>4, <1>5, <1>6, <1>7, Arrived, Names, Zenon

(* set_timeout and set_interval do the same for a timer.                   *)
LEMMA set_timer_moves ==
    ASSUME Coherent, ConsInv, NEW p \in Threads, NEW i \in Timers, set_timer(p, i)
    PROVE  ConsInv' /\ Moves(i, "fresh", "call")
<1>0. /\ i \in fresh /\ fresh' = fresh \ {i}
      /\ call[p] = Idle /\ call' = [call EXCEPT ![p] = Arming(i, clock + Delay[i])]
      /\ UNCHANGED <<finished, cleared, dropped, syncq, running, timeouts, local>>
  BY Zenon DEF set_timer, CanCall, timers
<1>1. i \in Items /\ In(i, "fresh") BY <1>0, ItemFacts, Zenon DEF In
<1>2. \A e \in Containers : In(i, e) <=> e = "fresh" BY <1>1, OnlyIn, Names, Zenon DEF ConsInv
<1>3. OneCall' /\ \A k \in Items : InCall(k)' <=> InCall(k) \/ k = i
  <2>0. clock + Delay[i] \in Nat
    BY ConstantsAssumption DEF Coherent, TypeOK, TimersOK
  <2>1. Arming(i, clock + Delay[i]) \in Calls /\ Arming(i, clock + Delay[i]).item = i
    BY <1>1, <2>0, Zenon DEF Arming, Calls
  <2>2. ~InCall(i) BY <1>2, Names, Zenon DEF In
  <2> QED BY <1>0, <2>1, <2>2, CallBegins, Zenon DEF Coherent, ConsInv, OnePlace
<1>4. OneRun' /\ \A k \in Items : InRun(k)' <=> InRun(k)
  BY <1>0, SameRuns, Zenon DEF ConsInv, OnePlace
<1>5. OneTimer' /\ \A k \in Items : InTimers(k)' <=> InTimers(k)
  BY <1>0, SameTimers, Zenon DEF ConsInv, OnePlace
<1>6. OneLocal' /\ \A k \in Items : InLocal(k)' <=> InLocal(k)
  BY <1>0, SameLocals, Zenon DEF ConsInv, OnePlace
<1>7. \A k \in Items : \A e \in Containers :
        In(k, e)' <=> IF k = i THEN e = "call" ELSE In(k, e)
  BY ONLY <1>0, <1>2, <1>3, <1>4, <1>5, <1>6 DEF In, Containers
<1> QED BY <1>1, <1>3, <1>4, <1>5, <1>6, <1>7, Arrived, Names, Zenon

(* The item of set_task goes to the private queue of the calling worker ... *)
LEMMA set_task_recycled ==
    ASSUME Coherent, ConsInv, NEW p \in Threads,
           set_task_enqueue(p, TRUE), CanBypass(p)
    PROVE  ConsInv' /\ Moves(call[p].item, "call", "local")
<1>0. /\ call[p].op = "push" /\ call' = [call EXCEPT ![p] = Idle]
      /\ local' = [local EXCEPT ![p] = Append(local[p], call[p].item)]
      /\ UNCHANGED <<fresh, finished, cleared, dropped, syncq, running, timeouts>>
  BY Zenon DEF set_task_enqueue, timers, history
<1>1. call[p].item \in Items /\ In(call[p].item, "call")
  BY <1>0, ItemFacts, Zenon DEF Coherent, Consistent, CallsHold, In, InCall
<1>2. \A e \in Containers : In(call[p].item, e) <=> e = "call" BY <1>1, OnlyIn, Names, Zenon DEF ConsInv
<1>3. OneCall' /\ \A k \in Items : InCall(k)' <=> InCall(k) /\ k # call[p].item
  BY <1>0, CallEnds, Zenon DEF Coherent, ConsInv, OnePlace
<1>4. OneRun' /\ \A k \in Items : InRun(k)' <=> InRun(k)
  BY <1>0, SameRuns, Zenon DEF ConsInv, OnePlace
<1>5. OneTimer' /\ \A k \in Items : InTimers(k)' <=> InTimers(k)
  BY <1>0, SameTimers, Zenon DEF ConsInv, OnePlace
<1>6. OneLocal' /\ \A k \in Items : InLocal(k)' <=> InLocal(k) \/ k = call[p].item
  <2>1. p \in Workers BY ConstantsAssumption DEF CanBypass, Workers, Timer
  <2>2. ~InLocal(call[p].item) BY <1>2, Names, Zenon DEF In
  <2> QED BY <1>0, <1>1, <2>1, <2>2, LocalAppended, Zenon DEF Coherent, ConsInv, OnePlace
<1>7. \A k \in Items : \A e \in Containers :
        In(k, e)' <=> IF k = call[p].item THEN e = "local" ELSE In(k, e)
  BY ONLY <1>0, <1>2, <1>3, <1>4, <1>5, <1>6 DEF In, Containers
<1> QED BY <1>1, <1>3, <1>4, <1>5, <1>6, <1>7, Arrived, Names, Zenon

(* ... or to the global queue.                                             *)
LEMMA set_task_queued ==
    ASSUME Coherent, ConsInv, NEW p \in Threads, NEW recyclable \in BOOLEAN,
           set_task_enqueue(p, recyclable), ~(recyclable /\ CanBypass(p))
    PROVE  ConsInv' /\ Moves(call[p].item, "call", "sync")
<1>0. /\ call[p].op = "push" /\ call' = [call EXCEPT ![p] = Idle]
      /\ syncq' = syncq \cup {call[p].item}
      /\ UNCHANGED <<fresh, finished, cleared, dropped, running, timeouts, local>>
  BY Zenon DEF set_task_enqueue, timers, history
<1>1. call[p].item \in Items /\ In(call[p].item, "call")
  BY <1>0, ItemFacts, Zenon DEF Coherent, Consistent, CallsHold, In, InCall
<1>2. \A e \in Containers : In(call[p].item, e) <=> e = "call" BY <1>1, OnlyIn, Names, Zenon DEF ConsInv
<1>3. OneCall' /\ \A k \in Items : InCall(k)' <=> InCall(k) /\ k # call[p].item
  BY <1>0, CallEnds, Zenon DEF Coherent, ConsInv, OnePlace
<1>4. OneRun' /\ \A k \in Items : InRun(k)' <=> InRun(k)
  BY <1>0, SameRuns, Zenon DEF ConsInv, OnePlace
<1>5. OneTimer' /\ \A k \in Items : InTimers(k)' <=> InTimers(k)
  BY <1>0, SameTimers, Zenon DEF ConsInv, OnePlace
<1>6. OneLocal' /\ \A k \in Items : InLocal(k)' <=> InLocal(k)
  BY <1>0, SameLocals, Zenon DEF ConsInv, OnePlace
<1>7. \A k \in Items : \A e \in Containers :
        In(k, e)' <=> IF k = call[p].item THEN e = "sync" ELSE In(k, e)
  BY ONLY <1>0, <1>2, <1>3, <1>4, <1>5, <1>6 DEF In, Containers
<1> QED BY <1>1, <1>3, <1>4, <1>5, <1>6, <1>7, Arrived, Names, Zenon

(* The timer of set_timeout or set_interval is armed.                      *)
LEMMA set_timer_emplace_moves ==
    ASSUME Coherent, FreeKeys, ConsInv, NEW p \in Threads, set_timer_emplace(p)
    PROVE  ConsInv' /\ Moves(call[p].item, "call", "timers")
<1>0. /\ call[p].op = "arm" /\ call' = [call EXCEPT ![p] = Idle]
      /\ timeouts' = Emplaced(get_timeout(call[p].at), call[p].item)
      /\ UNCHANGED <<fresh, finished, cleared, dropped, syncq, running, local>>
  BY Zenon DEF set_timer_emplace, history
<1>1. call[p].item \in Items /\ In(call[p].item, "call")
  BY <1>0, ItemFacts, Zenon DEF Coherent, Consistent, CallsHold, In, InCall
<1>2. \A e \in Containers : In(call[p].item, e) <=> e = "call" BY <1>1, OnlyIn, Names, Zenon DEF ConsInv
<1>3. OneCall' /\ \A k \in Items : InCall(k)' <=> InCall(k) /\ k # call[p].item
  BY <1>0, CallEnds, Zenon DEF Coherent, ConsInv, OnePlace
<1>4. OneRun' /\ \A k \in Items : InRun(k)' <=> InRun(k)
  BY <1>0, SameRuns, Zenon DEF ConsInv, OnePlace
<1>5. OneTimer' /\ \A k \in Items : InTimers(k)' <=> InTimers(k) \/ k = call[p].item
  <2>1. call[p].at \in Nat BY Zenon DEF Coherent, TypeOK, CallsOK, Calls
  <2>2. PICK key \in Nat : timeouts' = timeouts \cup {<<key, call[p].item>>}
    BY <1>0, <2>1, Zenon DEF FreeKeys, Emplaced
  <2>3. ~InTimers(call[p].item) BY <1>2, Names, Zenon DEF In
  <2> QED BY <1>1, <2>2, <2>3, TimerAdded, Zenon DEF Coherent, ConsInv, OnePlace
<1>6. OneLocal' /\ \A k \in Items : InLocal(k)' <=> InLocal(k)
  BY <1>0, SameLocals, Zenon DEF ConsInv, OnePlace
<1>7. \A k \in Items : \A e \in Containers :
        In(k, e)' <=> IF k = call[p].item THEN e = "timers" ELSE In(k, e)
  BY ONLY <1>0, <1>2, <1>3, <1>4, <1>5, <1>6 DEF In, Containers
<1> QED BY <1>1, <1>3, <1>4, <1>5, <1>6, <1>7, Arrived, Names, Zenon

(* clear_timeout removes an armed timer for good.                          *)
LEMMA clear_timeout_moves ==
    ASSUME Coherent, ConsInv, NEW p \in Threads, NEW i \in Timers, clear_timeout(p, i)
    PROVE  ConsInv' /\ Moves(i, "timers", "cleared")
<1>0. PICK x \in timeouts :
        /\ x[2] = i /\ timeouts' = timeouts \ {x} /\ cleared' = cleared \cup {i}
        /\ UNCHANGED <<fresh, finished, dropped, syncq, call, running, local>>
  BY Zenon DEF clear_timeout
<1>1. i \in Items /\ In(i, "timers") BY <1>0, ItemFacts, Zenon DEF In, InTimers
<1>2. \A e \in Containers : In(i, e) <=> e = "timers" BY <1>1, OnlyIn, Names, Zenon DEF ConsInv
<1>3. OneCall' /\ \A k \in Items : InCall(k)' <=> InCall(k)
  BY <1>0, SameCalls, Zenon DEF ConsInv, OnePlace
<1>4. OneRun' /\ \A k \in Items : InRun(k)' <=> InRun(k)
  BY <1>0, SameRuns, Zenon DEF ConsInv, OnePlace
<1>5. OneTimer' /\ \A k \in Items : InTimers(k)' <=> InTimers(k) /\ k # i
  BY <1>0, TimerRemoved, Zenon DEF Coherent, ConsInv, OnePlace
<1>6. OneLocal' /\ \A k \in Items : InLocal(k)' <=> InLocal(k)
  BY <1>0, SameLocals, Zenon DEF ConsInv, OnePlace
<1>7. \A k \in Items : \A e \in Containers :
        In(k, e)' <=> IF k = i THEN e = "cleared" ELSE In(k, e)
  BY ONLY <1>0, <1>2, <1>3, <1>4, <1>5, <1>6 DEF In, Containers
<1> QED BY <1>1, <1>3, <1>4, <1>5, <1>6, <1>7, Arrived, Names, Zenon

(* A timer that trigger_timers or the timeout thread takes from the map     *)
(* goes to the global queue, or is dropped when work is refused.           *)
LEMMA trigger_timers_next_queued ==
    ASSUME Coherent, ConsInv, NEW p \in Threads, trigger_timers_next(p), enqueue
    PROVE  ConsInv' /\ \E x \in timeouts : Moves(x[2], "timers", "sync")
<1>0. PICK x \in timeouts :
        /\ timeouts' = timeouts \ {x} /\ syncq' = syncq \cup {x[2]}
        /\ UNCHANGED <<fresh, finished, cleared, dropped, call, running, local>>
  BY Zenon DEF trigger_timers_next
<1>1. x[2] \in Items /\ In(x[2], "timers")
  BY <1>0, ItemFacts, Zenon DEF Coherent, TypeOK, TimersOK, In, InTimers
<1>2. \A e \in Containers : In(x[2], e) <=> e = "timers" BY <1>1, OnlyIn, Names, Zenon DEF ConsInv
<1>3. OneCall' /\ \A k \in Items : InCall(k)' <=> InCall(k)
  BY <1>0, SameCalls, Zenon DEF ConsInv, OnePlace
<1>4. OneRun' /\ \A k \in Items : InRun(k)' <=> InRun(k)
  BY <1>0, SameRuns, Zenon DEF ConsInv, OnePlace
<1>5. OneTimer' /\ \A k \in Items : InTimers(k)' <=> InTimers(k) /\ k # x[2]
  BY <1>0, TimerRemoved, Zenon DEF Coherent, ConsInv, OnePlace
<1>6. OneLocal' /\ \A k \in Items : InLocal(k)' <=> InLocal(k)
  BY <1>0, SameLocals, Zenon DEF ConsInv, OnePlace
<1>7. \A k \in Items : \A e \in Containers :
        In(k, e)' <=> IF k = x[2] THEN e = "sync" ELSE In(k, e)
  BY ONLY <1>0, <1>2, <1>3, <1>4, <1>5, <1>6 DEF In, Containers
<1> QED BY <1>1, <1>3, <1>4, <1>5, <1>6, <1>7, Arrived, Names, Zenon

(* trigger_timers while work is refused: the timer is dropped.             *)
LEMMA trigger_timers_next_dropped ==
    ASSUME Coherent, ConsInv, NEW p \in Threads, trigger_timers_next(p), ~enqueue
    PROVE  ConsInv' /\ \E x \in timeouts : Moves(x[2], "timers", "dropped")
<1>0. PICK x \in timeouts :
        /\ timeouts' = timeouts \ {x} /\ dropped' = dropped \cup {x[2]}
        /\ UNCHANGED <<fresh, finished, cleared, syncq, call, running, local>>
  BY Zenon DEF trigger_timers_next
<1>1. x[2] \in Items /\ In(x[2], "timers")
  BY <1>0, ItemFacts, Zenon DEF Coherent, TypeOK, TimersOK, In, InTimers
<1>2. \A e \in Containers : In(x[2], e) <=> e = "timers" BY <1>1, OnlyIn, Names, Zenon DEF ConsInv
<1>3. OneCall' /\ \A k \in Items : InCall(k)' <=> InCall(k)
  BY <1>0, SameCalls, Zenon DEF ConsInv, OnePlace
<1>4. OneRun' /\ \A k \in Items : InRun(k)' <=> InRun(k)
  BY <1>0, SameRuns, Zenon DEF ConsInv, OnePlace
<1>5. OneTimer' /\ \A k \in Items : InTimers(k)' <=> InTimers(k) /\ k # x[2]
  BY <1>0, TimerRemoved, Zenon DEF Coherent, ConsInv, OnePlace
<1>6. OneLocal' /\ \A k \in Items : InLocal(k)' <=> InLocal(k)
  BY <1>0, SameLocals, Zenon DEF ConsInv, OnePlace
<1>7. \A k \in Items : \A e \in Containers :
        In(k, e)' <=> IF k = x[2] THEN e = "dropped" ELSE In(k, e)
  BY ONLY <1>0, <1>2, <1>3, <1>4, <1>5, <1>6 DEF In, Containers
<1> QED BY <1>1, <1>3, <1>4, <1>5, <1>6, <1>7, Arrived, Names, Zenon

(* The timeout thread fires a timer: it goes to the global queue.          *)
LEMMA fire_queued ==
    ASSUME Coherent, ConsInv, NEW w \in Workers, fire(w), enqueue
    PROVE  ConsInv' /\ \E x \in timeouts : Moves(x[2], "timers", "sync")
<1>0. PICK x \in timeouts :
        /\ timeouts' = timeouts \ {x} /\ syncq' = syncq \cup {x[2]}
        /\ UNCHANGED <<fresh, finished, cleared, dropped, call, running, local>>
  BY Zenon DEF fire
<1>1. x[2] \in Items /\ In(x[2], "timers")
  BY <1>0, ItemFacts, Zenon DEF Coherent, TypeOK, TimersOK, In, InTimers
<1>2. \A e \in Containers : In(x[2], e) <=> e = "timers" BY <1>1, OnlyIn, Names, Zenon DEF ConsInv
<1>3. OneCall' /\ \A k \in Items : InCall(k)' <=> InCall(k)
  BY <1>0, SameCalls, Zenon DEF ConsInv, OnePlace
<1>4. OneRun' /\ \A k \in Items : InRun(k)' <=> InRun(k)
  BY <1>0, SameRuns, Zenon DEF ConsInv, OnePlace
<1>5. OneTimer' /\ \A k \in Items : InTimers(k)' <=> InTimers(k) /\ k # x[2]
  BY <1>0, TimerRemoved, Zenon DEF Coherent, ConsInv, OnePlace
<1>6. OneLocal' /\ \A k \in Items : InLocal(k)' <=> InLocal(k)
  BY <1>0, SameLocals, Zenon DEF ConsInv, OnePlace
<1>7. \A k \in Items : \A e \in Containers :
        In(k, e)' <=> IF k = x[2] THEN e = "sync" ELSE In(k, e)
  BY ONLY <1>0, <1>2, <1>3, <1>4, <1>5, <1>6 DEF In, Containers
<1> QED BY <1>1, <1>3, <1>4, <1>5, <1>6, <1>7, Arrived, Names, Zenon

(* The timeout thread fires a timer while work is refused.                 *)
LEMMA fire_dropped ==
    ASSUME Coherent, ConsInv, NEW w \in Workers, fire(w), ~enqueue
    PROVE  ConsInv' /\ \E x \in timeouts : Moves(x[2], "timers", "dropped")
<1>0. PICK x \in timeouts :
        /\ timeouts' = timeouts \ {x} /\ dropped' = dropped \cup {x[2]}
        /\ UNCHANGED <<fresh, finished, cleared, syncq, call, running, local>>
  BY Zenon DEF fire
<1>1. x[2] \in Items /\ In(x[2], "timers")
  BY <1>0, ItemFacts, Zenon DEF Coherent, TypeOK, TimersOK, In, InTimers
<1>2. \A e \in Containers : In(x[2], e) <=> e = "timers" BY <1>1, OnlyIn, Names, Zenon DEF ConsInv
<1>3. OneCall' /\ \A k \in Items : InCall(k)' <=> InCall(k)
  BY <1>0, SameCalls, Zenon DEF ConsInv, OnePlace
<1>4. OneRun' /\ \A k \in Items : InRun(k)' <=> InRun(k)
  BY <1>0, SameRuns, Zenon DEF ConsInv, OnePlace
<1>5. OneTimer' /\ \A k \in Items : InTimers(k)' <=> InTimers(k) /\ k # x[2]
  BY <1>0, TimerRemoved, Zenon DEF Coherent, ConsInv, OnePlace
<1>6. OneLocal' /\ \A k \in Items : InLocal(k)' <=> InLocal(k)
  BY <1>0, SameLocals, Zenon DEF ConsInv, OnePlace
<1>7. \A k \in Items : \A e \in Containers :
        In(k, e)' <=> IF k = x[2] THEN e = "dropped" ELSE In(k, e)
  BY ONLY <1>0, <1>2, <1>3, <1>4, <1>5, <1>6 DEF In, Containers
<1> QED BY <1>1, <1>3, <1>4, <1>5, <1>6, <1>7, Arrived, Names, Zenon

(* A worker takes a callback from the global queue ...                     *)
LEMMA dequeue_moves ==
    ASSUME Coherent, ConsInv, NEW w \in Workers, dequeue(w), NEW i \in syncq,
           syncq' = syncq \ {i}, running' = [running EXCEPT ![w] = i]
    PROVE  ConsInv' /\ Moves(i, "sync", "run")
<1>0. /\ pc[w] \in {"dequeue", "poll"} /\ syncq' = syncq \ {i}
      /\ UNCHANGED <<fresh, finished, cleared, dropped, call, timeouts, local>>
  BY Zenon DEF dequeue, timers, history
<1>1. i \in Items /\ In(i, "sync") BY Zenon DEF Coherent, TypeOK, QueueOK, In
<1>2. \A e \in Containers : In(i, e) <=> e = "sync" BY <1>1, OnlyIn, Names, Zenon DEF ConsInv
<1>3. OneCall' /\ \A k \in Items : InCall(k)' <=> InCall(k)
  BY <1>0, SameCalls, Zenon DEF ConsInv, OnePlace
<1>4. OneRun' /\ \A k \in Items : InRun(k)' <=> InRun(k) \/ k = i
  <2>1. running[w] = None BY <1>0, Zenon DEF Coherent, Consistent, WorkersHold
  <2>2. ~InRun(i) BY <1>2, Names, Zenon DEF In
  <2> QED BY <1>1, <2>1, <2>2, RunBegins, Zenon DEF Coherent, ConsInv, OnePlace
<1>5. OneTimer' /\ \A k \in Items : InTimers(k)' <=> InTimers(k)
  BY <1>0, SameTimers, Zenon DEF ConsInv, OnePlace
<1>6. OneLocal' /\ \A k \in Items : InLocal(k)' <=> InLocal(k)
  BY <1>0, SameLocals, Zenon DEF ConsInv, OnePlace
<1>7. \A k \in Items : \A e \in Containers :
        In(k, e)' <=> IF k = i THEN e = "run" ELSE In(k, e)
  BY ONLY <1>0, <1>2, <1>3, <1>4, <1>5, <1>6 DEF In, Containers
<1> QED BY <1>1, <1>3, <1>4, <1>5, <1>6, <1>7, Arrived, Names, Zenon

(* ... or from its private queue.                                          *)
LEMMA take_local_moves ==
    ASSUME Coherent, ConsInv, NEW w \in Workers, take_local(w), local[w] # <<>>
    PROVE  ConsInv' /\ Moves(Head(local[w]), "local", "run")
<1>0. /\ pc[w] = "top" /\ running' = [running EXCEPT ![w] = Head(local[w])]
      /\ local' = [local EXCEPT ![w] = Tail(local[w])]
      /\ UNCHANGED <<fresh, finished, cleared, dropped, syncq, call, timeouts>>
  BY Zenon DEF take_local, timers, history
<1>1. Head(local[w]) \in Items /\ In(Head(local[w]), "local")
  <2>1. local[w] \in Seq(Items) BY Zenon DEF Coherent, TypeOK, ThreadsOK
  <2>2. 1 \in 1..Len(local[w]) /\ Head(local[w]) = local[w][1] /\ local[w][1] \in Items
    BY <2>1
  <2> QED BY <2>2, Zenon DEF In, InLocal
<1>2. \A e \in Containers : In(Head(local[w]), e) <=> e = "local" BY <1>1, OnlyIn, Names, Zenon DEF ConsInv
<1>3. OneCall' /\ \A k \in Items : InCall(k)' <=> InCall(k)
  BY <1>0, SameCalls, Zenon DEF ConsInv, OnePlace
<1>4. OneRun' /\ \A k \in Items : InRun(k)' <=> InRun(k) \/ k = Head(local[w])
  <2>1. running[w] = None BY <1>0, Zenon DEF Coherent, Consistent, WorkersHold
  <2>2. ~InRun(Head(local[w])) BY <1>2, Names, Zenon DEF In
  <2> QED BY <1>0, <1>1, <2>1, <2>2, RunBegins, Zenon DEF Coherent, ConsInv, OnePlace
<1>5. OneTimer' /\ \A k \in Items : InTimers(k)' <=> InTimers(k)
  BY <1>0, SameTimers, Zenon DEF ConsInv, OnePlace
<1>6. OneLocal' /\ \A k \in Items : InLocal(k)' <=> InLocal(k) /\ k # Head(local[w])
  BY <1>0, LocalTaken, Zenon DEF Coherent, ConsInv, OnePlace
<1>7. \A k \in Items : \A e \in Containers :
        In(k, e)' <=> IF k = Head(local[w]) THEN e = "run" ELSE In(k, e)
  BY ONLY <1>0, <1>2, <1>3, <1>4, <1>5, <1>6 DEF In, Containers
<1> QED BY <1>1, <1>3, <1>4, <1>5, <1>6, <1>7, Arrived, Names, Zenon

(* A worker that exits gives a recycled task back.                         *)
LEMMA flush_local_moves ==
    ASSUME Coherent, ConsInv, NEW w \in Workers, flush_local(w), local[w] # <<>>
    PROVE  ConsInv' /\ Moves(Head(local[w]), "local", "sync")
<1>0. /\ syncq' = syncq \cup {Head(local[w])}
      /\ local' = [local EXCEPT ![w] = Tail(local[w])]
      /\ UNCHANGED <<fresh, finished, cleared, dropped, call, running, timeouts>>
  BY Zenon DEF flush_local, timers, history
<1>1. Head(local[w]) \in Items /\ In(Head(local[w]), "local")
  <2>1. local[w] \in Seq(Items) BY Zenon DEF Coherent, TypeOK, ThreadsOK
  <2>2. 1 \in 1..Len(local[w]) /\ Head(local[w]) = local[w][1] /\ local[w][1] \in Items
    BY <2>1
  <2> QED BY <2>2, Zenon DEF In, InLocal
<1>2. \A e \in Containers : In(Head(local[w]), e) <=> e = "local" BY <1>1, OnlyIn, Names, Zenon DEF ConsInv
<1>3. OneCall' /\ \A k \in Items : InCall(k)' <=> InCall(k)
  BY <1>0, SameCalls, Zenon DEF ConsInv, OnePlace
<1>4. OneRun' /\ \A k \in Items : InRun(k)' <=> InRun(k)
  BY <1>0, SameRuns, Zenon DEF ConsInv, OnePlace
<1>5. OneTimer' /\ \A k \in Items : InTimers(k)' <=> InTimers(k)
  BY <1>0, SameTimers, Zenon DEF ConsInv, OnePlace
<1>6. OneLocal' /\ \A k \in Items : InLocal(k)' <=> InLocal(k) /\ k # Head(local[w])
  BY <1>0, LocalTaken, Zenon DEF Coherent, ConsInv, OnePlace
<1>7. \A k \in Items : \A e \in Containers :
        In(k, e)' <=> IF k = Head(local[w]) THEN e = "sync" ELSE In(k, e)
  BY ONLY <1>0, <1>2, <1>3, <1>4, <1>5, <1>6 DEF In, Containers
<1> QED BY <1>1, <1>3, <1>4, <1>5, <1>6, <1>7, Arrived, Names, Zenon

(* A callback that returns has run for good, unless it is re-armed.        *)
LEMMA return_task_moves ==
    ASSUME Coherent, ConsInv, NEW w \in Workers, return_task(w), running[w] \notin rearms
    PROVE  ConsInv' /\ Moves(running[w], "run", "finished")
<1>0. /\ pc[w] = "run" /\ running' = [running EXCEPT ![w] = None]
      /\ finished' = finished \cup {running[w]}
      /\ UNCHANGED <<fresh, cleared, dropped, syncq, call, timeouts, local>>
  BY Zenon DEF return_task, timers
<1>1. running[w] \in Items /\ In(running[w], "run")
  BY <1>0, ItemFacts, Zenon DEF Coherent, TypeOK, ThreadsOK, Consistent, WorkersHold, In, InRun
<1>2. \A e \in Containers : In(running[w], e) <=> e = "run" BY <1>1, OnlyIn, Names, Zenon DEF ConsInv
<1>3. OneCall' /\ \A k \in Items : InCall(k)' <=> InCall(k)
  BY <1>0, SameCalls, Zenon DEF ConsInv, OnePlace
<1>4. OneRun' /\ \A k \in Items : InRun(k)' <=> InRun(k) /\ k # running[w]
  BY <1>0, RunEnds, Zenon DEF Coherent, ConsInv, OnePlace
<1>5. OneTimer' /\ \A k \in Items : InTimers(k)' <=> InTimers(k)
  BY <1>0, SameTimers, Zenon DEF ConsInv, OnePlace
<1>6. OneLocal' /\ \A k \in Items : InLocal(k)' <=> InLocal(k)
  BY <1>0, SameLocals, Zenon DEF ConsInv, OnePlace
<1>7. \A k \in Items : \A e \in Containers :
        In(k, e)' <=> IF k = running[w] THEN e = "finished" ELSE In(k, e)
  BY ONLY <1>0, <1>2, <1>3, <1>4, <1>5, <1>6 DEF In, Containers
<1> QED BY <1>1, <1>3, <1>4, <1>5, <1>6, <1>7, Arrived, Names, Zenon

(* An interval whose callback returned is armed again.                     *)
LEMMA rearm_moves ==
    ASSUME Coherent, FreeKeys, ConsInv, NEW w \in Workers, rearm(w)
    PROVE  ConsInv' /\ Moves(running[w], "run", "timers")
<1>0. /\ pc[w] = "rearm" /\ running' = [running EXCEPT ![w] = None]
      /\ timeouts' = Emplaced(get_timeout(clock + Delay[running[w]]), running[w])
      /\ UNCHANGED <<fresh, finished, cleared, dropped, syncq, call, local>>
  BY Zenon DEF rearm, history
<1>1. running[w] \in Items /\ In(running[w], "run")
  BY <1>0, ItemFacts, Zenon DEF Coherent, TypeOK, ThreadsOK, Consistent, WorkersHold, In, InRun
<1>2. \A e \in Containers : In(running[w], e) <=> e = "run" BY <1>1, OnlyIn, Names, Zenon DEF ConsInv
<1>3. OneCall' /\ \A k \in Items : InCall(k)' <=> InCall(k)
  BY <1>0, SameCalls, Zenon DEF ConsInv, OnePlace
<1>4. OneRun' /\ \A k \in Items : InRun(k)' <=> InRun(k) /\ k # running[w]
  BY <1>0, RunEnds, Zenon DEF Coherent, ConsInv, OnePlace
<1>5. OneTimer' /\ \A k \in Items : InTimers(k)' <=> InTimers(k) \/ k = running[w]
  <2>1. running[w] \in Intervals BY <1>0, Zenon DEF Coherent, Consistent, WorkersHold
  <2>2. clock + Delay[running[w]] \in Nat
    BY <2>1, ItemFacts, ConstantsAssumption DEF Coherent, TypeOK, TimersOK
  <2>3. PICK key \in Nat : timeouts' = timeouts \cup {<<key, running[w]>>}
    BY <1>0, <2>2, Zenon DEF FreeKeys, Emplaced
  <2>4. ~InTimers(running[w]) BY <1>2, Names, Zenon DEF In
  <2> QED BY <1>1, <2>3, <2>4, TimerAdded, Zenon DEF Coherent, ConsInv, OnePlace
<1>6. OneLocal' /\ \A k \in Items : InLocal(k)' <=> InLocal(k)
  BY <1>0, SameLocals, Zenon DEF ConsInv, OnePlace
<1>7. \A k \in Items : \A e \in Containers :
        In(k, e)' <=> IF k = running[w] THEN e = "timers" ELSE In(k, e)
  BY ONLY <1>0, <1>2, <1>3, <1>4, <1>5, <1>6 DEF In, Containers
<1> QED BY <1>1, <1>3, <1>4, <1>5, <1>6, <1>7, Arrived, Names, Zenon

(* stop() drops the timers that are left in the map.                       *)
LEMMA stop_finish_moves ==
    ASSUME Coherent, ConsInv, NEW p \in Threads, stop_finish(p)
    PROVE  ConsInv' /\ TimersDropped
<1>0. /\ exclusive = p /\ call' = [call EXCEPT ![p] = Idle]
      /\ timeouts' = {} /\ dropped' = dropped \cup Armed
      /\ UNCHANGED <<fresh, finished, cleared, syncq, running, local>>
  BY Zenon DEF stop_finish
<1>1. \A i \in Items : InTimers(i) => \A e \in Containers : In(i, e) <=> e = "timers"
  <2>1. \A i \in Items : InTimers(i) => In(i, "timers") BY Zenon DEF In
  <2> QED BY <2>1, OnlyIn, Names, Zenon DEF ConsInv
<1>2. \A i \in Items : i \in Armed <=> InTimers(i) BY Zenon DEF Armed, InTimers
<1>3. OneCall' /\ \A k \in Items : InCall(k)' <=> InCall(k)
  <2>1. call[p] = Stopping BY <1>0, ItemFacts, Zenon DEF Coherent, Consistent, Lifecycle
  <2>2. \A q \in Threads : call'[q].item = call[q].item
    BY <1>0, <2>1 DEF Coherent, TypeOK, CallsOK, Stopping, Idle
  <2> QED BY <2>2, SameCalls, Zenon DEF ConsInv, OnePlace
<1>4. OneRun' /\ \A k \in Items : InRun(k)' <=> InRun(k)
  BY <1>0, SameRuns, Zenon DEF ConsInv, OnePlace
<1>5. OneTimer' /\ \A k \in Items : ~InTimers(k)' BY <1>0, Zenon DEF OneTimer, InTimers
<1>6. OneLocal' /\ \A k \in Items : InLocal(k)' <=> InLocal(k)
  BY <1>0, SameLocals, Zenon DEF ConsInv, OnePlace
<1>7. \A k \in Items : \A e \in Containers :
        In(k, e)' <=> IF InTimers(k) THEN e = "dropped" ELSE In(k, e)
  BY ONLY <1>0, <1>1, <1>2, <1>3, <1>4, <1>5, <1>6 DEF In, Containers
<1>8. OneContainer' BY <1>7, Names DEF ConsInv, OneContainer
<1> QED BY <1>3, <1>4, <1>5, <1>6, <1>7, <1>8, Zenon DEF ConsInv, OnePlace, TimersDropped

-----------------------------------------------------------------------------
(* At first every item is fresh.                                           *)
LEMMA InitConsInv == Init => ConsInv
<1> SUFFICES ASSUME Init PROVE ConsInv BY Zenon
<1> USE ItemFacts
<1>1. OnePlace BY DEF Init, OnePlace, OneCall, OneRun, OneTimer, OneLocal, Idle
<1>2. \A i \in Items : ~InCall(i) /\ ~InRun(i) /\ ~InTimers(i) /\ ~InLocal(i)
  BY DEF Init, InCall, InRun, InTimers, InLocal, Idle
<1>3. \A i \in Items : \A d \in Containers : In(i, d) <=> d = "fresh"
  BY <1>2 DEF Init, In, Containers
<1>4. OneContainer BY ONLY <1>3, Names, Zenon DEF OneContainer
<1> QED BY <1>1, <1>4, Zenon DEF ConsInv

(* The ways of an item into a container, out of the map of timers, out of  *)
(* a queue and out of the hands of a worker.                               *)
LEMMA WaysIn ==
    /\ \A i : Moves(i, "fresh", "call") => OnItsWay
    /\ \A i \in Tasks : Moves(i, "call", "sync") \/ Moves(i, "call", "local") => OnItsWay
    /\ \A i \in Timers : Moves(i, "call", "timers") => OnItsWay
<1>1. \A i, c, d : Moves(i, c, d) => i \in Items BY Zenon DEF Moves
<1> QED BY <1>1, Zenon DEF OnItsWay, Journey

(* Out of the map of timers.                                               *)
LEMMA WaysOfTimers ==
    /\ TimersDropped => OnItsWay
    /\ \A i : \A d \in {"sync", "cleared", "dropped"} : Moves(i, "timers", d) => OnItsWay
<1>1. \A i, c, d : Moves(i, c, d) => i \in Items BY Zenon DEF Moves
<1> QED BY <1>1, Zenon DEF OnItsWay, Journey

(* Out of a queue.                                                         *)
LEMMA WaysOfTasks ==
    /\ \A i : Moves(i, "local", "sync") => OnItsWay
    /\ \A i : \A c \in {"sync", "local"} : Moves(i, c, "run") => OnItsWay
<1>1. \A i, c, d : Moves(i, c, d) => i \in Items BY Zenon DEF Moves
<1> QED BY <1>1, Zenon DEF OnItsWay, Journey

(* Out of the hands of a worker.                                           *)
LEMMA WaysOut ==
    /\ \A i : Moves(i, "run", "finished") => OnItsWay
    /\ \A i \in Intervals : Moves(i, "run", "timers") => OnItsWay
<1>1. \A i, c, d : Moves(i, c, d) => i \in Items BY Zenon DEF Moves
<1> QED BY <1>1, Zenon DEF OnItsWay, Journey

(* A step of a worker moves at most one item.                              *)
LEMMA WorkerConsInv ==
    ASSUME Coherent, FreeKeys, ConsInv, NEW w \in Workers, trigger_thread(w)
    PROVE  ConsInv' /\ OnItsWay
<1>1. CASE boot(w) BY <1>1, NothingMoved, Zenon DEF boot, timers, history
<1>2. CASE sleep_thread(w) BY <1>2, NothingMoved, Zenon DEF sleep_thread, timers, history
<1>3. CASE dequeue(w)
  <2>1. CASE \E i \in syncq : syncq' = syncq \ {i} /\ running' = [running EXCEPT ![w] = i]
    BY <1>3, <2>1, dequeue_moves, WaysOfTasks, Zenon
  <2>2. CASE UNCHANGED <<syncq, running>> BY <1>3, <2>2, NothingMoved, Zenon DEF dequeue, timers, history
  <2> QED BY <1>3, <2>1, <2>2, Zenon DEF dequeue
<1>4. CASE return_task(w)
  <2>1. CASE running[w] \in rearms BY <1>4, <2>1, NothingMoved, Zenon DEF return_task, timers, history
  <2> QED BY <1>4, <2>1, return_task_moves, WaysOut, Zenon
<1>5. CASE rearm(w)
  <2>1. running[w] \in Intervals BY <1>5, Zenon DEF Coherent, Consistent, WorkersHold, rearm
  <2> QED BY <1>5, <2>1, rearm_moves, WaysOut, Zenon
<1>6. CASE thread_active(w) BY <1>6, NothingMoved, Zenon DEF thread_active, timers, history
<1>7. CASE take_local(w)
  <2>1. CASE local[w] = <<>> BY <1>7, <2>1, NothingMoved, Zenon DEF take_local, timers, history
  <2> QED BY <1>7, <2>1, take_local_moves, WaysOfTasks, Zenon
<1>8. CASE flush_local(w)
  <2>1. CASE local[w] = <<>> BY <1>8, <2>1, NothingMoved, Zenon DEF flush_local, timers, history
  <2> QED BY <1>8, <2>1, flush_local_moves, WaysOfTasks, Zenon
<1>9. CASE lock_timers(w) BY <1>9, NothingMoved, Zenon DEF lock_timers, timers, history
<1>10. CASE fire(w) BY <1>10, fire_queued, fire_dropped, WaysOfTimers, Zenon
<1>11. CASE wait_timers(w) BY <1>11, NothingMoved, Zenon DEF wait_timers, timers, history
<1>12. CASE wake_timers(w) BY <1>12, NothingMoved, Zenon DEF wake_timers, timers, history
<1> QED
  BY <1>1, <1>2, <1>3, <1>4, <1>5, <1>6, <1>7, <1>8, <1>9, <1>10, <1>11, <1>12, Zenon
     DEF trigger_thread

(* A step of a call moves the item of the call, timers, or nothing.        *)
LEMMA CallConsInv ==
    ASSUME Coherent, FreeKeys, ConsInv, NEW p \in Threads,
           Submit(p) \/ Submitting(p) \/ StopSteps(p) \/ Control(p)
    PROVE  ConsInv' /\ OnItsWay
<1>1. CASE Submit(p)
  <2>1. CASE trigger_timers(p)
    <3>1. \A q \in Threads : call'[q].item = call[q].item
      BY <2>1, SameItems DEF trigger_timers, CanCall, Idle, Triggering
    <3> QED BY <2>1, <3>1, NothingMoved, Zenon DEF trigger_timers, timers, history
  <2>2. ASSUME NEW i \in Tasks, set_task(p, i) PROVE ConsInv' /\ OnItsWay
    BY <2>2, set_task_moves, WaysIn, Zenon
  <2>3. ASSUME NEW i \in Timers, set_timer(p, i) PROVE ConsInv' /\ OnItsWay
    BY <2>3, set_timer_moves, WaysIn, Zenon
  <2>4. ASSUME NEW i \in Timers, clear_timeout(p, i) PROVE ConsInv' /\ OnItsWay
    BY <2>4, clear_timeout_moves, WaysOfTimers, Zenon
  <2> QED BY <1>1, <2>1, <2>2, <2>3, <2>4, Zenon DEF Submit
<1>2. CASE Submitting(p)
  <2>1. ASSUME NEW recyclable \in BOOLEAN, set_task_enqueue(p, recyclable)
        PROVE  ConsInv' /\ OnItsWay
    <3>0. call[p].item \in Tasks BY <2>1, Zenon DEF Coherent, Consistent, CallsHold, set_task_enqueue
    <3>1. CASE recyclable /\ CanBypass(p)
      <4>1. recyclable = TRUE BY <3>1, Zenon
      <4> QED BY <2>1, <3>0, <3>1, <4>1, set_task_recycled, WaysIn, Zenon
    <3> QED BY <2>1, <3>0, <3>1, set_task_queued, WaysIn, Zenon
  <2>2. CASE trigger_timers_next(p)
    BY <2>2, trigger_timers_next_queued, trigger_timers_next_dropped, WaysOfTimers, Zenon
  <2>3. CASE trigger_timers_done(p)
    <3>1. \A q \in Threads : call'[q].item = call[q].item
      BY <2>3, SameItems DEF trigger_timers_done, Idle, Triggering
    <3> QED BY <2>3, <3>1, NothingMoved, Zenon DEF trigger_timers_done, timers, history
  <2>4. CASE set_timer_emplace(p)
    <3>1. call[p].item \in Timers BY <2>4, Zenon DEF Coherent, Consistent, CallsHold, set_timer_emplace
    <3> QED BY <2>4, <3>1, set_timer_emplace_moves, WaysIn, Zenon
  <2> QED BY <1>2, <2>1, <2>2, <2>3, <2>4, Zenon DEF Submitting
<1>3. CASE StopSteps(p)
  <2>1. CASE stop_lock(p)
    <3>1. \A q \in Threads : call'[q].item = call[q].item
      BY <2>1, SameItems DEF stop_lock, Idle, Stopping
    <3> QED BY <2>1, <3>1, NothingMoved, Zenon DEF stop_lock, timers, history
  <2>2. CASE stop_wakeup(p) BY <2>2, NothingMoved, Zenon DEF stop_wakeup, wakeup, timers, history
  <2>3. CASE stop_join(p)
    <3>1. call[p].item = None
      BY <2>3, ItemFacts DEF stop_join, Coherent, Consistent, Lifecycle, Stopping
    <3>2. \A q \in Threads : call'[q].item = call[q].item
      <4>1. call' = call \/ call' = [call EXCEPT ![p] = Idle] BY <2>3, Zenon DEF stop_join
      <4>2. CASE call' = [call EXCEPT ![p] = Idle] BY <3>1, <4>2, SameItems, Zenon DEF Idle
      <4> QED BY <4>1, <4>2, Zenon
    <3> QED BY <2>3, <3>2, NothingMoved, Zenon DEF stop_join, timers, history
  <2>4. CASE stop_finish(p) BY <2>4, stop_finish_moves, WaysOfTimers, Zenon
  <2> QED BY <1>3, <2>1, <2>2, <2>3, <2>4, Zenon DEF StopSteps
<1>4. CASE Control(p)
  <2>1. CASE start(p) BY <2>1, NothingMoved, Zenon DEF start, timers, history
  <2>2. CASE stop(p)
    <3>1. \A q \in Threads : call'[q].item = call[q].item
      BY <2>2, SameItems DEF stop, CanCall, Idle, Stopping
    <3> QED BY <2>2, <3>1, NothingMoved, Zenon DEF stop, timers, history
  <2>3. CASE suspend(p) BY <2>3, NothingMoved, Zenon DEF suspend, timers, history
  <2>4. CASE resume(p) BY <2>4, NothingMoved, Zenon DEF resume, wakeup, timers, history
  <2> QED BY <1>4, <2>1, <2>2, <2>3, <2>4, Zenon DEF Control
<1> QED BY <1>1, <1>2, <1>3, <1>4, Zenon

(* Every step of the schedule keeps ConsInv and moves items on their way.  *)
LEMMA NextConsInv ==
    Coherent /\ FreeKeys /\ ConsInv /\ [Next]_vars => ConsInv' /\ OnItsWay
<1> SUFFICES ASSUME Coherent, FreeKeys, ConsInv, [Next]_vars PROVE ConsInv' /\ OnItsWay BY Zenon
<1>1. CASE tick BY <1>1, NothingMoved, Zenon DEF tick, timers, history
<1>2. CASE UNCHANGED vars BY <1>2, NothingMoved, Zenon DEF vars, timers, history
<1> QED BY <1>1, <1>2, WorkerConsInv, CallConsInv, Zenon DEF Next
=============================================================================
