---------------------------- MODULE SchedulerPool ----------------------------
(***************************************************************************)
(* Scheduler loses and duplicates nothing, and implements TaskPool: what   *)
(* its submitters may rely on.  Both follow from the moves of its items.   *)
(***************************************************************************)
EXTENDS SchedulerProofs, SchedulerMoves

(* While the timers are well formed, get_timeout finds a free key.         *)
LEMMA KeysAreFree == Coherent => FreeKeys
BY FreeKey, Zenon DEF Coherent, TypeOK, TimersOK, FreeKeys

-----------------------------------------------------------------------------
(* Places lists what In and OnePlace speak about.                          *)
LEMMA OneOfPlaces ==
    ASSUME Coherent, ConsInv, NEW i \in Items
    PROVE  \E x \in Places(i) : Places(i) = {x}
<1> USE DEF ConsInv, OnePlace, Coherent
<1>1. \A x : x \in Places(i) <=>
        \/ x = <<"fresh", None, 0>> /\ i \in fresh
        \/ x = <<"finished", None, 0>> /\ i \in finished
        \/ x = <<"cleared", None, 0>> /\ i \in cleared
        \/ x = <<"dropped", None, 0>> /\ i \in dropped
        \/ x = <<"sync", None, 0>> /\ i \in syncq
        \/ \E p \in Threads : x = <<"call", p, 0>> /\ call[p].item = i
        \/ \E w \in Workers : x = <<"run", w, 0>> /\ running[w] = i
        \/ \E e \in timeouts : x = <<"timer", None, e[1]>> /\ e[2] = i
        \/ \E w \in Workers : \E n \in 1..Len(local[w]) :
               x = <<"local", w, n>> /\ local[w][n] = i
  <2> DEFINE inCall == {<<"call", p, 0>> : p \in {q \in Threads : call[q].item = i}}
             inRun == {<<"run", w, 0>> : w \in {v \in Workers : running[v] = i}}
             inTimers == {<<"timer", None, e[1]>> : e \in {o \in timeouts : o[2] = i}}
             at(w) == {<<"local", w, n>> : n \in {m \in 1..Len(local[w]) : local[w][m] = i}}
             inLocal == UNION {at(w) : w \in Workers}
  <2>1. \A x : x \in inCall <=> \E p \in Threads : x = <<"call", p, 0>> /\ call[p].item = i
    BY Zenon
  <2>2. \A x : x \in inRun <=> \E w \in Workers : x = <<"run", w, 0>> /\ running[w] = i
    BY Zenon
  <2>3. \A x : x \in inTimers <=> \E e \in timeouts : x = <<"timer", None, e[1]>> /\ e[2] = i
    BY Zenon
  <2>4. \A x : x \in inLocal <=>
          \E w \in Workers : \E n \in 1..Len(local[w]) : x = <<"local", w, n>> /\ local[w][n] = i
    <3>1. \A w, x : x \in at(w) <=> \E n \in 1..Len(local[w]) :
                                       x = <<"local", w, n>> /\ local[w][n] = i
      BY Zenon
    <3> HIDE DEF at
    <3> QED BY <3>1
  <2>5. Places(i) = {x \in {<<"fresh", None, 0>>} : i \in fresh}
                    \cup {x \in {<<"finished", None, 0>>} : i \in finished}
                    \cup {x \in {<<"cleared", None, 0>>} : i \in cleared}
                    \cup {x \in {<<"dropped", None, 0>>} : i \in dropped}
                    \cup {x \in {<<"sync", None, 0>>} : i \in syncq}
                    \cup inCall \cup inRun \cup inTimers \cup inLocal
    BY Zenon DEF Places
  <2> HIDE DEF inCall, inRun, inTimers, inLocal
  <2> QED BY <2>1, <2>2, <2>3, <2>4, <2>5, Zenon
<1>2. PICK c \in Containers : \A d \in Containers : In(i, d) <=> c = d BY Zenon DEF OneContainer
<1>3. \E x \in Places(i) : Places(i) = {x}
  <2>1. /\ i \in fresh <=> c = "fresh"
        /\ i \in finished <=> c = "finished"
        /\ i \in cleared <=> c = "cleared"
        /\ i \in dropped <=> c = "dropped"
        /\ i \in syncq <=> c = "sync"
    BY <1>2, Names, Zenon DEF In
  <2>2. /\ (\E p \in Threads : call[p].item = i) <=> c = "call"
        /\ (\E w \in Workers : running[w] = i) <=> c = "run"
        /\ (\E e \in timeouts : e[2] = i) <=> c = "timers"
        /\ (\E w \in Workers : \E n \in 1..Len(local[w]) : local[w][n] = i) <=> c = "local"
    BY <1>2, Names, Zenon DEF In, InCall, InRun, InTimers, InLocal
  <2>3. CASE c = "fresh"
    <3> DEFINE here == <<"fresh", None, 0>>
    <3>1. \A y : y \in Places(i) <=> y = here BY <1>1, <2>1, <2>2, <2>3
    <3> HIDE DEF here
    <3> QED BY ONLY <3>1
  <2>4. CASE c = "finished"
    <3> DEFINE here == <<"finished", None, 0>>
    <3>1. \A y : y \in Places(i) <=> y = here BY <1>1, <2>1, <2>2, <2>4
    <3> HIDE DEF here
    <3> QED BY ONLY <3>1
  <2>5. CASE c = "cleared"
    <3> DEFINE here == <<"cleared", None, 0>>
    <3>1. \A y : y \in Places(i) <=> y = here BY <1>1, <2>1, <2>2, <2>5
    <3> HIDE DEF here
    <3> QED BY ONLY <3>1
  <2>6. CASE c = "dropped"
    <3> DEFINE here == <<"dropped", None, 0>>
    <3>1. \A y : y \in Places(i) <=> y = here BY <1>1, <2>1, <2>2, <2>6
    <3> HIDE DEF here
    <3> QED BY ONLY <3>1
  <2>7. CASE c = "sync"
    <3> DEFINE here == <<"sync", None, 0>>
    <3>1. \A y : y \in Places(i) <=> y = here BY <1>1, <2>1, <2>2, <2>7
    <3> HIDE DEF here
    <3> QED BY ONLY <3>1
  <2>8. CASE c = "call"
    <3>1. PICK p \in Threads : call[p].item = i BY <2>2, <2>8, Zenon
    <3>2. \A q \in Threads : call[q].item = i => q = p BY <3>1, ThreadFacts, Zenon DEF OneCall
    <3> DEFINE here == <<"call", p, 0>>
    <3>3. \A y : y \in Places(i) <=> y = here BY <1>1, <2>1, <2>2, <2>8, <3>1, <3>2
    <3> HIDE DEF here
    <3> QED BY ONLY <3>3
  <2>9. CASE c = "run"
    <3>1. PICK w \in Workers : running[w] = i BY <2>2, <2>9, Zenon
    <3>2. \A v \in Workers : running[v] = i => v = w BY <3>1, ThreadFacts, Zenon DEF OneRun
    <3> DEFINE here == <<"run", w, 0>>
    <3>3. \A y : y \in Places(i) <=> y = here BY <1>1, <2>1, <2>2, <2>9, <3>1, <3>2
    <3> HIDE DEF here
    <3> QED BY ONLY <3>3
  <2>10. CASE c = "timers"
    <3>1. PICK e \in timeouts : e[2] = i BY <2>2, <2>10, Zenon
    <3>2. \A d \in timeouts : d[2] = i => d = e BY <3>1, Zenon DEF OneTimer
    <3> DEFINE here == <<"timer", None, e[1]>>
    <3>3. \A y : y \in Places(i) <=> y = here
      BY <1>1, <2>1, <2>2, <2>10, <3>1, <3>2
    <3> HIDE DEF here
    <3> QED BY ONLY <3>3
  <2>11. CASE c = "local"
    <3>1. PICK w \in Workers : \E n \in 1..Len(local[w]) : local[w][n] = i BY <2>2, <2>11, Zenon
    <3>2. PICK n \in 1..Len(local[w]) : local[w][n] = i BY <3>1, Zenon
    <3>3. \A v \in Workers : \A m \in 1..Len(local[v]) : local[v][m] = i => v = w /\ m = n
      BY <3>2 DEF OneLocal
    <3> DEFINE here == <<"local", w, n>>
    <3>4. \A y : y \in Places(i) <=> y = here
      BY <1>1, <2>1, <2>2, <2>11, <3>2, <3>3
    <3> HIDE DEF here
    <3> QED BY ONLY <3>4
  <2> QED
    BY <2>3, <2>4, <2>5, <2>6, <2>7, <2>8, <2>9, <2>10, <2>11 DEF Containers
<1> QED BY <1>3, Zenon

(* No callback is lost and none is duplicated: whatever the number of      *)
(* workers, tasks and timers and however their steps interleave with       *)
(* start(), stop() and the flush of a worker that exits, an item is in     *)
(* exactly one place.                                                      *)
THEOREM SchedulerConserves == Spec => []Conservation
<1>1. Coherent /\ ConsInv => Conservation BY OneOfPlaces, Zenon DEF Conservation
<1> QED BY <1>1, InitConsInv, NextConsInv, KeysAreFree, ScheduleCoherent, PTL DEF Spec

-----------------------------------------------------------------------------
(* The refinement of TaskPool: the sets of the pool follow from where the  *)
(* items are.                                                              *)

(* Containers whose items the pool counts as waiting and as armed.         *)
Waits(i) == In(i, "sync") \/ In(i, "local") \/ (In(i, "call") /\ i \in Tasks)
Arms(i) == In(i, "timers") \/ (In(i, "call") /\ i \in Timers)

ArmedOrSubmitted == Armed \cup Submitted("arm")
Discarded == cleared \cup dropped

(* The refinement mapping in terms of In.                                  *)
PoolSets ==
    /\ fresh \subseteq Items /\ finished \subseteq Items
    /\ Discarded \subseteq Items
    /\ Waiting \subseteq Items /\ Running \subseteq Items /\ ArmedOrSubmitted \subseteq Items
    /\ \A i \in Items :
          /\ i \in fresh <=> In(i, "fresh")
          /\ i \in finished <=> In(i, "finished")
          /\ i \in Discarded <=> In(i, "cleared") \/ In(i, "dropped")
          /\ i \in Waiting <=> Waits(i)
          /\ i \in Running <=> In(i, "run")
          /\ i \in ArmedOrSubmitted <=> Arms(i)

LEMMA Mapping == Coherent => PoolSets
<1> SUFFICES ASSUME Coherent PROVE PoolSets BY Zenon
<1> USE ThreadFacts DEF Coherent
<1>1. \A i : i \in Submitted("push") <=> i \in Tasks /\ InCall(i)
  <2>1. \A p \in Threads : call[p].item \in Tasks => call[p].op = "push"
    BY DEF Consistent, CallsHold, Idle, Triggering, Stopping
  <2> QED BY <2>1, Zenon DEF Submitted, InCall, Consistent, CallsHold
<1>2. \A i : i \in Submitted("arm") <=> i \in Timers /\ InCall(i)
  <2>1. \A p \in Threads : call[p].item \in Timers => call[p].op = "arm"
    BY DEF Consistent, CallsHold, Idle, Triggering, Stopping
  <2> QED BY <2>1, Zenon DEF Submitted, InCall, Consistent, CallsHold
<1>3. \A i : i \in UNION {Elements(local[w]) : w \in Workers} <=> InLocal(i)
  <2>1. \A w : \A i : i \in Elements(local[w]) <=> \E n \in 1..Len(local[w]) : local[w][n] = i
    BY Zenon DEF Elements
  <2>2. \A i : (\E w \in Workers : i \in Elements(local[w])) <=> InLocal(i)
    BY ONLY <2>1, Zenon DEF InLocal
  <2>3. \A i : i \in UNION {Elements(local[w]) : w \in Workers}
                  <=> \E w \in Workers : i \in Elements(local[w])
    OBVIOUS
  <2> QED BY ONLY <2>2, <2>3, Zenon
<1>4. \A i : InLocal(i) => i \in Items BY DEF TypeOK, ThreadsOK, InLocal
<1>5. \A i : i \in Armed <=> InTimers(i) BY Zenon DEF Armed, InTimers
<1>6. \A i : InTimers(i) => i \in Timers BY Zenon DEF TypeOK, TimersOK, InTimers
<1>7. \A i : i \in Running <=> InRun(i) /\ i # None BY Zenon DEF Running, InRun
<1>8. \A i : InRun(i) => i \in Items \cup {None} BY Zenon DEF TypeOK, ThreadsOK, InRun
<1>9. /\ fresh \subseteq Items /\ finished \subseteq Items /\ syncq \subseteq Items
      /\ cleared \subseteq Items /\ dropped \subseteq Items
  BY Zenon DEF TypeOK, HistoryOK, QueueOK
<1>10. Waiting \subseteq Items /\ \A i \in Items : i \in Waiting <=> Waits(i)
  BY <1>1, <1>3, <1>4, <1>9 DEF Waiting, Waits, In
<1>11. ArmedOrSubmitted \subseteq Items /\ \A i \in Items : i \in ArmedOrSubmitted <=> Arms(i)
  BY <1>2, <1>5, <1>6 DEF ArmedOrSubmitted, Arms, In
<1>12. Running \subseteq Items /\ \A i \in Items : i \in Running <=> In(i, "run")
  BY <1>7, <1>8, Zenon DEF In
<1>13. \A i \in Items : /\ i \in fresh <=> In(i, "fresh")
                        /\ i \in finished <=> In(i, "finished")
                        /\ i \in Discarded <=> In(i, "cleared") \/ In(i, "dropped")
  BY Zenon DEF In, Discarded
<1> QED BY <1>9, <1>10, <1>11, <1>12, <1>13 DEF PoolSets, Discarded

(* Where the pool has the item that a step moves, before and after, and    *)
(* that it has all the others where it had them.                           *)
Others(i) ==
    \A k \in Items \ {i} :
        /\ k \in fresh' <=> k \in fresh
        /\ k \in finished' <=> k \in finished
        /\ k \in Discarded' <=> k \in Discarded
        /\ k \in Waiting' <=> k \in Waiting
        /\ k \in Running' <=> k \in Running
        /\ k \in ArmedOrSubmitted' <=> k \in ArmedOrSubmitted

LEMMA Moved ==
    ASSUME PoolSets, PoolSets', OneContainer, NEW i \in Items,
           NEW c \in Containers, NEW d \in Containers, Moves(i, c, d)
    PROVE  /\ Others(i)
           /\ i \in fresh <=> c = "fresh"
           /\ i \in finished <=> c = "finished"
           /\ i \in Discarded <=> c \in {"cleared", "dropped"}
           /\ i \in Waiting <=> c \in {"sync", "local"} \/ (c = "call" /\ i \in Tasks)
           /\ i \in Running <=> c = "run"
           /\ i \in ArmedOrSubmitted <=> c = "timers" \/ (c = "call" /\ i \in Timers)
           /\ i \in fresh' <=> d = "fresh"
           /\ i \in finished' <=> d = "finished"
           /\ i \in Discarded' <=> d \in {"cleared", "dropped"}
           /\ i \in Waiting' <=> d \in {"sync", "local"} \/ (d = "call" /\ i \in Tasks)
           /\ i \in Running' <=> d = "run"
           /\ i \in ArmedOrSubmitted' <=> d = "timers" \/ (d = "call" /\ i \in Timers)
<1> USE Names
<1>1. \A e \in Containers : In(i, e) <=> e = c BY OnlyIn, Zenon DEF Moves
<1>2. \A e \in Containers : In(i, e)' <=> e = d BY Zenon DEF Moves
<1>3. \A k \in Items \ {i} : \A e \in Containers : In(k, e)' <=> In(k, e) BY Zenon DEF Moves
<1>4. \A k \in Items \ {i} : (Waits(k)' <=> Waits(k)) /\ (Arms(k)' <=> Arms(k))
  BY <1>3, Zenon DEF Waits, Arms
<1>5. Others(i) BY <1>3, <1>4, Zenon DEF PoolSets, Others
<1>6. /\ i \in fresh <=> c = "fresh"
      /\ i \in finished <=> c = "finished"
      /\ i \in Discarded <=> c \in {"cleared", "dropped"}
      /\ i \in Waiting <=> c \in {"sync", "local"} \/ (c = "call" /\ i \in Tasks)
      /\ i \in Running <=> c = "run"
      /\ i \in ArmedOrSubmitted <=> c = "timers" \/ (c = "call" /\ i \in Timers)
  BY <1>1, Zenon DEF PoolSets, Waits, Arms
<1>7. /\ i \in fresh' <=> d = "fresh"
      /\ i \in finished' <=> d = "finished"
      /\ i \in Discarded' <=> d \in {"cleared", "dropped"}
      /\ i \in Waiting' <=> d \in {"sync", "local"} \/ (d = "call" /\ i \in Tasks)
      /\ i \in Running' <=> d = "run"
      /\ i \in ArmedOrSubmitted' <=> d = "timers" \/ (d = "call" /\ i \in Timers)
  BY <1>2, Zenon DEF PoolSets, Waits, Arms
<1> QED BY <1>5, <1>6, <1>7, Zenon

(* A step that moves nothing changes none of the sets of the pool.         *)
LEMMA StillStutters ==
    ASSUME PoolSets, PoolSets', Still
    PROVE  UNCHANGED Pool!vars
<1>1. \A k \in Items : (Waits(k)' <=> Waits(k)) /\ (Arms(k)' <=> Arms(k))
  BY Names, Zenon DEF Still, Waits, Arms
<1>2. fresh' = fresh /\ finished' = finished /\ Discarded' = Discarded
  BY Names, Zenon DEF PoolSets, Still
<1>3. Running' = Running BY Names, Zenon DEF PoolSets, Still
<1>4. Waiting' = Waiting BY <1>1, Zenon DEF PoolSets
<1>5. ArmedOrSubmitted' = ArmedOrSubmitted BY <1>1, Zenon DEF PoolSets
<1> QED BY <1>2, <1>3, <1>4, <1>5 DEF Pool!vars, ArmedOrSubmitted, Discarded

(* The end of stop() discards the armed timers.                            *)
LEMMA DropDiscards ==
    ASSUME PoolSets, PoolSets', Coherent, OneContainer, TimersDropped
    PROVE  Pool!Discard(Armed)
<1> USE Names
<1>1. \A k \in Items : k \in Armed <=> InTimers(k) BY Zenon DEF Armed, InTimers
<1>2. Armed \subseteq Items
  BY ThreadFacts, Zenon DEF Coherent, TypeOK, TimersOK, Armed
<1>3. \A k \in Armed : \A e \in Containers : In(k, e) <=> e = "timers"
  <2>1. \A k \in Armed : In(k, "timers") BY <1>1, <1>2, Zenon DEF In
  <2> QED BY <1>2, <2>1, OnlyIn, Zenon
<1>4. \A k \in Armed : \A e \in Containers : In(k, e)' <=> e = "dropped"
  BY <1>1, <1>2, Zenon DEF TimersDropped
<1>5. \A k \in Items \ Armed : \A e \in Containers : In(k, e)' <=> In(k, e)
  BY <1>1, Zenon DEF TimersDropped
<1>6. fresh' = fresh /\ finished' = finished /\ Running' = Running
  <2>1. \A k \in Items : (k \in fresh' <=> k \in fresh) /\ (k \in finished' <=> k \in finished)
    BY <1>3, <1>4, <1>5, Zenon DEF PoolSets
  <2>2. \A k \in Items : k \in Running' <=> k \in Running
    BY <1>3, <1>4, <1>5, Zenon DEF PoolSets
  <2> QED BY <2>1, <2>2, Zenon DEF PoolSets
<1>7. Discarded' = Discarded \cup Armed
  <2>1. \A k \in Items : k \in Discarded' <=> k \in Discarded \/ k \in Armed
    BY <1>3, <1>4, <1>5, Zenon DEF PoolSets
  <2> QED BY <1>2, <2>1, Zenon DEF PoolSets
<1>8. Waiting' = Waiting
  <2>1. \A k \in Items : Waits(k)' <=> Waits(k) BY <1>3, <1>4, <1>5, Zenon DEF Waits
  <2> QED BY <2>1, Zenon DEF PoolSets
<1>9. ArmedOrSubmitted' = ArmedOrSubmitted \ Armed
  <2>1. \A k \in Items : Arms(k)' <=> Arms(k) /\ k \notin Armed
    BY <1>3, <1>4, <1>5, Zenon DEF Arms
  <2> QED BY <2>1, Zenon DEF PoolSets
<1>10. Armed \subseteq ArmedOrSubmitted BY Zenon DEF ArmedOrSubmitted
<1> QED BY <1>6, <1>7, <1>8, <1>9, <1>10 DEF Pool!Discard, ArmedOrSubmitted, Discarded

(* The step of the pool that each way of an item is.                       *)
LEMMA JourneyImplements ==
    ASSUME PoolSets, PoolSets', OneContainer, NEW i \in Items, Journey(i)
    PROVE  Pool!Next \/ UNCHANGED Pool!vars
<1> DEFINE armed == ArmedOrSubmitted
           gone == Discarded
<1>0. /\ fresh \subseteq Items /\ finished \subseteq Items /\ gone \subseteq Items
      /\ Waiting \subseteq Items /\ Running \subseteq Items /\ armed \subseteq Items
      /\ fresh' \subseteq Items /\ finished' \subseteq Items /\ gone' \subseteq Items
      /\ Waiting' \subseteq Items /\ Running' \subseteq Items /\ armed' \subseteq Items
  BY Zenon DEF PoolSets
<1>a. /\ Pool!Items = Items /\ Pool!Timers = Timers /\ \A k \in Tasks : k \notin Timers
      /\ \A k \in Items : k \in Tasks \/ k \in Timers
  BY ThreadFacts, Zenon DEF Pool!Items, Pool!Timers, Items, Timers
<1>b. /\ armed = Armed \cup Submitted("arm") /\ armed' = (Armed \cup Submitted("arm"))'
      /\ gone = cleared \cup dropped /\ gone' = (cleared \cup dropped)'
  BY Zenon DEF ArmedOrSubmitted, Discarded
<1> USE <1>a, Names
<1>1. CASE Moves(i, "fresh", "call")
  <2>1. CASE i \in Tasks
    <3>1. /\ i \in fresh /\ fresh' = fresh \ {i} /\ Waiting' = Waiting \cup {i}
          /\ Running' = Running /\ armed' = armed /\ finished' = finished /\ gone' = gone
      <4>1. /\ Others(i) /\ i \in fresh /\ i \in Waiting'
            /\ i \notin Waiting \cup Running \cup armed \cup finished \cup gone
            /\ i \notin fresh' \cup Running' \cup armed' \cup finished' \cup gone'
        BY <1>1, <2>1, Moved, Zenon
      <4> QED BY ONLY <1>0, <4>1 DEF Others
    <3>2. Pool!Accept(i) BY <1>b, <2>1, <3>1, Zenon DEF Pool!Accept
    <3> QED BY <3>2, Zenon DEF Pool!Next
  <2>2. CASE i \in Timers
    <3>1. /\ i \in fresh /\ fresh' = fresh \ {i} /\ armed' = armed \cup {i}
          /\ Running' = Running /\ Waiting' = Waiting /\ finished' = finished /\ gone' = gone
      <4>1. /\ Others(i) /\ i \in fresh /\ i \in armed'
            /\ i \notin Waiting \cup Running \cup armed \cup finished \cup gone
            /\ i \notin fresh' \cup Waiting' \cup Running' \cup finished' \cup gone'
        BY <1>1, <2>2, Moved, Zenon
      <4> QED BY ONLY <1>0, <4>1 DEF Others
    <3>2. Pool!Arm(i) BY <1>b, <2>2, <3>1, Zenon DEF Pool!Arm
    <3> QED BY <3>2, Zenon DEF Pool!Next
  <2> QED BY <2>1, <2>2, Zenon
<1>2. CASE i \in Tasks /\ (Moves(i, "call", "sync") \/ Moves(i, "call", "local"))
  <2>1. /\ fresh' = fresh /\ Waiting' = Waiting /\ Running' = Running
        /\ armed' = armed /\ finished' = finished /\ gone' = gone
    <3>1. /\ Others(i) /\ i \in Waiting /\ i \in Waiting'
          /\ i \notin fresh \cup Running \cup armed \cup finished \cup gone
          /\ i \notin fresh' \cup Running' \cup armed' \cup finished' \cup gone'
      <4>1. CASE Moves(i, "call", "sync") BY <1>2, <4>1, Moved, Zenon
      <4>2. CASE Moves(i, "call", "local") BY <1>2, <4>2, Moved, Zenon
      <4> QED BY <1>2, <4>1, <4>2, Zenon
    <3> QED BY ONLY <1>0, <3>1 DEF Others
  <2> QED BY <1>b, <2>1, Zenon DEF Pool!vars
<1>3. CASE i \in Timers /\ Moves(i, "call", "timers")
  <2>1. /\ fresh' = fresh /\ Waiting' = Waiting /\ Running' = Running
        /\ armed' = armed /\ finished' = finished /\ gone' = gone
    <3>1. /\ Others(i) /\ i \in armed /\ i \in armed'
          /\ i \notin fresh \cup Waiting \cup Running \cup finished \cup gone
          /\ i \notin fresh' \cup Waiting' \cup Running' \cup finished' \cup gone'
      BY <1>3, Moved, Zenon
    <3> QED BY ONLY <1>0, <3>1 DEF Others
  <2> QED BY <1>b, <2>1, Zenon DEF Pool!vars
<1>4. CASE Moves(i, "timers", "sync")
  <2>1. /\ i \in armed /\ armed' = armed \ {i} /\ Waiting' = Waiting \cup {i}
        /\ fresh' = fresh /\ Running' = Running /\ finished' = finished /\ gone' = gone
    <3>1. /\ Others(i) /\ i \in armed /\ i \in Waiting'
          /\ i \notin fresh \cup Waiting \cup Running \cup finished \cup gone
          /\ i \notin fresh' \cup Running' \cup armed' \cup finished' \cup gone'
      BY <1>4, Moved, Zenon
    <3> QED BY ONLY <1>0, <3>1 DEF Others
  <2>2. Pool!Expire(i) BY <1>b, <2>1, Zenon DEF Pool!Expire
  <2> QED BY <2>2, Zenon DEF Pool!Next
<1>5. CASE Moves(i, "timers", "cleared") \/ Moves(i, "timers", "dropped")
  <2>1. /\ i \in armed /\ armed' = armed \ {i} /\ gone' = gone \cup {i}
        /\ fresh' = fresh /\ Waiting' = Waiting /\ Running' = Running /\ finished' = finished
    <3>1. /\ Others(i) /\ i \in armed /\ i \in gone'
          /\ i \notin fresh \cup Waiting \cup Running \cup finished
          /\ i \notin fresh' \cup Waiting' \cup Running' \cup finished' \cup armed'
      <4>1. CASE Moves(i, "timers", "cleared") BY <4>1, Moved, Zenon
      <4>2. CASE Moves(i, "timers", "dropped") BY <4>2, Moved, Zenon
      <4> QED BY <1>5, <4>1, <4>2, Zenon
    <3> QED BY ONLY <1>0, <3>1 DEF Others
  <2>2. Pool!Discard({i}) BY <1>b, <2>1, Zenon DEF Pool!Discard
  <2>3. {i} \in SUBSET (Armed \cup Submitted("arm")) BY <1>b, <2>1, Zenon
  <2> QED BY <2>2, <2>3, Zenon DEF Pool!Next
<1>6. CASE Moves(i, "local", "sync")
  <2>1. /\ fresh' = fresh /\ Waiting' = Waiting /\ Running' = Running
        /\ armed' = armed /\ finished' = finished /\ gone' = gone
    <3>1. /\ Others(i) /\ i \in Waiting /\ i \in Waiting'
          /\ i \notin fresh \cup armed \cup Running \cup finished \cup gone
          /\ i \notin fresh' \cup armed' \cup Running' \cup finished' \cup gone'
      BY <1>6, Moved, Zenon
    <3> QED BY ONLY <1>0, <3>1 DEF Others
  <2> QED BY <1>b, <2>1, Zenon DEF Pool!vars
<1>7. CASE Moves(i, "sync", "run") \/ Moves(i, "local", "run")
  <2>1. /\ i \in Waiting /\ Waiting' = Waiting \ {i} /\ Running' = Running \cup {i}
        /\ fresh' = fresh /\ armed' = armed /\ finished' = finished /\ gone' = gone
    <3>1. /\ Others(i) /\ i \in Waiting /\ i \in Running'
          /\ i \notin fresh \cup Running \cup armed \cup finished \cup gone
          /\ i \notin fresh' \cup Waiting' \cup armed' \cup finished' \cup gone'
      <4>1. CASE Moves(i, "sync", "run") BY <4>1, Moved, Zenon
      <4>2. CASE Moves(i, "local", "run") BY <4>2, Moved, Zenon
      <4> QED BY <1>7, <4>1, <4>2, Zenon
    <3> QED BY ONLY <1>0, <3>1 DEF Others
  <2>2. Pool!Begin(i) BY <1>b, <2>1, Zenon DEF Pool!Begin
  <2> QED BY <2>2, Zenon DEF Pool!Next
<1>8. CASE Moves(i, "run", "finished")
  <2>1. /\ i \in Running /\ Running' = Running \ {i} /\ finished' = finished \cup {i}
        /\ fresh' = fresh /\ Waiting' = Waiting /\ armed' = armed /\ gone' = gone
    <3>1. /\ Others(i) /\ i \in Running /\ i \in finished'
          /\ i \notin fresh \cup Waiting \cup armed \cup finished \cup gone
          /\ i \notin fresh' \cup Waiting' \cup Running' \cup armed' \cup gone'
      BY <1>8, Moved, Zenon
    <3> QED BY ONLY <1>0, <3>1 DEF Others
  <2>2. Pool!Finish(i) BY <1>b, <2>1, Zenon DEF Pool!Finish
  <2> QED BY <2>2, Zenon DEF Pool!Next
<1>9. CASE i \in Intervals /\ Moves(i, "run", "timers")
  <2>1. /\ i \in Running /\ Running' = Running \ {i} /\ armed' = armed \cup {i}
        /\ fresh' = fresh /\ Waiting' = Waiting /\ finished' = finished /\ gone' = gone
    <3>1. /\ Others(i) /\ i \in Running /\ i \in armed'
          /\ i \notin fresh \cup Waiting \cup armed \cup finished \cup gone
          /\ i \notin fresh' \cup Waiting' \cup Running' \cup finished' \cup gone'
      BY <1>9, Moved, ThreadFacts, Zenon
    <3> QED BY ONLY <1>0, <3>1 DEF Others
  <2>2. Pool!Rearm(i) BY <1>9, <1>b, <2>1, Zenon DEF Pool!Rearm
  <2> QED BY <2>2, Zenon DEF Pool!Next
<1> QED BY <1>1, <1>2, <1>3, <1>4, <1>5, <1>6, <1>7, <1>8, <1>9 DEF Journey

(* The schedule keeps the promise of TaskPool for any number of threads,   *)
(* tasks and timers: every step of a thread is a step of the pool or       *)
(* changes nothing that the pool promises.                                 *)
THEOREM SchedulerImplementsPool == Spec => ImplementsPool
<1>1. Init => Pool!Init
  <2> SUFFICES ASSUME Init PROVE Pool!Init BY Zenon
  <2>1. fresh = Pool!Items BY Zenon DEF Init, Pool!Items, Pool!Timers, Items, Timers
  <2>2. Waiting = {} /\ Running = {} /\ Armed \cup Submitted("arm") = {}
    BY ThreadFacts DEF Init, Waiting, Running, Armed, Submitted, Elements, Idle
  <2>3. finished = {} /\ cleared \cup dropped = {} BY Zenon DEF Init
  <2> QED BY <2>1, <2>2, <2>3, Zenon DEF Pool!Init
<1>2. Coherent /\ Coherent' /\ ConsInv /\ [Next]_vars => [Pool!Next]_(Pool!vars)
  <2> SUFFICES ASSUME Coherent, Coherent', ConsInv, [Next]_vars
               PROVE  Pool!Next \/ UNCHANGED Pool!vars
    BY Zenon
  <2>1. PoolSets /\ OneContainer BY Mapping, Zenon DEF ConsInv
  <2>2. PoolSets'
    <3>1. (Coherent => PoolSets)' BY Mapping, PTL
    <3> QED BY <3>1, Zenon
  <2>3. OnItsWay BY NextConsInv, KeysAreFree, Zenon
  <2>4. CASE Still BY <2>1, <2>2, <2>4, StillStutters
  <2>5. CASE TimersDropped
    <3>1. Pool!Discard(Armed) BY <2>1, <2>2, <2>5, DropDiscards
    <3>2. Armed \in SUBSET (Armed \cup Submitted("arm")) BY Zenon
    <3> QED BY <3>1, <3>2, Zenon DEF Pool!Next
  <2>6. ASSUME NEW i \in Items, Journey(i) PROVE Pool!Next \/ UNCHANGED Pool!vars
    BY <2>1, <2>2, <2>6, JourneyImplements
  <2> QED BY <2>3, <2>4, <2>5, <2>6 DEF OnItsWay
<1>3. Spec => []ConsInv
  BY InitConsInv, NextConsInv, KeysAreFree, ScheduleCoherent, PTL DEF Spec
<1> QED
  BY <1>1, <1>2, <1>3, ScheduleCoherent, PTL DEF Spec, ImplementsPool, Pool!Spec
=============================================================================
