-------------------------- MODULE TimerQueueProofs --------------------------
(***************************************************************************)
(* Proofs about TimerQueue, for every set of threads, addresses, delays    *)
(* and intervals and every bound.                                          *)
(***************************************************************************)
EXTENDS TimerQueue, SequenceTheorems, WellFoundedInduction, TLAPS

-----------------------------------------------------------------------------
(* std::set<Entry>::begin().                                               *)

\* A set of natural numbers that is not empty has a least element.
LEMMA LeastNatural ==
  ASSUME NEW S \in SUBSET Nat, S # {}
  PROVE  \E n \in S : \A m \in S : n <= m
<1> DEFINE Less == OpToRel(<, Nat)
<1>1. PICK n \in S : \A m \in S : <<m, n>> \notin Less
  <2> HIDE DEF Less
  <2>1. IsWellFoundedOn(Less, Nat)
    BY NatLessThanWellFounded DEF Less
  <2> QED
    BY <2>1, WFMin
<1>2. \A m \in S : ~(m < n)
  BY <1>1 DEF OpToRel
<1> QED
  BY <1>2

\* Entries are ordered totally: the first of some entries is one of them, and
\* none of them expires sooner. timers_.begin() is well defined.
LEMMA FirstIsEarliest ==
  ASSUME NEW S \in SUBSET (Nat \X Addrs), S # {}
  PROVE  /\ First(S) \in S
         /\ \A e \in S : First(S)[1] <= e[1]
<1> USE TimerAssumption
<1>1. PICK n \in {e[1] : e \in S} : \A m \in {e[1] : e \in S} : n <= m
  <2>1. {e[1] : e \in S} # {} /\ {e[1] : e \in S} \in SUBSET Nat
    OBVIOUS
  <2> QED
    BY <2>1, LeastNatural
<1> DEFINE T == {e \in S : e[1] = n}
<1>2. PICK a \in {e[2] : e \in T} : \A b \in {e[2] : e \in T} : a <= b
  <2>1. {e[2] : e \in T} # {} /\ {e[2] : e \in T} \in SUBSET Nat
    BY <1>1
  <2> QED
    BY <2>1, LeastNatural
<1>3. <<n, a>> \in S
  BY <1>1, <1>2
<1>4. \A f \in S \ {<<n, a>>} : Before(<<n, a>>, f)
  <2> SUFFICES ASSUME NEW f \in S \ {<<n, a>>} PROVE Before(<<n, a>>, f)
    OBVIOUS
  <2>1. f \in Nat \X Addrs /\ f # <<n, a>> /\ <<n, a>> \in Nat \X Addrs
    BY <1>3
  <2>2. f = <<f[1], f[2]>>
    BY <2>1
  <2>3. n \in Nat /\ a \in Nat /\ f[1] \in Nat /\ f[2] \in Nat
    BY <2>1
  <2>4. n <= f[1]
    BY <1>1
  <2>5. CASE f[1] = n
    <3>1. a <= f[2]
      BY <1>2, <2>5
    <3>2. a # f[2]
      BY <2>1, <2>2, <2>5
    <3> QED
      BY <2>3, <2>5, <3>1, <3>2 DEF Before
  <2>6. CASE f[1] # n
    BY <2>3, <2>4, <2>6 DEF Before
  <2> QED
    BY <2>5, <2>6
<1>5. First(S) \in S /\ \A f \in S \ {First(S)} : Before(First(S), f)
  BY <1>3, <1>4 DEF First
<1>6. ASSUME NEW e \in S PROVE First(S)[1] <= e[1]
  <2>1. CASE e = First(S)
    BY <2>1
  <2>2. CASE e # First(S)
    BY <1>5, <2>2 DEF Before
  <2> QED
    BY <2>1, <2>2
<1> QED
  BY <1>5, <1>6


-----------------------------------------------------------------------------
(* Types and sequence numbers.                                             *)

\* The sequence numbers in use: every live timer has one of its own kind,
\* counted from 1 by s_numCreated_, and no TimerId, whether read from a live
\* timer, from freed memory or queued, is ahead of the counter: the next timer
\* at any address has an id that nobody has seen.
SequenceInv ==
  /\ \A a \in Addrs : heap[a] # Free => heap[a].seq \in 1..created
  /\ \A id \in ids \cup handled : id[2] <= created
  /\ \A i \in DOMAIN queue : /\ queue[i].id[2] <= created
                             /\ queue[i].op = "add" => queue[i].id[1] \in Addrs
  /\ \A t \in Threads : tpc[t] # NoId => tpc[t][1] \in Addrs

\* The fields of the timer object at an address.
LEMMA ObjectFields ==
  ASSUME TypeOK, NEW a \in Addrs
  PROVE  /\ heap[a] \in Objects /\ heap[a].seq \in 0..MaxSeq
         /\ heap[a].expiration \in Nat /\ heap[a].interval \in Nat
<1>1. heap[a] \in Objects
  BY DEF TypeOK
<1> QED
  BY <1>1 DEF Objects

\* A queued functor.
LEMMA QueuedFunctor ==
  ASSUME TypeOK, NEW i \in DOMAIN queue
  PROVE  /\ queue[i] \in Functors /\ queue[i].id \in TimerIds
         /\ queue[i].id[2] \in 0..MaxSeq
<1>1. queue[i] \in Functors
  BY ElementOfSeq, LenProperties DEF TypeOK
<1> QED
  BY <1>1 DEF Functors, TimerIds

\* What cancelInLoop() leaves of the types.
LEMMA CancelInLoopType ==
  ASSUME TypeOK, NEW id \in TimerIds, CancelInLoop(id)
  PROVE  /\ heap' \in [Addrs -> Objects]
         /\ \A a \in Addrs : heap'[a] = heap[a] \/ heap'[a] = Free
         /\ timers' \subseteq timers /\ activeTimers' \subseteq activeTimers
         /\ cancelingTimers' \subseteq cancelingTimers \cup {id}
         /\ handled' = handled \cup {id} /\ overtaken' \subseteq overtaken \cup {id}
         /\ UNCHANGED timerfd
<1>1. Free \in Objects
  BY TimerAssumption DEF Free, Objects
<1> QED
  BY <1>1 DEF TypeOK, CancelInLoop, CancelRunning

\* Every variable keeps its type, and sequence numbers are never ahead of
\* s_numCreated_.
LEMMA SequencesInductive == TypeOK /\ SequenceInv /\ [Next]_vars => TypeOK' /\ SequenceInv'
<1> SUFFICES ASSUME TypeOK, SequenceInv, [Next]_vars PROVE TypeOK' /\ SequenceInv'
  OBVIOUS
<1> USE TimerAssumption
<1>1. CASE Tick
  BY <1>1 DEF Tick, TypeOK, SequenceInv, queueVars, batchVars, userVars, historyVars
<1>2. CASE RunFunctor
  <2>1. /\ queue \in Seq(Functors) /\ queue # <<>> /\ queue' = Tail(queue)
        /\ UNCHANGED <<now, created, batchVars, tpc, ids>>
    BY <1>2 DEF RunFunctor, TypeOK
  <2>2. /\ Head(queue) \in Functors /\ Tail(queue) \in Seq(Functors)
        /\ Len(queue) \in Nat /\ Len(Tail(queue)) = Len(queue) - 1
        /\ DOMAIN queue = 1..Len(queue) /\ DOMAIN Tail(queue) = 1..(Len(queue) - 1)
        /\ \A i \in 1..(Len(queue) - 1) : Tail(queue)[i] = queue[i + 1]
    BY <2>1, HeadTailProperties, LenProperties
  <2>3. Head(queue) = queue[1] /\ Len(queue) > 0
    BY <2>1, EmptySeq
  <2>4. /\ queue' \in Seq(Functors)
        /\ \A i \in DOMAIN queue' : /\ queue'[i].id[2] <= created'
                                    /\ queue'[i].op = "add" => queue'[i].id[1] \in Addrs
    BY <2>1, <2>2 DEF SequenceInv
  <2>5. Head(queue).id \in TimerIds /\ Head(queue).id[2] <= created
    BY <2>2, <2>3 DEF Functors, SequenceInv
  <2>6. CASE Head(queue).op = "cancel" /\ CancelInLoop(Head(queue).id)
    BY <2>1, <2>4, <2>5, <2>6, CancelInLoopType DEF TypeOK, SequenceInv, batchVars
  <2>7. CASE /\ Head(queue).op = "add"
             /\ AddTimerInLoop(Head(queue).id[1], heap[Head(queue).id[1]])
             /\ UNCHANGED <<heap, historyVars>>
    <3> DEFINE a == Head(queue).id[1]
    <3>1. a \in Addrs
      BY <2>2, <2>3, <2>7 DEF SequenceInv
    <3> HIDE DEF a
    <3>2. /\ heap[a].expiration \in Nat /\ heap[a].seq \in 0..MaxSeq
          /\ now \in Nat /\ timerfd \in Nat
      BY <3>1, ObjectFields DEF TypeOK
    <3>3. timers' \subseteq Nat \X Addrs /\ activeTimers' \subseteq TimerIds
      BY <2>7, <3>1, <3>2 DEF TypeOK, AddTimerInLoop, TimerIds, a
    <3>4. timerfd' \in Nat
      BY <2>7, <3>2 DEF AddTimerInLoop, Rearm, a
    <3> QED
      BY <2>1, <2>4, <2>7, <3>3, <3>4
      DEF TypeOK, SequenceInv, batchVars, historyVars, AddTimerInLoop
  <2> QED
    BY <1>2, <2>6, <2>7 DEF RunFunctor
<1>3. CASE PollTimerfd
  BY <1>3 DEF PollTimerfd, TypeOK, SequenceInv, queueVars, userVars, historyVars
<1>4. CASE HandleRead
  BY <1>4 DEF HandleRead, Due, Disarmed, TypeOK, SequenceInv, userVars, historyVars
<1>5. CASE RunTimer
  BY <1>5 DEF RunTimer, TypeOK, SequenceInv, queueVars, userVars, historyVars
<1>6. CASE Reset
  <2>1. /\ UNCHANGED <<now, created, cancelingTimers, queue, tpc, ids, handled, overtaken>>
        /\ toRun' = {} /\ expired' = {} /\ batchTime' = 0 /\ pc' = "loop"
    BY <1>6 DEF Reset, userVars, historyVars
  <2>2. \A a \in Addrs : /\ heap[a] \in Objects
                         /\ NextExpiration(a) \in Nat
    BY DEF TypeOK, NextExpiration, Objects
  <2>3. Free \in Objects
    BY DEF Free, Objects
  <2>4. \A a \in Addrs : \/ heap'[a] = [heap[a] EXCEPT !.expiration = NextExpiration(a)]
                            /\ \E e \in Restarted : e[2] = a
                         \/ heap'[a] = Free
                         \/ heap'[a] = heap[a]
    BY <1>6 DEF Reset
  <2>5. heap' \in [Addrs -> Objects]
    <3>1. \A a \in Addrs : heap'[a] \in Objects
      BY <2>2, <2>3, <2>4 DEF Objects
    <3> QED
      BY <1>6, <3>1 DEF Reset
  <2>6. \A e \in Restarted : e[2] \in Addrs /\ heap[e[2]].interval > 0
    BY DEF Restarted, TypeOK
  <2>7. \A a \in Addrs : heap'[a] # Free => heap'[a].seq \in 1..created
    <3>1. \A a \in Addrs : (\E e \in Restarted : e[2] = a) => heap[a] # Free
      BY <2>6 DEF Free
    <3>2. \A a \in Addrs : \/ heap'[a].seq = heap[a].seq /\ heap[a] # Free
                           \/ heap'[a] = Free
                           \/ heap'[a] = heap[a]
      BY <2>2, <2>4, <3>1 DEF Objects
    <3> QED
      BY <3>2 DEF SequenceInv
  <2>8. timers' \subseteq Nat \X Addrs /\ activeTimers' \subseteq TimerIds
    <3>1. timers' = timers \cup {<<NextExpiration(e[2]), e[2]>> : e \in Restarted}
      BY <1>6 DEF Reset
    <3>2. activeTimers' = activeTimers \cup {<<e[2], heap[e[2]].seq>> : e \in Restarted}
      BY <1>6 DEF Reset
    <3>3. \A e \in Restarted : <<e[2], heap[e[2]].seq>> \in TimerIds
      BY <2>6, ObjectFields DEF TimerIds
    <3> QED
      BY <2>2, <2>6, <3>1, <3>2, <3>3, SMTT(30) DEF TypeOK
  <2>9. timerfd' \in Nat
    <3>1. CASE timers' = {}
      BY <1>6, <3>1 DEF Reset, TypeOK
    <3>2. CASE timers' # {}
      <4>1. First(timers') \in timers'
        BY <2>8, <3>2, FirstIsEarliest
      <4> QED
        BY <1>6, <2>8, <3>2, <4>1, SMTT(30) DEF Reset, Rearm, TypeOK
    <3> QED
      BY <3>1, <3>2
  <2> QED
    BY <2>1, <2>5, <2>7, <2>8, <2>9 DEF TypeOK, SequenceInv
<1>7. ASSUME NEW id \in ids, OwnCancel(id) PROVE TypeOK' /\ SequenceInv'
  <2>1. id \in TimerIds /\ id[2] <= created /\ CancelInLoop(id)
    BY <1>7 DEF OwnCancel, TypeOK, SequenceInv
  <2> QED
    BY <1>7, <2>1, CancelInLoopType DEF OwnCancel, TypeOK, SequenceInv, batchVars, userVars
<1>8. ASSUME NEW id \in ids, NEW t \in Threads, Cancel(t, id) PROVE TypeOK' /\ SequenceInv'
  <2> DEFINE f == [op |-> "cancel", id |-> id]
  <2>1. f \in Functors /\ queue \in Seq(Functors) /\ id[2] <= created
    BY DEF TypeOK, Functors, SequenceInv
  <2>2. /\ Append(queue, f) \in Seq(Functors) /\ Len(queue) \in Nat
        /\ DOMAIN queue = 1..Len(queue) /\ DOMAIN Append(queue, f) = 1..(Len(queue) + 1)
        /\ \A i \in 1..Len(queue) : Append(queue, f)[i] = queue[i]
        /\ Append(queue, f)[Len(queue) + 1] = f
    BY <2>1, AppendProperties, LenProperties
  <2> HIDE DEF f
  <2>3. \A i \in DOMAIN Append(queue, f) :
          \/ Append(queue, f)[i] = f
          \/ i \in DOMAIN queue /\ Append(queue, f)[i] = queue[i]
    BY <2>2
  <2> QED
    BY <1>8, <2>1, <2>2, <2>3
    DEF Cancel, TypeOK, SequenceInv, queueVars, batchVars, historyVars, f
<1>9. ASSUME NEW t \in Threads, ReadSequence(t) PROVE TypeOK' /\ SequenceInv'
  <2>1. tpc[t][1] \in Addrs
    BY <1>9 DEF ReadSequence, SequenceInv
  <2>2. PICK s \in 0..created : ids' = ids \cup {<<tpc[t][1], s>>}
    BY <1>9, <2>1 DEF ReadSequence, SequenceInv, TypeOK
  <2>3. NoId \in TimerIds /\ <<tpc[t][1], s>> \in TimerIds
    BY <2>1 DEF NoId, TimerIds, TypeOK
  <2>4. /\ tpc' = [tpc EXCEPT ![t] = NoId]
        /\ UNCHANGED <<now, heap, created, queueVars, batchVars, queue, historyVars>>
    BY <1>9 DEF ReadSequence
  <2>5. tpc' \in [Threads -> TimerIds] /\ ids' \subseteq TimerIds
    BY <2>2, <2>3, <2>4 DEF TypeOK
  <2>6. TypeOK'
    BY <2>4, <2>5 DEF TypeOK, queueVars, batchVars, historyVars
  <2>7. \A id \in ids' \cup handled' : id[2] <= created'
    BY <2>2, <2>4 DEF SequenceInv, historyVars
  <2>8. \A u \in Threads : tpc'[u] # NoId => tpc'[u][1] \in Addrs
    BY <2>4 DEF SequenceInv, TypeOK
  <2>9. SequenceInv'
    BY <2>4, <2>7, <2>8 DEF SequenceInv
  <2> QED
    BY <2>6, <2>9
<1>10. ASSUME NEW a \in Addrs, NEW delay \in Delays, NEW interval \in Intervals,
              CanAllocate(a), heap' = [heap EXCEPT ![a] = NewTimer(delay, interval)],
              created' = created + 1
       PROVE  /\ heap' \in [Addrs -> Objects]
              /\ created' \in 0..MaxSeq
              /\ \A b \in Addrs : heap'[b] # Free => heap'[b].seq \in 1..created'
              /\ NewTimer(delay, interval).expiration \in Nat
              /\ <<a, NewTimer(delay, interval).seq>> \in TimerIds
              /\ NewTimer(delay, interval).seq = created'
  <2>1. created \in Nat /\ created < MaxSeq /\ now \in Nat /\ delay \in Nat /\ interval \in Nat
    BY <1>10 DEF TypeOK, CanAllocate
  <2>2. /\ NewTimer(delay, interval) \in Objects
        /\ NewTimer(delay, interval).seq = created + 1
        /\ NewTimer(delay, interval).expiration \in Nat
    BY <2>1 DEF NewTimer, Objects
  <2>3. <<a, NewTimer(delay, interval).seq>> \in TimerIds
    BY <2>1, <2>2 DEF TimerIds
  <2>4. \A b \in Addrs : heap'[b] = IF b = a THEN NewTimer(delay, interval) ELSE heap[b]
    BY <1>10 DEF TypeOK
  <2>5. heap' \in [Addrs -> Objects]
    BY <1>10, <2>2 DEF TypeOK
  <2>6. ASSUME NEW b \in Addrs, heap'[b] # Free PROVE heap'[b].seq \in 1..created'
    BY <1>10, <2>1, <2>2, <2>4, <2>6 DEF SequenceInv
  <2> QED
    BY <1>10, <2>1, <2>2, <2>3, <2>5, <2>6
<1>11. ASSUME NEW a \in Addrs, NEW delay \in Delays, NEW interval \in Intervals,
              OwnAddTimer(a, delay, interval)
       PROVE  TypeOK' /\ SequenceInv'
  <2> DEFINE tm == NewTimer(delay, interval)
  <2>1. /\ CanAllocate(a) /\ heap' = [heap EXCEPT ![a] = tm] /\ created' = created + 1
        /\ AddTimerInLoop(a, tm) /\ ids' = ids \cup {<<a, tm.seq>>}
        /\ UNCHANGED <<now, batchVars, queue, tpc, historyVars>>
    BY <1>11 DEF OwnAddTimer
  <2>2. /\ heap' \in [Addrs -> Objects]
        /\ created' \in 0..MaxSeq
        /\ \A b \in Addrs : heap'[b] # Free => heap'[b].seq \in 1..created'
        /\ tm.expiration \in Nat /\ <<a, tm.seq>> \in TimerIds /\ tm.seq = created'
    BY <1>10, <2>1
  <2> HIDE DEF tm
  <2>3. timerfd' \in Nat /\ timers' \subseteq Nat \X Addrs /\ activeTimers' \subseteq TimerIds
    BY <2>1, <2>2 DEF AddTimerInLoop, TypeOK, Rearm
  <2>4. \A id \in ids' \cup handled' : id[2] <= created'
    BY <2>1, <2>2 DEF SequenceInv, historyVars, TypeOK, TimerIds
  <2>5. \A i \in DOMAIN queue : queue[i].id[2] <= created'
    BY <2>1, QueuedFunctor DEF SequenceInv, TypeOK
  <2> QED
    BY <2>1, <2>2, <2>3, <2>4, <2>5 DEF TypeOK, SequenceInv, batchVars, historyVars, AddTimerInLoop
<1>12. ASSUME NEW t \in Threads, NEW a \in Addrs, NEW delay \in Delays, NEW interval \in Intervals,
              AddTimer(t, a, delay, interval)
       PROVE  TypeOK' /\ SequenceInv'
  <2> DEFINE tm == NewTimer(delay, interval)
             f == [op |-> "add", id |-> <<a, tm.seq>>]
  <2>1. /\ CanAllocate(a) /\ heap' = [heap EXCEPT ![a] = tm] /\ created' = created + 1
        /\ queue' = Append(queue, f) /\ tpc' = [tpc EXCEPT ![t] = <<a, tm.seq>>]
        /\ UNCHANGED <<now, queueVars, batchVars, ids, historyVars>>
    BY <1>12 DEF AddTimer
  <2>2. /\ heap' \in [Addrs -> Objects]
        /\ created' \in 0..MaxSeq
        /\ \A b \in Addrs : heap'[b] # Free => heap'[b].seq \in 1..created'
        /\ <<a, tm.seq>> \in TimerIds /\ tm.seq = created'
    BY <1>10, <2>1
  <2> HIDE DEF tm
  <2>3. f \in Functors /\ queue \in Seq(Functors)
    BY <2>2 DEF TypeOK, Functors
  <2>4. /\ Append(queue, f) \in Seq(Functors) /\ Len(queue) \in Nat
        /\ DOMAIN queue = 1..Len(queue) /\ DOMAIN Append(queue, f) = 1..(Len(queue) + 1)
        /\ \A i \in 1..Len(queue) : Append(queue, f)[i] = queue[i]
        /\ Append(queue, f)[Len(queue) + 1] = f
    BY <2>3, AppendProperties, LenProperties
  <2>5. \A i \in DOMAIN queue : queue[i].id[2] \in 0..MaxSeq
    BY QueuedFunctor
  <2>6. \A i \in DOMAIN queue' : /\ queue'[i].id[2] <= created'
                                 /\ queue'[i].op = "add" => queue'[i].id[1] \in Addrs
    <3> SUFFICES ASSUME NEW i \in DOMAIN queue'
                 PROVE  /\ queue'[i].id[2] <= created'
                        /\ queue'[i].op = "add" => queue'[i].id[1] \in Addrs
      OBVIOUS
    <3>1. CASE i = Len(queue) + 1
      BY <2>1, <2>2, <2>4, <3>1 DEF TypeOK
    <3>2. CASE i # Len(queue) + 1
      BY <2>1, <2>2, <2>4, <2>5, <3>2 DEF SequenceInv, TypeOK
    <3> QED
      BY <3>1, <3>2
  <2>7. \A id \in ids' \cup handled' : id[2] <= created'
    BY <2>1, <2>2 DEF SequenceInv, historyVars, TypeOK, TimerIds
  <2> QED
    BY <2>1, <2>2, <2>4, <2>6, <2>7
    DEF TypeOK, SequenceInv, queueVars, batchVars, historyVars
<1>13. CASE UNCHANGED vars
  BY <1>13 DEF vars, TypeOK, SequenceInv, queueVars, batchVars, userVars, historyVars
<1> QED
  BY <1>1, <1>2, <1>3, <1>4, <1>5, <1>6, <1>7, <1>8, <1>9, <1>11, <1>12, <1>13 DEF Next

\* The types hold, whatever the threads and the callbacks do: no TimerId is
\* ahead of s_numCreated_ and what is left to run is part of the batch.
THEOREM TypeCorrect == Spec => [](TypeOK /\ SequenceInv)
<1>1. Init => TypeOK /\ SequenceInv
  <2> SUFFICES ASSUME Init PROVE TypeOK /\ SequenceInv
    OBVIOUS
  <2>1. <<>> \in Seq(Functors) /\ DOMAIN <<>> = {}
    BY EmptySeq
  <2>2. NoId \in TimerIds
    BY TimerAssumption DEF NoId, TimerIds
  <2> QED
    <3>1. heap \in [Addrs -> Objects] /\ \A a \in Addrs : heap[a] = Free
      BY TimerAssumption DEF Init, Free, Objects
    <3>2. TypeOK
      BY <2>1, <2>2, <3>1, TimerAssumption DEF Init, TypeOK, Disarmed
    <3>3. SequenceInv
      BY <2>1, <3>1, TimerAssumption DEF Init, SequenceInv
    <3> QED
      BY <3>2, <3>3
<1> QED
  BY <1>1, SequencesInductive, PTL DEF Spec

-----------------------------------------------------------------------------
(* The owners of the timer objects.                                        *)

InSet == {e[2] : e \in timers}
InBatch == {e[2] : e \in expired}
IdAt(a) == <<a, heap[a].seq>>

\* Every entry of timers_ and of the batch is the only one for its address
\* (it carries the expiration the object has), activeTimers_ is timers_ by
\* address, and the batch is empty outside handleRead().
EntriesInv ==
  /\ \A e \in timers \cup expired : e[1] = heap[e[2]].expiration
  /\ activeTimers = {IdAt(a) : a \in InSet}
  /\ pc # "calling" => expired = {}

\* A queued addTimerInLoop() still is the only one for its timer.
QueueInv ==
  /\ \A i \in DOMAIN queue : queue[i].op = "add" => queue[i].id = IdAt(queue[i].id[1])
  /\ \A i, j \in DOMAIN queue :
       queue[i].op = "add" /\ queue[j].op = "add" /\ queue[i].id[1] = queue[j].id[1] => i = j

OwnerInv == EntriesInv /\ QueueInv /\ PointersExact

\* Taking the first functor from the queue.
LEMMA QueueTail ==
  ASSUME TypeOK, queue # <<>>, queue' = Tail(queue), QueueInv
  PROVE  /\ 1 \in DOMAIN queue /\ Head(queue) = queue[1]
         /\ \A i \in DOMAIN queue' : i + 1 \in DOMAIN queue /\ queue'[i] = queue[i + 1]
         /\ DOMAIN queue \subseteq Nat /\ DOMAIN queue' \subseteq Nat
         /\ Head(queue).op = "add" =>
              Head(queue).id[1] \in Queued /\ Queued' = Queued \ {Head(queue).id[1]}
         /\ Head(queue).op # "add" => Queued' = Queued
<1>1. queue \in Seq(Functors)
  BY DEF TypeOK
<1>2. /\ Len(queue) \in Nat /\ Len(queue) > 0 /\ Len(Tail(queue)) = Len(queue) - 1
      /\ DOMAIN queue = 1..Len(queue) /\ DOMAIN Tail(queue) = 1..(Len(queue) - 1)
      /\ \A i \in 1..(Len(queue) - 1) : Tail(queue)[i] = queue[i + 1]
  BY <1>1, HeadTailProperties, LenProperties, EmptySeq
<1>3. Head(queue) = queue[1]
  BY <1>1, <1>2
<1>4. \A i \in DOMAIN queue : i = 1 \/ (i - 1 \in DOMAIN queue' /\ queue'[i - 1] = queue[i])
  BY <1>2
<1>5. \A i \in DOMAIN queue' : i + 1 \in DOMAIN queue /\ queue'[i] = queue[i + 1] /\ i + 1 # 1
  BY <1>2
<1>6. \A a : a \in Queued' => a \in Queued
  BY <1>5 DEF Queued
<1>7. \A a : a \in Queued => a \in Queued' \/ (a = queue[1].id[1] /\ queue[1].op = "add")
  BY <1>4, SMTT(30) DEF Queued
<1>8. queue[1].op = "add" => queue[1].id[1] \in Queued /\ queue[1].id[1] \notin Queued'
  BY <1>2, <1>5 DEF Queued, QueueInv
<1>9. queue[1].op = "add" => Queued' = Queued \ {queue[1].id[1]}
  BY <1>6, <1>7, <1>8
<1>10. queue[1].op # "add" => Queued' = Queued
  BY <1>6, <1>7
<1>11. 1 \in DOMAIN queue /\ DOMAIN queue \subseteq Nat /\ DOMAIN queue' \subseteq Nat
  BY <1>2
<1> QED
  BY <1>3, <1>5, <1>8, <1>9, <1>10, <1>11

\* Queueing a functor.
LEMMA QueueAppend ==
  ASSUME TypeOK, NEW f \in Functors, queue' = Append(queue, f)
  PROVE  /\ \A i \in DOMAIN queue' : \/ i \in DOMAIN queue /\ queue'[i] = queue[i]
                                     \/ i = Len(queue) + 1 /\ queue'[i] = f
         /\ f.op = "add" => Queued' = Queued \cup {f.id[1]}
         /\ f.op # "add" => Queued' = Queued
<1>1. queue \in Seq(Functors)
  BY DEF TypeOK
<1>2. /\ Len(queue) \in Nat /\ Len(Append(queue, f)) = Len(queue) + 1
      /\ DOMAIN queue = 1..Len(queue) /\ DOMAIN Append(queue, f) = 1..(Len(queue) + 1)
      /\ \A i \in 1..Len(queue) : Append(queue, f)[i] = queue[i]
      /\ Append(queue, f)[Len(queue) + 1] = f
  BY <1>1, AppendProperties, LenProperties
<1>3. \A i \in DOMAIN queue' : \/ i \in DOMAIN queue /\ queue'[i] = queue[i]
                               \/ i = Len(queue) + 1 /\ queue'[i] = f
  BY <1>2
<1>4. \A i \in DOMAIN queue : i \in DOMAIN queue' /\ queue'[i] = queue[i]
  BY <1>2
<1>5. Len(queue) + 1 \in DOMAIN queue' /\ queue'[Len(queue) + 1] = f
  BY <1>2
<1>6. \A a : a \in Queued => a \in Queued'
  BY <1>4 DEF Queued
<1>7. \A a : a \in Queued' => a \in Queued \/ (a = f.id[1] /\ f.op = "add")
  BY <1>3 DEF Queued
<1>8. f.op = "add" => f.id[1] \in Queued'
  BY <1>5 DEF Queued
<1> QED
  BY <1>3, <1>6, <1>7, <1>8

\* cancelInLoop() frees a timer that is in timers_, and then forgets it, or
\* touches no owner at all.
LEMMA CancelInLoopOwners ==
  ASSUME TypeOK, EntriesInv, NEW id \in TimerIds, CancelInLoop(id)
  PROVE  \/ /\ id \in activeTimers /\ id[1] \in InSet /\ id = IdAt(id[1])
            /\ heap' = [heap EXCEPT ![id[1]] = Free]
            /\ timers' = {e \in timers : e[2] # id[1]}
            /\ activeTimers' = activeTimers \ {id}
         \/ id \notin activeTimers /\ UNCHANGED <<heap, timers, activeTimers>>
<1>1. CASE id \in activeTimers
  <2>1. PICK a \in InSet : id = IdAt(a)
    BY <1>1 DEF EntriesInv
  <2>2. id[1] = a
    BY <2>1 DEF IdAt
  <2>3. heap' = [heap EXCEPT ![a] = Free] /\ timers' = timers \ {<<heap[a].expiration, a>>}
    BY <1>1, <2>2 DEF CancelInLoop, SameTimer
  <2>4. activeTimers' = activeTimers \ {id}
    BY <1>1 DEF CancelInLoop, SameTimer
  <2>5. timers' = {e \in timers : e[2] # a}
    <3>1. \A e \in timers : e = <<e[1], e[2]>>
      BY DEF TypeOK
    <3>2. \A e \in timers : e[2] = a => e[1] = heap[a].expiration
      BY DEF EntriesInv
    <3>3. \A e \in timers : e[2] = a <=> e = <<heap[a].expiration, a>>
      BY <3>1, <3>2
    <3> QED
      BY <2>3, <3>3
  <2> QED
    BY <1>1, <2>1, <2>2, <2>3, <2>4, <2>5
<1>2. CASE id \notin activeTimers
  BY <1>2 DEF CancelInLoop, SameTimer
<1> QED
  BY <1>1, <1>2


\* A step that frees at most one timer of timers_ and leaves the queue's
\* addTimerInLoop()s as they are keeps the owners exact.
LEMMA CancelOwners ==
  ASSUME TypeOK, OwnerInv, NEW id \in TimerIds, CancelInLoop(id),
         UNCHANGED <<pc, expired>>, Queued' = Queued
  PROVE  EntriesInv' /\ PointersExact' /\ \A a \in Queued : heap'[a] = heap[a]
<1>1. CASE id \notin activeTimers /\ UNCHANGED <<heap, timers, activeTimers>>
  BY <1>1 DEF OwnerInv, EntriesInv, PointersExact, Allocated, InSet, IdAt
<1>2. CASE /\ id \in activeTimers /\ id[1] \in InSet /\ id = IdAt(id[1])
           /\ heap' = [heap EXCEPT ![id[1]] = Free]
           /\ timers' = {e \in timers : e[2] # id[1]}
           /\ activeTimers' = activeTimers \ {id}
  <2> DEFINE a == id[1]
  <2> USE DEF OwnerInv
  <2>1. InSet \subseteq Addrs /\ InBatch \subseteq Addrs /\ Queued \subseteq Addrs /\ heap \in [Addrs -> Objects]
    BY DEF TypeOK, InSet, InBatch, PointersExact, Allocated
  <2>2. a \in Addrs /\ a \in InSet /\ a \notin InBatch /\ a \notin Queued
    BY <1>2, <2>1 DEF PointersExact, InSet, InBatch
  <2>3. \A b \in Addrs : heap'[b] = IF b = a THEN Free ELSE heap[b]
    BY <1>2, <2>1
  <2>4. InSet' = InSet \ {a} /\ InBatch' = InBatch
    BY <1>2 DEF InSet, InBatch
  <2>5. Allocated' = Allocated \ {a}
    BY <2>3 DEF Allocated
  <2>6. PointersExact'
    BY <2>2, <2>4, <2>5 DEF PointersExact, InSet, InBatch
  <2>7. \A e \in timers' \cup expired' : e[1] = heap'[e[2]].expiration
    <3>1. \A e \in timers' \cup expired' : e \in timers \cup expired /\ e[2] # a /\ e[2] \in Addrs
      BY <1>2, <2>2 DEF InBatch, TypeOK
    <3> QED
      BY <2>3, <3>1 DEF EntriesInv
  <2>8. activeTimers' = {<<b, heap'[b].seq>> : b \in InSet'}
    <3>1. activeTimers = {<<b, heap[b].seq>> : b \in InSet}
      BY DEF EntriesInv, IdAt
    <3>2. id = <<a, heap[a].seq>>
      BY <1>2 DEF IdAt
    <3> HIDE DEF a
    <3>3. \A b \in InSet : <<b, heap[b].seq>> # id <=> b # a
      BY <3>2
    <3>4. \A b \in InSet' : heap'[b] = heap[b] /\ b \in InSet /\ b # a
      BY <2>1, <2>3, <2>4
    <3> QED
      BY <1>2, <2>4, <3>1, <3>3, <3>4
  <2> QED
    BY <1>2, <2>1, <2>2, <2>3, <2>6, <2>7, <2>8 DEF EntriesInv, IdAt
<1> QED
  BY <1>1, <1>2, CancelInLoopOwners DEF OwnerInv


\* A step that leaves the objects and their owners alone.
LEMMA OwnersUnchanged ==
  ASSUME OwnerInv, UNCHANGED <<heap, timers, activeTimers, expired, queue>>,
         pc' = "calling" <=> pc = "calling"
  PROVE  OwnerInv'
<1>1. EntriesInv'
  BY DEF OwnerInv, EntriesInv, InSet, IdAt
<1>2. QueueInv'
  BY DEF OwnerInv, QueueInv, IdAt
<1>3. PointersExact'
  <2>1. Allocated' = Allocated /\ Queued' = Queued
    BY DEF Allocated, Queued
  <2> QED
    BY <2>1 DEF OwnerInv, PointersExact
<1> QED
  BY <1>1, <1>2, <1>3 DEF OwnerInv

\* A new timer at a free address, put into timers_ at once.
LEMMA NewInSet ==
  ASSUME TypeOK, OwnerInv, NEW a \in Addrs, NEW tm, tm # Free, heap[a] = Free,
         heap' = [heap EXCEPT ![a] = tm], AddTimerInLoop(a, tm),
         UNCHANGED <<expired, pc, queue>>
  PROVE  OwnerInv'
<1> USE DEF OwnerInv
<1>1. InSet \subseteq Addrs /\ InBatch \subseteq Addrs /\ Queued \subseteq Addrs /\ heap \in [Addrs -> Objects]
  BY DEF TypeOK, InSet, InBatch, PointersExact, Allocated
<1>2. a \notin InSet /\ a \notin InBatch /\ a \notin Queued
  BY DEF PointersExact, Allocated, InSet, InBatch
<1>3. \A b \in Addrs : heap'[b] = IF b = a THEN tm ELSE heap[b]
  BY <1>1
<1>4. timers' = timers \cup {<<tm.expiration, a>>} /\ activeTimers' = activeTimers \cup {<<a, tm.seq>>}
  BY DEF AddTimerInLoop
<1>5. InSet' = InSet \cup {a} /\ InBatch' = InBatch /\ Queued' = Queued
  <2>1. InSet' = InSet \cup {a}
    <3>1. \A e \in timers' : e \in timers \/ e[2] = a
      BY <1>4
    <3>2. /\ timers \subseteq timers' /\ <<tm.expiration, a>> \in timers'
          /\ <<tm.expiration, a>>[2] = a
      BY <1>4
    <3> QED
      BY <3>1, <3>2 DEF InSet
  <2>2. InBatch' = InBatch
    BY DEF InBatch
  <2>3. Queued' = Queued
    BY DEF Queued
  <2> QED
    BY <2>1, <2>2, <2>3
<1>6. Allocated' = Allocated \cup {a}
  BY <1>3 DEF Allocated
<1>7. PointersExact'
  BY <1>2, <1>5, <1>6 DEF PointersExact, InSet, InBatch
<1>8. \A e \in timers' \cup expired' : e[1] = heap'[e[2]].expiration
  <2> SUFFICES ASSUME NEW e \in timers' \cup expired' PROVE e[1] = heap'[e[2]].expiration
    OBVIOUS
  <2>1. CASE e = <<tm.expiration, a>>
    BY <1>3, <2>1
  <2>2. CASE e \in timers \cup expired
    <3>1. e[2] \in Addrs /\ e[2] # a
      BY <1>2, <2>2 DEF InSet, InBatch, TypeOK
    <3> QED
      BY <1>3, <2>2, <3>1 DEF EntriesInv
  <2> QED
    BY <1>4, <2>1, <2>2
<1>9. activeTimers' = {<<b, heap'[b].seq>> : b \in InSet'}
  <2>1. activeTimers = {<<b, heap[b].seq>> : b \in InSet}
    BY DEF EntriesInv, IdAt
  <2>2. \A b \in InSet : heap'[b] = heap[b]
    BY <1>1, <1>2, <1>3
  <2>3. heap'[a] = tm
    BY <1>3
  <2> QED
    BY <1>4, <1>5, <2>1, <2>2, <2>3
<1>10. QueueInv'
  <2>1. \A i \in DOMAIN queue : queue[i].op = "add" => queue[i].id[1] \in Queued
    BY DEF Queued
  <2>2. \A b \in Queued : heap'[b] = heap[b]
    BY <1>1, <1>2, <1>3
  <2> QED
    BY <2>1, <2>2 DEF QueueInv, IdAt
<1> QED
  BY <1>7, <1>8, <1>9, <1>10 DEF EntriesInv, IdAt

\* A new timer at a free address whose addTimerInLoop() is queued.
LEMMA NewInQueue ==
  ASSUME TypeOK, OwnerInv, NEW a \in Addrs, NEW tm, tm # Free, heap[a] = Free,
         heap' = [heap EXCEPT ![a] = tm], <<a, tm.seq>> \in TimerIds,
         queue' = Append(queue, [op |-> "add", id |-> <<a, tm.seq>>]),
         UNCHANGED <<expired, pc, timers, activeTimers>>
  PROVE  OwnerInv'
<1> USE DEF OwnerInv
<1> DEFINE f == [op |-> "add", id |-> <<a, tm.seq>>]
<1>1. InSet \subseteq Addrs /\ InBatch \subseteq Addrs /\ Queued \subseteq Addrs /\ heap \in [Addrs -> Objects]
  BY DEF TypeOK, InSet, InBatch, PointersExact, Allocated
<1>2. a \notin InSet /\ a \notin InBatch /\ a \notin Queued
  BY DEF PointersExact, Allocated, InSet, InBatch
<1>3. \A b \in Addrs : heap'[b] = IF b = a THEN tm ELSE heap[b]
  BY <1>1
<1>4. f \in Functors /\ f.op = "add" /\ f.id = <<a, tm.seq>> /\ f.id[1] = a
  BY DEF Functors
<1> HIDE DEF f
<1>5. /\ Queued' = Queued \cup {a}
      /\ \A i \in DOMAIN queue' : \/ i \in DOMAIN queue /\ queue'[i] = queue[i]
                                  \/ i = Len(queue) + 1 /\ queue'[i] = f
  BY <1>4, QueueAppend DEF f
<1>6. Allocated' = Allocated \cup {a}
  BY <1>3 DEF Allocated
<1>7. PointersExact'
  BY <1>2, <1>5, <1>6 DEF PointersExact, InSet, InBatch
<1>8. EntriesInv'
  <2>1. \A b \in InSet \cup InBatch : heap'[b] = heap[b]
    BY <1>1, <1>2, <1>3
  <2>2. \A e \in timers \cup expired : e[2] \in InSet \cup InBatch
    BY DEF InSet, InBatch
  <2> QED
    BY <2>1, <2>2 DEF EntriesInv, IdAt, InSet
<1>9. QueueInv'
  <2>1. \A i \in DOMAIN queue : queue[i].op = "add" => queue[i].id[1] \in Queued
    BY DEF Queued
  <2>2. \A b \in Queued : heap'[b] = heap[b]
    BY <1>1, <1>2, <1>3
  <2>3. ASSUME NEW i \in DOMAIN queue', queue'[i].op = "add"
        PROVE  queue'[i].id = <<queue'[i].id[1], heap'[queue'[i].id[1]].seq>>
    <3>1. CASE i \in DOMAIN queue /\ queue'[i] = queue[i]
      BY <2>1, <2>2, <2>3, <3>1 DEF QueueInv, IdAt
    <3>2. CASE queue'[i] = f
      BY <1>3, <1>4, <3>2
    <3> QED
      BY <1>5, <3>1, <3>2
  <2>4. ASSUME NEW i \in DOMAIN queue', NEW j \in DOMAIN queue', queue'[i].op = "add",
               queue'[j].op = "add", queue'[i].id[1] = queue'[j].id[1]
        PROVE  i = j
    <3>1. CASE i \in DOMAIN queue /\ queue'[i] = queue[i] /\ j \in DOMAIN queue /\ queue'[j] = queue[j]
      BY <2>4, <3>1 DEF QueueInv
    <3>2. CASE i = Len(queue) + 1 /\ queue'[i] = f /\ j \in DOMAIN queue /\ queue'[j] = queue[j]
      BY <1>2, <1>4, <2>1, <2>4, <3>2
    <3>3. CASE j = Len(queue) + 1 /\ queue'[j] = f /\ i \in DOMAIN queue /\ queue'[i] = queue[i]
      BY <1>2, <1>4, <2>1, <2>4, <3>3
    <3> QED
      BY <1>5, <3>1, <3>2, <3>3
  <2> QED
    BY <2>3, <2>4 DEF QueueInv, IdAt
<1> QED
  BY <1>7, <1>8, <1>9


\* handleRead() moves the entries that are due from timers_ to the batch.
LEMMA HandleReadOwners ==
  ASSUME TypeOK, OwnerInv, HandleRead
  PROVE  OwnerInv'
<1> USE DEF OwnerInv
<1>1. /\ UNCHANGED <<heap, queue>> /\ timers' = timers \ Due /\ expired' = Due
      /\ activeTimers' = activeTimers \ DueActive /\ pc' = "calling"
  BY DEF HandleRead, userVars
<1>2. expired = {}
  BY DEF HandleRead, EntriesInv
<1>3. Due \subseteq timers
  BY DEF Due
<1>4. \A e, f \in timers : e[2] = f[2] => e = f
  <2>1. \A e \in timers : e = <<e[1], e[2]>>
    BY DEF TypeOK
  <2>2. \A e \in timers : e[1] = heap[e[2]].expiration
    BY DEF EntriesInv
  <2> QED
    BY <2>1, <2>2
<1>5. InSet' = InSet \ InBatch' /\ InBatch' \subseteq InSet /\ InBatch = {}
  <2>1. InSet' = {e[2] : e \in timers \ Due} /\ InBatch' = {e[2] : e \in Due} /\ InBatch = {}
    BY <1>1, <1>2 DEF InSet, InBatch
  <2> QED
    BY <1>3, <1>4, <2>1 DEF InSet
<1>6. Allocated' = Allocated /\ Queued' = Queued
  BY <1>1 DEF Allocated, Queued
<1>7. PointersExact'
  BY <1>5, <1>6 DEF PointersExact, InSet, InBatch
<1>8. activeTimers' = {<<b, heap[b].seq>> : b \in InSet'}
  <2>1. activeTimers = {<<b, heap[b].seq>> : b \in InSet}
    BY DEF EntriesInv, IdAt
  <2>2. DueActive = {<<b, heap[b].seq>> : b \in InBatch'}
    BY <1>1 DEF DueActive, InBatch
  <2> QED
    BY <1>1, <1>5, <2>1, <2>2
<1>9. EntriesInv'
  BY <1>1, <1>3, <1>8 DEF EntriesInv, IdAt
<1>10. QueueInv'
  BY <1>1 DEF QueueInv, IdAt
<1> QED
  BY <1>7, <1>9, <1>10

\* reset() gives every timer of the batch back to timers_ or deletes it.
LEMMA ResetOwners ==
  ASSUME TypeOK, OwnerInv, Reset
  PROVE  OwnerInv'
<1> USE DEF OwnerInv
<1> DEFINE Again == {e[2] : e \in Restarted}
           Gone == {e[2] : e \in Deleted}
<1>1. /\ UNCHANGED queue /\ expired' = {} /\ pc' = "loop"
      /\ timers' = timers \cup {<<NextExpiration(e[2]), e[2]>> : e \in Restarted}
      /\ activeTimers' = activeTimers \cup {<<e[2], heap[e[2]].seq>> : e \in Restarted}
      /\ heap' = [a \in Addrs |->
           IF \E e \in Restarted : e[2] = a THEN [heap[a] EXCEPT !.expiration = NextExpiration(a)]
           ELSE IF \E e \in Deleted : e[2] = a THEN Free ELSE heap[a]]
  BY DEF Reset, userVars
<1>2. Restarted \subseteq expired /\ Deleted = expired \ Restarted
  BY DEF Restarted, Deleted
<1>3. /\ InSet \subseteq Addrs /\ InBatch \subseteq Addrs /\ Queued \subseteq Addrs
      /\ heap \in [Addrs -> Objects]
  BY DEF TypeOK, InSet, InBatch, PointersExact, Allocated
<1>4. \A e, f \in expired : e[2] = f[2] => e = f
  <2>1. \A e \in expired : e = <<e[1], e[2]>>
    BY DEF TypeOK
  <2>2. \A e \in expired : e[1] = heap[e[2]].expiration
    BY DEF EntriesInv
  <2> QED
    BY <2>1, <2>2
<1>5. InBatch = Again \cup Gone /\ Again \cap Gone = {}
  BY <1>2, <1>4 DEF InBatch
<1>6. \A a \in Addrs :
        /\ a \in Again => heap'[a] = [heap[a] EXCEPT !.expiration = NextExpiration(a)]
        /\ a \in Gone => heap'[a] = Free
        /\ a \notin Again \cup Gone => heap'[a] = heap[a]
  BY <1>1, <1>5
<1>7. \A a \in Again : heap'[a] # Free /\ heap'[a].seq = heap[a].seq /\ heap'[a].expiration = NextExpiration(a)
  <2> SUFFICES ASSUME NEW a \in Again
               PROVE  /\ heap'[a] # Free /\ heap'[a].seq = heap[a].seq
                      /\ heap'[a].expiration = NextExpiration(a)
    OBVIOUS
  <2>1. a \in Addrs /\ heap[a] \in Objects /\ heap[a].interval > 0
    BY <1>3, <1>5 DEF Restarted
  <2>2. heap'[a] = [heap[a] EXCEPT !.expiration = NextExpiration(a)]
    BY <1>6, <2>1
  <2>3. /\ heap'[a].interval = heap[a].interval /\ heap'[a].seq = heap[a].seq
        /\ heap'[a].expiration = NextExpiration(a)
    BY <2>1, <2>2 DEF Objects
  <2>4. heap'[a] # Free
    BY <2>1, <2>3 DEF Free
  <2> QED
    BY <2>3, <2>4
<1>8. InSet' = InSet \cup Again /\ InBatch' = {}
  <2>1. \A e \in timers' : e \in timers \/ \E f \in Restarted : e[2] = f[2]
    BY <1>1
  <2>2. /\ timers \subseteq timers'
        /\ \A f \in Restarted : /\ <<NextExpiration(f[2]), f[2]>> \in timers'
                                /\ <<NextExpiration(f[2]), f[2]>>[2] = f[2]
    BY <1>1
  <2>3. InSet' = InSet \cup Again
    BY <2>1, <2>2 DEF InSet
  <2> QED
    BY <1>1, <2>3 DEF InBatch
<1>9. Queued' = Queued
  BY <1>1 DEF Queued
<1> HIDE DEF Again, Gone
<1>10. Again \subseteq Addrs /\ Gone \subseteq Addrs
  BY <1>3, <1>5
<1>11. Allocated' = Allocated \ Gone
  <2>1. Again \subseteq Allocated
    BY <1>5 DEF PointersExact, InBatch
  <2>2. \A a \in Addrs : heap'[a] # Free <=> (heap[a] # Free /\ a \notin Gone)
    BY <1>5, <1>6, <1>7, <2>1 DEF Allocated
  <2> QED
    BY <2>2 DEF Allocated
<1>12. PointersExact'
  BY <1>5, <1>8, <1>9, <1>11 DEF PointersExact, InSet, InBatch
<1>13. \A b \in InSet \cup Queued : heap'[b] = heap[b]
  BY <1>3, <1>5, <1>6 DEF PointersExact, InSet, InBatch
<1>14. \A e \in timers' : e[1] = heap'[e[2]].expiration
  <2> SUFFICES ASSUME NEW e \in timers' PROVE e[1] = heap'[e[2]].expiration
    OBVIOUS
  <2>1. CASE e \in timers
    BY <1>13, <2>1 DEF EntriesInv, InSet
  <2>2. CASE \E f \in Restarted : e = <<NextExpiration(f[2]), f[2]>>
    BY <1>7, <2>2 DEF Again
  <2> QED
    BY <1>1, <2>1, <2>2
<1>15. activeTimers' = {<<b, heap'[b].seq>> : b \in InSet'}
  <2>1. activeTimers = {<<b, heap[b].seq>> : b \in InSet}
    BY DEF EntriesInv, IdAt
  <2>2. {<<e[2], heap[e[2]].seq>> : e \in Restarted} = {<<b, heap[b].seq>> : b \in Again}
    BY DEF Again
  <2>3. \A b \in InSet \cup Again : heap'[b].seq = heap[b].seq
    BY <1>7, <1>13
  <2>4. {<<b, heap'[b].seq>> : b \in InSet \cup Again} = {<<b, heap[b].seq>> : b \in InSet \cup Again}
    BY <2>3
  <2>5. activeTimers' = activeTimers \cup {<<b, heap[b].seq>> : b \in Again}
    BY <1>1, <2>2
  <2> QED
    BY <1>8, <2>1, <2>4, <2>5
<1>16. EntriesInv'
  BY <1>1, <1>14, <1>15 DEF EntriesInv, IdAt
<1>17. QueueInv'
  <2>1. \A i \in DOMAIN queue : queue[i].op = "add" => queue[i].id[1] \in Queued
    BY DEF Queued
  <2>2. \A i \in DOMAIN queue : queue[i].op = "add" => queue[i].id = <<queue[i].id[1], heap'[queue[i].id[1]].seq>>
    BY <1>13, <2>1 DEF QueueInv, IdAt
  <2> QED
    BY <1>1, <2>2 DEF QueueInv, IdAt
<1> QED
  BY <1>12, <1>16, <1>17


\* Every step keeps each timer with exactly one owner.
LEMMA OwnersInductive ==
  TypeOK /\ SequenceInv /\ OwnerInv /\ [Next]_vars => OwnerInv'
<1> SUFFICES ASSUME TypeOK, SequenceInv, OwnerInv, [Next]_vars PROVE OwnerInv'
  OBVIOUS
<1>1. CASE Tick \/ PollTimerfd \/ RunTimer \/ UNCHANGED vars
  BY <1>1, OwnersUnchanged DEF Tick, PollTimerfd, RunTimer, vars, queueVars, batchVars, userVars
<1>2. CASE RunFunctor
  <2>1. queue # <<>> /\ queue' = Tail(queue) /\ UNCHANGED <<pc, expired>> /\ QueueInv
    BY <1>2 DEF RunFunctor, batchVars, OwnerInv
  <2>2. /\ 1 \in DOMAIN queue /\ Head(queue) = queue[1]
        /\ \A i \in DOMAIN queue' : i + 1 \in DOMAIN queue /\ queue'[i] = queue[i + 1]
        /\ DOMAIN queue \subseteq Nat /\ DOMAIN queue' \subseteq Nat
    BY <2>1, QueueTail
  <2>3. ASSUME \A a \in Queued' : heap'[a] = heap[a] PROVE QueueInv'
    <3>1. \A i \in DOMAIN queue' : queue'[i].op = "add" => queue'[i].id[1] \in Queued'
      BY DEF Queued
    <3>2. \A i \in DOMAIN queue' : queue'[i].op = "add" =>
            queue'[i].id = <<queue'[i].id[1], heap'[queue'[i].id[1]].seq>>
      BY <2>1, <2>2, <2>3, <3>1 DEF QueueInv, IdAt
    <3>3. \A i, j \in DOMAIN queue' :
            queue'[i].op = "add" /\ queue'[j].op = "add" /\ queue'[i].id[1] = queue'[j].id[1]
            => i + 1 = j + 1 /\ i \in Nat /\ j \in Nat
      BY <2>1, <2>2 DEF QueueInv
    <3> QED
      BY <3>2, <3>3 DEF QueueInv, IdAt
  <2>4. CASE Head(queue).op = "cancel" /\ CancelInLoop(Head(queue).id)
    <3>1. Queued' = Queued /\ Head(queue).id \in TimerIds
      BY <2>1, <2>2, <2>4, QueueTail, QueuedFunctor
    <3>2. EntriesInv' /\ PointersExact' /\ \A a \in Queued : heap'[a] = heap[a]
      BY <2>1, <2>4, <3>1, CancelOwners
    <3> QED
      BY <2>3, <3>1, <3>2 DEF OwnerInv
  <2>5. CASE /\ Head(queue).op = "add"
             /\ AddTimerInLoop(Head(queue).id[1], heap[Head(queue).id[1]])
             /\ UNCHANGED <<heap, historyVars>>
    <3> DEFINE a == Head(queue).id[1]
    <3>1. a \in Queued /\ Queued' = Queued \ {a}
      BY <2>1, <2>5, QueueTail
    <3>2. /\ timers' = timers \cup {<<heap[a].expiration, a>>}
          /\ activeTimers' = activeTimers \cup {<<a, heap[a].seq>>} /\ heap' = heap
      BY <2>5 DEF AddTimerInLoop
    <3> HIDE DEF a
    <3>3. InSet' = InSet \cup {a} /\ InBatch' = InBatch /\ Allocated' = Allocated
      <4>1. \A e \in timers' : e \in timers \/ e[2] = a
        BY <3>2
      <4>2. /\ timers \subseteq timers' /\ <<heap[a].expiration, a>> \in timers'
            /\ <<heap[a].expiration, a>>[2] = a
        BY <3>2
      <4>3. InSet' = InSet \cup {a}
        BY <4>1, <4>2 DEF InSet
      <4> QED
        BY <2>1, <3>2, <4>3 DEF InBatch, Allocated
    <3>4. PointersExact'
      BY <3>1, <3>3 DEF OwnerInv, PointersExact, InSet, InBatch
    <3>5. \A e \in timers' \cup expired' : e[1] = heap'[e[2]].expiration
      BY <2>1, <3>2 DEF OwnerInv, EntriesInv
    <3>6. activeTimers' = {<<b, heap'[b].seq>> : b \in InSet'}
      <4>1. activeTimers = {<<b, heap[b].seq>> : b \in InSet}
        BY DEF OwnerInv, EntriesInv, IdAt
      <4> QED
        BY <3>2, <3>3, <4>1
    <3>7. EntriesInv'
      BY <2>1, <3>5, <3>6 DEF OwnerInv, EntriesInv, IdAt
    <3> QED
      BY <2>3, <3>2, <3>4, <3>7 DEF OwnerInv
  <2> QED
    BY <1>2, <2>4, <2>5 DEF RunFunctor
<1>3. CASE HandleRead
  BY <1>3, HandleReadOwners
<1>4. CASE Reset
  BY <1>4, ResetOwners
<1>5. ASSUME NEW id \in ids, OwnCancel(id) PROVE OwnerInv'
  <2>1. id \in TimerIds /\ CancelInLoop(id) /\ UNCHANGED <<pc, expired, queue>>
    BY <1>5 DEF OwnCancel, TypeOK, batchVars, userVars
  <2>2. Queued' = Queued
    BY <2>1 DEF Queued
  <2>3. EntriesInv' /\ PointersExact' /\ \A a \in Queued : heap'[a] = heap[a]
    BY <2>1, <2>2, CancelOwners
  <2>4. \A i \in DOMAIN queue : queue[i].op = "add" => queue[i].id[1] \in Queued
    BY DEF Queued
  <2>5. \A i \in DOMAIN queue : queue[i].op = "add" => queue[i].id = <<queue[i].id[1], heap'[queue[i].id[1]].seq>>
    BY <2>3, <2>4 DEF OwnerInv, QueueInv, IdAt
  <2>6. QueueInv'
    BY <2>1, <2>5 DEF OwnerInv, QueueInv, IdAt
  <2> QED
    BY <2>3, <2>6 DEF OwnerInv
<1>6. ASSUME NEW id \in ids, NEW t \in Threads, Cancel(t, id) PROVE OwnerInv'
  <2> DEFINE f == [op |-> "cancel", id |-> id]
  <2>1. f \in Functors /\ f.op # "add" /\ queue' = Append(queue, f)
        /\ UNCHANGED <<heap, timers, activeTimers, expired, pc>>
    BY <1>6 DEF Cancel, TypeOK, Functors, queueVars, batchVars
  <2> HIDE DEF f
  <2>2. /\ Queued' = Queued
        /\ \A i \in DOMAIN queue' : queue'[i].op = "add" => i \in DOMAIN queue /\ queue'[i] = queue[i]
    BY <2>1, QueueAppend
  <2>3. QueueInv'
    BY <2>1, <2>2 DEF OwnerInv, QueueInv, IdAt
  <2>4. EntriesInv'
    BY <2>1 DEF OwnerInv, EntriesInv, IdAt, InSet
  <2>5. PointersExact'
    <3>1. Allocated' = Allocated
      BY <2>1 DEF Allocated
    <3> QED
      BY <2>1, <2>2, <3>1 DEF OwnerInv, PointersExact
  <2> QED
    BY <2>3, <2>4, <2>5 DEF OwnerInv
<1>7. ASSUME NEW t \in Threads, ReadSequence(t) PROVE OwnerInv'
  BY <1>7, OwnersUnchanged DEF ReadSequence, queueVars, batchVars
<1>8. ASSUME NEW a \in Addrs, NEW delay \in Delays, NEW interval \in Intervals,
             CanAllocate(a)
      PROVE  /\ heap[a] = Free /\ NewTimer(delay, interval) # Free
             /\ <<a, NewTimer(delay, interval).seq>> \in TimerIds
  <2>1. NewTimer(delay, interval).seq = created + 1 /\ created \in Nat /\ created < MaxSeq
    BY <1>8 DEF NewTimer, CanAllocate, TypeOK
  <2> QED
    BY <1>8, <2>1, TimerAssumption DEF Free, CanAllocate, TimerIds
<1>9. ASSUME NEW a \in Addrs, NEW delay \in Delays, NEW interval \in Intervals,
             OwnAddTimer(a, delay, interval)
      PROVE  OwnerInv'
  <2> DEFINE tm == NewTimer(delay, interval)
  <2>1. /\ CanAllocate(a) /\ heap' = [heap EXCEPT ![a] = tm] /\ AddTimerInLoop(a, tm)
        /\ UNCHANGED <<expired, pc, queue>>
    BY <1>9 DEF OwnAddTimer, batchVars
  <2>2. heap[a] = Free /\ tm # Free
    BY <1>8, <2>1
  <2> HIDE DEF tm
  <2> QED
    BY <2>1, <2>2, NewInSet
<1>10. ASSUME NEW t \in Threads, NEW a \in Addrs, NEW delay \in Delays, NEW interval \in Intervals,
              AddTimer(t, a, delay, interval)
       PROVE  OwnerInv'
  <2> DEFINE tm == NewTimer(delay, interval)
  <2>1. /\ CanAllocate(a) /\ heap' = [heap EXCEPT ![a] = tm]
        /\ queue' = Append(queue, [op |-> "add", id |-> <<a, tm.seq>>])
        /\ UNCHANGED <<expired, pc, timers, activeTimers>>
    BY <1>10 DEF AddTimer, queueVars, batchVars
  <2>2. heap[a] = Free /\ tm # Free /\ <<a, tm.seq>> \in TimerIds
    BY <1>8, <2>1
  <2> HIDE DEF tm
  <2> QED
    BY <2>1, <2>2, NewInQueue
<1> QED
  BY <1>1, <1>2, <1>3, <1>4, <1>5, <1>6, <1>7, <1>9, <1>10 DEF Next

\* The initial state has no timers.
LEMMA OwnersInitially == Init => OwnerInv
<1> SUFFICES ASSUME Init PROVE OwnerInv
  OBVIOUS
<1>1. DOMAIN queue = {} /\ timers = {} /\ activeTimers = {} /\ expired = {} /\ \A a \in Addrs : heap[a] = Free
  BY DEF Init
<1>2. Queued = {} /\ Allocated = {} /\ InSet = {}
  BY <1>1 DEF Queued, Allocated, InSet
<1> QED
  BY <1>1, <1>2 DEF OwnerInv, EntriesInv, QueueInv, PointersExact

\* timers_ and activeTimers_ hold the same timers, under the expiration and
\* the sequence their objects have.
LEMMA EntriesAgree == TypeOK /\ OwnerInv => SetsAgree
<1> SUFFICES ASSUME TypeOK, OwnerInv PROVE SetsAgree
  OBVIOUS
<1>1. activeTimers = {<<a, heap[a].seq>> : a \in {e[2] : e \in timers}}
  BY DEF OwnerInv, EntriesInv, IdAt, InSet
<1>2. {x[1] : x \in activeTimers} = {e[2] : e \in timers}
  <2>1. \A x \in activeTimers : x[1] \in {e[2] : e \in timers}
    BY <1>1
  <2>2. \A a \in {e[2] : e \in timers} : <<a, heap[a].seq>> \in activeTimers /\ <<a, heap[a].seq>>[1] = a
    BY <1>1
  <2> QED
    BY <2>1, <2>2
<1>3. \A e \in timers : e = <<e[1], e[2]>>
  BY DEF TypeOK
<1>4. \A e \in timers : e[1] = heap[e[2]].expiration
  BY DEF OwnerInv, EntriesInv
<1>5. timers = {<<heap[a].expiration, a>> : a \in {e[2] : e \in timers}}
  BY <1>3, <1>4
<1> QED
  BY <1>1, <1>2, <1>5 DEF SetsAgree

\* The asserts on the two sets: they always hold the same timers.
THEOREM SetsAlwaysAgree == Spec => []SetsAgree
  BY TypeCorrect, OwnersInitially, OwnersInductive, EntriesAgree, PTL DEF Spec

\* Every raw Timer pointer is to a live timer, every timer has one owner and
\* none leaks, for any interleaving of add, cancel, expiry and reset.
THEOREM PointersAlwaysExact == Spec => []PointersExact
<1>1. OwnerInv => PointersExact
  BY DEF OwnerInv
<1> QED
  BY <1>1, TypeCorrect, OwnersInitially, OwnersInductive, PTL DEF Spec


-----------------------------------------------------------------------------
(* The timerfd.                                                            *)

\* addTimerInLoop() leaves the timerfd armed for the earliest timer, if it
\* was so before.
LEMMA AddKeepsArmed ==
  ASSUME TypeOK, NEW a \in Addrs, NEW tm, tm.expiration \in Nat, AddTimerInLoop(a, tm),
         timers # {} => /\ timerfd # Disarmed
                        /\ \A e \in timers : timerfd <= e[1] \/ timerfd <= now + 1
  PROVE  /\ timerfd' # Disarmed
         /\ \A e \in timers' : timerfd' <= e[1] \/ timerfd' <= now + 1
<1> DEFINE when == tm.expiration
<1>1. now \in Nat /\ now >= 1 /\ timerfd \in Nat /\ \A e \in timers : e[1] \in Nat
  BY TimerAssumption DEF TypeOK
<1>2. timers # {} => First(timers) \in timers /\ \A e \in timers : First(timers)[1] <= e[1]
  BY FirstIsEarliest DEF TypeOK
<1>3. /\ timerfd' = IF EarliestChanged(when) THEN Rearm(when) ELSE timerfd
      /\ \A e \in timers' : e \in timers \/ e[1] = when
  BY DEF AddTimerInLoop
<1>4. Rearm(when) \in Nat /\ Rearm(when) # 0 /\ (Rearm(when) <= when \/ Rearm(when) <= now + 1)
  BY <1>1 DEF Rearm
<1>5. CASE EarliestChanged(when)
  BY <1>1, <1>2, <1>3, <1>4, <1>5 DEF EarliestChanged, Disarmed
<1>6. CASE ~EarliestChanged(when)
  BY <1>1, <1>2, <1>3, <1>6 DEF EarliestChanged, Disarmed
<1> QED
  BY <1>5, <1>6

\* No step disarms the timerfd, or arms it too late, while timers wait.
LEMMA ArmedInductive ==
  TypeOK /\ TypeOK' /\ SequenceInv /\ ArmedForEarliest /\ [Next]_vars => ArmedForEarliest'
<1> SUFFICES ASSUME TypeOK, TypeOK', SequenceInv, ArmedForEarliest, [Next]_vars PROVE ArmedForEarliest'
  OBVIOUS
<1> USE TimerAssumption
<1>1. now \in Nat /\ now >= 1 /\ timerfd \in Nat /\ \A e \in timers : e[1] \in Nat
  BY DEF TypeOK
<1>2. CASE Tick
  BY <1>1, <1>2 DEF Tick, ArmedForEarliest, queueVars, batchVars
<1>3. ASSUME NEW id \in TimerIds, CancelInLoop(id), UNCHANGED <<pc, now>> PROVE ArmedForEarliest'
  <2>1. timers' \subseteq timers /\ timerfd' = timerfd
    BY <1>3, CancelInLoopType
  <2> QED
    BY <1>3, <2>1 DEF ArmedForEarliest
<1>4. ASSUME NEW a \in Addrs, NEW tm, tm.expiration \in Nat, AddTimerInLoop(a, tm), UNCHANGED <<pc, now>>
      PROVE  ArmedForEarliest'
  BY <1>4, AddKeepsArmed DEF ArmedForEarliest
<1>5. CASE RunFunctor
  <2>1. queue # <<>> /\ queue \in Seq(Functors) /\ UNCHANGED <<pc, now>>
    BY <1>5 DEF RunFunctor, batchVars, TypeOK
  <2>2. 1 \in DOMAIN queue /\ Head(queue) = queue[1]
    BY <2>1, LenProperties, EmptySeq
  <2>3. CASE Head(queue).op = "cancel" /\ CancelInLoop(Head(queue).id)
    BY <1>3, <2>1, <2>2, <2>3, QueuedFunctor
  <2>4. CASE Head(queue).op = "add" /\ AddTimerInLoop(Head(queue).id[1], heap[Head(queue).id[1]])
    <3>1. Head(queue).id[1] \in Addrs
      BY <2>2, <2>4 DEF SequenceInv
    <3>2. heap[Head(queue).id[1]].expiration \in Nat
      BY <3>1, ObjectFields
    <3> QED
      BY <1>4, <2>1, <2>4, <3>1, <3>2
  <2> QED
    BY <1>5, <2>3, <2>4 DEF RunFunctor
<1>6. CASE PollTimerfd
  BY <1>6 DEF PollTimerfd, ArmedForEarliest, queueVars
<1>7. CASE HandleRead \/ RunTimer
  BY <1>7 DEF HandleRead, RunTimer, ArmedForEarliest
<1>8. CASE Reset
  <2> SUFFICES ASSUME timers' # {}
               PROVE  /\ timerfd' # Disarmed
                      /\ \A e \in timers' : timerfd' <= e[1] \/ timerfd' <= now' + 1
    BY DEF ArmedForEarliest
  <2>1. First(timers') \in timers' /\ \A e \in timers' : First(timers')[1] <= e[1]
    BY FirstIsEarliest DEF TypeOK
  <2>2. timerfd' = Rearm(First(timers')[1]) /\ now' = now
    BY <1>8 DEF Reset
  <2>3. \A e \in timers' : e[1] \in Nat
    BY DEF TypeOK
  <2> QED
    BY <1>1, <2>1, <2>2, <2>3 DEF Rearm, Disarmed
<1>9. ASSUME NEW id \in ids, OwnCancel(id) PROVE ArmedForEarliest'
  BY <1>3, <1>9 DEF OwnCancel, TypeOK, batchVars
<1>10. ASSUME NEW id \in ids, NEW t \in Threads, Cancel(t, id) PROVE ArmedForEarliest'
  BY <1>10 DEF Cancel, ArmedForEarliest, queueVars, batchVars
<1>11. ASSUME NEW t \in Threads, ReadSequence(t) PROVE ArmedForEarliest'
  BY <1>11 DEF ReadSequence, ArmedForEarliest, queueVars, batchVars
<1>12. ASSUME NEW a \in Addrs, NEW delay \in Delays, NEW interval \in Intervals,
              OwnAddTimer(a, delay, interval)
       PROVE  ArmedForEarliest'
  <2>1. NewTimer(delay, interval).expiration \in Nat
    BY <1>1 DEF NewTimer
  <2> QED
    BY <1>4, <1>12, <2>1 DEF OwnAddTimer, batchVars
<1>13. ASSUME NEW t \in Threads, NEW a \in Addrs, NEW delay \in Delays, NEW interval \in Intervals,
              AddTimer(t, a, delay, interval)
       PROVE  ArmedForEarliest'
  BY <1>13 DEF AddTimer, ArmedForEarliest, queueVars, batchVars
<1>14. CASE UNCHANGED vars
  BY <1>14 DEF vars, ArmedForEarliest, queueVars, batchVars
<1> QED
  BY <1>2, <1>5, <1>6, <1>7, <1>8, <1>9, <1>10, <1>11, <1>12, <1>13, <1>14 DEF Next

\* No timer is forgotten: outside handleRead() the timerfd is armed for the
\* earliest of them, however adds, cancels and resets interleave.
THEOREM AlwaysArmed == Spec => []ArmedForEarliest
<1>1. Init => ArmedForEarliest
  BY DEF Init, ArmedForEarliest
<1> QED
  BY <1>1, TypeCorrect, ArmedInductive, PTL DEF Spec

-----------------------------------------------------------------------------
(* Cancellation.                                                           *)

\* The strengthening of CancelIsFinal: of the timers that exist, wherever
\* they are, cancelInLoop() has been called for the current one only before
\* its addTimerInLoop(), or while it was in the batch, and then it is in
\* cancelingTimers_, where reset() will find it.
CancelInv ==
  \A a \in Allocated : IdAt(a) \in handled =>
    \/ IdAt(a) \in overtaken
    \/ a \in InBatch /\ IdAt(a) \in cancelingTimers

\* cancelInLoop() is final for the timer it was given and nothing to others.
LEMMA CancelInLoopIsFinal ==
  ASSUME TypeOK, OwnerInv, CancelInv, NEW id \in TimerIds, CancelInLoop(id),
         UNCHANGED <<pc, expired>>
  PROVE  CancelInv'
<1> SUFFICES ASSUME NEW a \in Allocated', IdAt(a)' \in handled'
             PROVE  \/ IdAt(a)' \in overtaken'
                    \/ a \in InBatch' /\ IdAt(a)' \in cancelingTimers'
  BY DEF CancelInv
<1>1. a \in Addrs /\ heap'[a] # Free
  BY DEF Allocated
<1>2. a \in Allocated /\ IdAt(a)' = IdAt(a) /\ heap'[a] = heap[a]
  BY <1>1, CancelInLoopType DEF Allocated, IdAt
<1>3. InBatch' = InBatch /\ handled' = handled \cup {id} /\ overtaken \subseteq overtaken'
  BY DEF InBatch, CancelInLoop
<1>4. cancelingTimers \subseteq cancelingTimers'
  BY DEF CancelInLoop, CancelRunning
<1>5. CASE IdAt(a) \in handled
  BY <1>2, <1>3, <1>4, <1>5 DEF CancelInv
<1>6. CASE IdAt(a) = id
  <2>1. CASE a \in InSet
    <3>1. id \in activeTimers
      BY <1>6, <2>1 DEF OwnerInv, EntriesInv
    <3>2. heap' = [heap EXCEPT ![id[1]] = Free]
      BY <3>1 DEF CancelInLoop, SameTimer
    <3>3. id[1] = a
      BY <1>6 DEF IdAt
    <3> QED
      BY <1>1, <3>2, <3>3 DEF TypeOK
  <2>2. CASE a \in InBatch
    <3>1. pc = "calling"
      BY <2>2 DEF OwnerInv, EntriesInv, InBatch
    <3>2. id \notin activeTimers
      <4>1. a \notin InSet
        BY <2>2 DEF OwnerInv, PointersExact, InSet, InBatch
      <4>2. \A b \in InSet : IdAt(b) # IdAt(a)
        BY <4>1 DEF IdAt
      <4> QED
        BY <1>6, <4>2 DEF OwnerInv, EntriesInv
    <3>3. id \in cancelingTimers'
      BY <3>1, <3>2 DEF CancelInLoop, SameTimer, CancelRunning
    <3> QED
      BY <1>2, <1>3, <1>6, <2>2, <3>3
  <2>3. CASE a \in Queued
    <3>1. PICK i \in DOMAIN queue : queue[i].op = "add" /\ queue[i].id[1] = a
      BY <2>3 DEF Queued
    <3>2. queue[i].id = id
      BY <1>6, <3>1 DEF OwnerInv, QueueInv
    <3>3. queue[i] \in Functors
      BY QueuedFunctor
    <3>4. queue[i] = [op |-> "add", id |-> id]
      BY <3>1, <3>2, <3>3 DEF Functors
    <3>5. id \in overtaken'
      BY <3>4 DEF CancelInLoop, NotYetAdded
    <3> QED
      BY <1>2, <1>6, <3>5
  <2> QED
    BY <1>2, <2>1, <2>2, <2>3 DEF OwnerInv, PointersExact, InSet, InBatch
<1> QED
  BY <1>2, <1>3, <1>5, <1>6

\* The TimerId of a new timer is one that cancelInLoop() was never given.
LEMMA NewIsNotHandled ==
  ASSUME TypeOK, SequenceInv, CancelInv, NEW a \in Addrs, NEW tm, tm.seq = created + 1,
         heap' = [heap EXCEPT ![a] = tm], UNCHANGED <<handled, overtaken, cancelingTimers, expired>>
  PROVE  CancelInv'
<1> SUFFICES ASSUME NEW b \in Allocated', IdAt(b)' \in handled'
             PROVE  \/ IdAt(b)' \in overtaken'
                    \/ b \in InBatch' /\ IdAt(b)' \in cancelingTimers'
  BY DEF CancelInv
<1>1. \A c \in Addrs : heap'[c] = IF c = a THEN tm ELSE heap[c]
  BY DEF TypeOK
<1>2. b \in Addrs /\ heap'[b] # Free
  BY DEF Allocated
<1>3. CASE b = a
  <2>1. <<a, created + 1>> \in handled
    BY <1>1, <1>3 DEF IdAt
  <2>2. created + 1 <= created /\ created \in Nat
    BY <2>1 DEF SequenceInv, TypeOK
  <2> QED
    BY <2>2
<1>4. CASE b # a
  BY <1>1, <1>2, <1>4 DEF CancelInv, Allocated, IdAt, InBatch
<1> QED
  BY <1>3, <1>4

\* Every step keeps the record of cancellations straight.
LEMMA CancelInductive ==
  TypeOK /\ SequenceInv /\ OwnerInv /\ CancelInv /\ [Next]_vars => CancelInv'
<1> SUFFICES ASSUME TypeOK, SequenceInv, OwnerInv, CancelInv, [Next]_vars PROVE CancelInv'
  OBVIOUS
<1>1. ASSUME UNCHANGED <<heap, handled, overtaken, cancelingTimers, expired>> PROVE CancelInv'
  BY <1>1 DEF CancelInv, Allocated, IdAt, InBatch
<1>2. CASE Tick \/ PollTimerfd \/ RunTimer \/ UNCHANGED vars
  BY <1>1, <1>2 DEF Tick, PollTimerfd, RunTimer, vars, queueVars, batchVars, historyVars
<1>3. CASE RunFunctor
  <2>1. queue # <<>> /\ queue \in Seq(Functors) /\ UNCHANGED <<pc, expired>>
    BY <1>3 DEF RunFunctor, batchVars, TypeOK
  <2>2. 1 \in DOMAIN queue /\ Head(queue) = queue[1]
    BY <2>1, LenProperties, EmptySeq
  <2>3. CASE CancelInLoop(Head(queue).id)
    BY <2>1, <2>2, <2>3, QueuedFunctor, CancelInLoopIsFinal
  <2>4. CASE /\ AddTimerInLoop(Head(queue).id[1], heap[Head(queue).id[1]])
             /\ UNCHANGED <<heap, historyVars>>
    BY <1>1, <2>1, <2>4 DEF AddTimerInLoop, historyVars
  <2> QED
    BY <1>3, <2>3, <2>4 DEF RunFunctor
<1>4. CASE HandleRead
  <2>1. expired = {} /\ UNCHANGED <<heap, handled, overtaken>>
    BY <1>4 DEF HandleRead, OwnerInv, EntriesInv, historyVars
  <2>2. \A a \in Allocated : IdAt(a) \in handled => IdAt(a) \in overtaken
    BY <2>1 DEF CancelInv, InBatch
  <2> QED
    BY <2>1, <2>2 DEF CancelInv, Allocated, IdAt
<1>5. CASE Reset
  <2> SUFFICES ASSUME NEW a \in Allocated', IdAt(a)' \in handled'
               PROVE  IdAt(a)' \in overtaken'
    BY DEF CancelInv
  <2>1. UNCHANGED <<handled, overtaken, cancelingTimers>> /\ a \in Addrs /\ heap'[a] # Free
    BY <1>5 DEF Reset, historyVars, Allocated
  <2>2. \/ /\ \E e \in Restarted : e[2] = a
           /\ heap'[a] = [heap[a] EXCEPT !.expiration = NextExpiration(a)]
        \/ heap'[a] = heap[a] /\ ~\E e \in expired : e[2] = a
    BY <1>5, <2>1 DEF Reset, Deleted, Restarted
  <2>3. heap'[a].seq = heap[a].seq
    BY <2>1, <2>2, ObjectFields DEF Objects
  <2>4. IdAt(a)' = IdAt(a)
    BY <2>3 DEF IdAt
  <2>5. a \in Allocated
    BY <2>1, <2>2 DEF Allocated, Free, Restarted, OwnerInv, PointersExact
  <2>6. ~(a \in InBatch /\ IdAt(a) \in cancelingTimers)
    BY <2>2 DEF Restarted, IdAt, InBatch
  <2> QED
    BY <2>1, <2>4, <2>5, <2>6 DEF CancelInv
<1>6. ASSUME NEW id \in ids, OwnCancel(id) PROVE CancelInv'
  BY <1>6, CancelInLoopIsFinal DEF OwnCancel, TypeOK, batchVars
<1>7. ASSUME NEW id \in ids, NEW t \in Threads, Cancel(t, id) PROVE CancelInv'
  BY <1>1, <1>7 DEF Cancel, queueVars, batchVars, historyVars
<1>8. ASSUME NEW t \in Threads, ReadSequence(t) PROVE CancelInv'
  BY <1>1, <1>8 DEF ReadSequence, queueVars, batchVars, historyVars
<1>9. \A delay, interval : NewTimer(delay, interval).seq = created + 1
  BY DEF NewTimer
<1>10. ASSUME NEW a \in Addrs, NEW delay \in Delays, NEW interval \in Intervals,
              OwnAddTimer(a, delay, interval)
       PROVE  CancelInv'
  BY <1>9, <1>10, NewIsNotHandled DEF OwnAddTimer, AddTimerInLoop, batchVars, historyVars
<1>11. ASSUME NEW t \in Threads, NEW a \in Addrs, NEW delay \in Delays, NEW interval \in Intervals,
              AddTimer(t, a, delay, interval)
       PROVE  CancelInv'
  BY <1>9, <1>11, NewIsNotHandled DEF AddTimer, queueVars, batchVars, historyVars
<1> QED
  BY <1>2, <1>3, <1>4, <1>5, <1>6, <1>7, <1>8, <1>10, <1>11 DEF Next

\* cancel() is final, also from the timer's own callback, for a timer of the
\* same batch, and with TimerIds of timers long gone.
THEOREM CancelAlwaysFinal == Spec => []CancelIsFinal
<1>1. Init => CancelInv
  BY DEF Init, CancelInv
<1>2. TypeOK /\ OwnerInv /\ CancelInv => CancelIsFinal
  <2> SUFFICES ASSUME OwnerInv, CancelInv, pc # "calling", NEW x \in activeTimers,
                      x \in handled, x \notin overtaken
               PROVE  FALSE
    BY DEF CancelIsFinal
  <2>1. PICK a \in InSet : x = IdAt(a)
    BY DEF OwnerInv, EntriesInv
  <2>2. a \in Allocated /\ a \notin InBatch
    BY DEF OwnerInv, PointersExact, InSet, InBatch
  <2> QED
    BY <2>1, <2>2 DEF CancelInv
<1> QED
  BY <1>1, <1>2, TypeCorrect, OwnersInitially, OwnersInductive, CancelInductive, PTL DEF Spec

\* A timer leaves the queue only because it is due or because cancelInLoop()
\* was given its own TimerId.
THEOREM LeavesOnlyDueOrCancelled == Spec => OnlyDueOrCancelledLeave
<1> DEFINE Leave == \A x \in activeTimers \ activeTimers' :
                      x \in handled' \/ heap[x[1]].expiration <= now
<1>1. TypeOK /\ OwnerInv /\ [Next]_vars => [Leave]_vars
  <2> SUFFICES ASSUME TypeOK, OwnerInv, Next PROVE Leave
    BY DEF vars
  <2>1. ASSUME NEW id, CancelInLoop(id) PROVE Leave
    BY <2>1 DEF CancelInLoop, SameTimer
  <2>2. ASSUME activeTimers \subseteq activeTimers' PROVE Leave
    BY <2>2
  <2>3. CASE HandleRead
    <3>1. \A x \in activeTimers \ activeTimers' : \E e \in timers : e[1] <= now /\ x[1] = e[2]
      BY <2>3 DEF HandleRead, DueActive, Due
    <3> QED
      BY <3>1 DEF OwnerInv, EntriesInv
  <2> HIDE DEF Leave
  <2>4. CASE Tick \/ PollTimerfd \/ RunTimer \/ Reset
    BY <2>2, <2>4 DEF Tick, PollTimerfd, RunTimer, Reset, queueVars
  <2>5. CASE RunFunctor
    BY <2>1, <2>2, <2>5 DEF RunFunctor, AddTimerInLoop
  <2>6. ASSUME NEW id \in ids, OwnCancel(id) PROVE Leave
    BY <2>1, <2>6 DEF OwnCancel
  <2>7. ASSUME NEW id \in ids, NEW t \in Threads, Cancel(t, id) PROVE Leave
    BY <2>2, <2>7 DEF Cancel, queueVars
  <2>8. ASSUME NEW t \in Threads, ReadSequence(t) PROVE Leave
    BY <2>2, <2>8 DEF ReadSequence, queueVars
  <2>9. ASSUME NEW a \in Addrs, NEW delay \in Delays, NEW interval \in Intervals,
               OwnAddTimer(a, delay, interval)
        PROVE  Leave
    BY <2>2, <2>9 DEF OwnAddTimer, AddTimerInLoop
  <2>10. ASSUME NEW t \in Threads, NEW a \in Addrs, NEW delay \in Delays, NEW interval \in Intervals,
                AddTimer(t, a, delay, interval)
         PROVE  Leave
    BY <2>2, <2>10 DEF AddTimer, queueVars
  <2> QED
    BY <2>3, <2>4, <2>5, <2>6, <2>7, <2>8, <2>9, <2>10 DEF Next
<1>2. Spec => [](TypeOK /\ OwnerInv)
  BY TypeCorrect, OwnersInitially, OwnersInductive, PTL DEF Spec
<1> QED
  BY <1>1, <1>2, PTL DEF Spec, OnlyDueOrCancelledLeave
=============================================================================
