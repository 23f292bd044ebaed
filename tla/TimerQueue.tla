---------------------------- MODULE TimerQueue ------------------------------
(***************************************************************************)
(* polaris/src/TimerQueue.cc with Timer and TimerId: timers on the heap,   *)
(* ordered by expiration, one timerfd for the earliest. Any thread adds    *)
(* and cancels; the loop thread does the work, in functors (EventLoop      *)
(* runs them in the order of queueing, see ImplementsExecutor) and in      *)
(* handleRead() when the timerfd is readable.                              *)
(*                                                                         *)
(* Time is counted in units of 100 microseconds, the least delay           *)
(* resetTimerfd() asks for.                                                *)
(***************************************************************************)
EXTENDS Naturals, Sequences, FiniteSets

CONSTANTS Threads,     \* the threads other than the loop's own
          Addrs,       \* the heap addresses new Timer can return, in order
          MaxSeq,      \* bound: timers created in a behaviour
          MaxTime,     \* bound: the clock stops there
          Delays,      \* how far ahead of the clock a timer is set
          Intervals,   \* repeat intervals; 0 is a one-shot timer
          MaxQueue     \* bound: functors queued for the loop at a time

ASSUME TimerAssumption ==
  /\ Addrs \subseteq Nat /\ Delays \subseteq Nat /\ Intervals \subseteq Nat
  /\ MaxSeq \in Nat /\ MaxTime \in Nat /\ MaxQueue \in Nat

VARIABLES
  now,               \* Timestamp::now()
  heap,              \* the Timer object at each address
  created,           \* s_numCreated_
  timers,            \* timers_: <<expiration, address>>
  activeTimers,      \* activeTimers_: <<address, sequence>>
  cancelingTimers,   \* cancelingTimers_: <<address, sequence>>
  timerfd,           \* when the timerfd expires, or Disarmed
  pc,                \* the loop thread: "loop", "ready" (poll reported the
                     \* timerfd), "calling" (in handleRead's loop)
  batchTime,         \* now of handleRead()
  expired, toRun,    \* what getExpired() returned; the part not yet run
  queue,             \* add and cancel functors in pendingFunctors_
  tpc,               \* a thread between runInLoop() and timer->sequence():
                     \* the <<address, sequence>> of its timer, else NoId
  ids,               \* the TimerIds handed to the users
  handled,           \* history: TimerIds cancelInLoop() was called with,
  overtaken          \* history: those for which it ran before the timer's
                     \* addTimerInLoop()

queueVars == <<timers, activeTimers, cancelingTimers, timerfd>>
batchVars == <<pc, batchTime, expired, toRun>>
userVars == <<queue, tpc, ids>>
historyVars == <<handled, overtaken>>
vars == <<now, heap, created, queueVars, batchVars, userVars, historyVars>>

-----------------------------------------------------------------------------
Free == [seq |-> 0, expiration |-> 0, interval |-> 0]
NoId == <<0, 0>>
Disarmed == 0

\* std::set<Entry> is ordered by time, then by address.
Before(e, f) == e[1] < f[1] \/ (e[1] = f[1] /\ e[2] < f[2])
First(S) == CHOOSE e \in S : \A f \in S \ {e} : Before(e, f)

\* howMuchTimeFromNow(), resetTimerfd(): at least 100 microseconds from now
Rearm(when) == IF when < now + 1 THEN now + 1 ELSE when

\* The timerfd is readable from its expiration until it is read or set.
Readable == timerfd # Disarmed /\ timerfd <= now

Init ==
  /\ now = 1 /\ created = 0
  /\ heap = [a \in Addrs |-> Free]
  /\ timers = {} /\ activeTimers = {} /\ cancelingTimers = {}
  /\ timerfd = Disarmed
  /\ pc = "loop" /\ batchTime = 0 /\ expired = {} /\ toRun = {}
  /\ queue = <<>> /\ tpc = [t \in Threads |-> NoId] /\ ids = {}
  /\ handled = {} /\ overtaken = {}

Tick ==
  /\ now < MaxTime
  /\ now' = now + 1
  /\ UNCHANGED <<heap, created, queueVars, batchVars, userVars, historyVars>>

-----------------------------------------------------------------------------
(* The work of the loop thread.                                            *)

\* insert(): the new expiration is the earliest
FirstTimerOnly(when) == timers = {}
EarliestChanged(when) == timers = {} \/ when < First(timers)[1]

\* insert() and the resetTimerfd() of addTimerInLoop(), for the timer object
\* tm at address a
AddTimerInLoop(a, tm) ==
  /\ timers' = timers \cup {<<tm.expiration, a>>}
  /\ activeTimers' = activeTimers \cup {<<a, tm.seq>>}
  /\ timerfd' = IF EarliestChanged(tm.expiration) THEN Rearm(tm.expiration) ELSE timerfd
  /\ UNCHANGED cancelingTimers

\* The timer's addTimerInLoop() is still queued.
NotYetAdded(id) ==
  \E i \in DOMAIN queue : queue[i] = [op |-> "add", id |-> id]

\* activeTimers_ is searched for the pair of address and sequence.
SameAddress(x, id) == x[1] = id[1]
SameTimer(x, id) == x = id

\* A timer that is not in activeTimers_ may be in the batch being run:
\* remember that it was cancelled, so that reset() does not restart it.
CancelOnlyActive(id) == UNCHANGED cancelingTimers
CancelRunning(id) ==
  cancelingTimers' = IF pc = "calling" THEN cancelingTimers \cup {id} ELSE cancelingTimers

\* cancelInLoop()
CancelInLoop(id) ==
  /\ IF \E x \in activeTimers : SameTimer(x, id)
     THEN /\ timers' = timers \ {<<heap[id[1]].expiration, id[1]>>}
          /\ activeTimers' = {x \in activeTimers : ~SameTimer(x, id)}
          /\ heap' = [heap EXCEPT ![id[1]] = Free]
          /\ UNCHANGED cancelingTimers
     ELSE /\ CancelRunning(id)
          /\ UNCHANGED <<timers, activeTimers, heap>>
  /\ handled' = handled \cup {id}
  /\ overtaken' = IF NotYetAdded(id) THEN overtaken \cup {id} ELSE overtaken
  /\ UNCHANGED timerfd

\* doPendingFunctors() runs the next functor.
RunFunctor ==
  /\ pc = "loop" /\ queue # <<>>
  /\ LET f == Head(queue) IN
       \/ /\ f.op = "add"
          /\ AddTimerInLoop(f.id[1], heap[f.id[1]])
          /\ UNCHANGED <<heap, historyVars>>
       \/ /\ f.op = "cancel"
          /\ CancelInLoop(f.id)
  /\ queue' = Tail(queue)
  /\ UNCHANGED <<now, created, batchVars, tpc, ids>>

\* poll() reports the timerfd; callbacks of other channels may come first.
PollTimerfd ==
  /\ pc = "loop" /\ Readable
  /\ pc' = "ready"
  /\ UNCHANGED <<now, heap, created, queueVars, batchTime, expired, toRun, userVars, historyVars>>

\* getExpired(): the entries not after now, in both sets
Due == {e \in timers : e[1] <= now}
NothingActive == {}
DueActive == {<<e[2], heap[e[2]].seq>> : e \in Due}

\* handleRead() up to its first callback. Reading a timerfd that was set
\* again after poll() fails and leaves it armed.
HandleRead ==
  /\ pc = "ready"
  /\ timerfd' = IF Readable THEN Disarmed ELSE timerfd
  /\ timers' = timers \ Due
  /\ activeTimers' = activeTimers \ DueActive
  /\ cancelingTimers' = {}
  /\ expired' = Due /\ toRun' = Due /\ batchTime' = now
  /\ pc' = "calling"
  /\ UNCHANGED <<now, heap, created, userVars, historyVars>>

\* The callback of the first timer not yet run returns.
RunTimer ==
  /\ pc = "calling" /\ toRun # {}
  /\ toRun' = toRun \ {First(toRun)}
  /\ UNCHANGED <<now, heap, created, queueVars, pc, batchTime, expired, userVars, historyVars>>

\* reset(): which timers of the batch are restarted, relative to batchTime
Restarted ==
  {e \in expired : LET tm == heap[e[2]] IN
     tm.interval > 0 /\ <<e[2], tm.seq>> \notin cancelingTimers}

NextExpiration(a) == batchTime + heap[a].interval

\* The others are deleted.
OneShots == {e \in expired : heap[e[2]].interval = 0}
Deleted == expired \ Restarted

\* callingExpiredTimers_ = false, then reset(): restart or delete
Reset ==
  /\ pc = "calling" /\ toRun = {}
  /\ heap' = [a \in Addrs |->
       IF \E e \in Restarted : e[2] = a THEN [heap[a] EXCEPT !.expiration = NextExpiration(a)]
       ELSE IF \E e \in Deleted : e[2] = a THEN Free ELSE heap[a]]
  /\ timers' = timers \cup {<<NextExpiration(e[2]), e[2]>> : e \in Restarted}
  /\ activeTimers' = activeTimers \cup {<<e[2], heap[e[2]].seq>> : e \in Restarted}
  /\ timerfd' = IF timers' # {} THEN Rearm(First(timers')[1]) ELSE timerfd
  /\ expired' = {} /\ batchTime' = 0 /\ pc' = "loop"
  /\ UNCHANGED <<now, created, cancelingTimers, toRun, userVars, historyVars>>

-----------------------------------------------------------------------------
(* Calls by the loop thread, from a callback or a functor.                 *)

InCallback == pc \in {"loop", "ready"} \/ toRun # {}

\* new Timer(cb, when, interval) at a free address; its sequence is
\* s_numCreated_.incrementAndGet()
NewTimer(delay, interval) ==
  [seq |-> created + 1, expiration |-> now + delay, interval |-> interval]

CanAllocate(a) == created < MaxSeq /\ heap[a] = Free

\* addTimer(): runInLoop() inserts at once
OwnAddTimer(a, delay, interval) ==
  /\ InCallback /\ CanAllocate(a)
  /\ LET tm == NewTimer(delay, interval) IN
       /\ heap' = [heap EXCEPT ![a] = tm]
       /\ AddTimerInLoop(a, tm)
       /\ ids' = ids \cup {<<a, tm.seq>>}
  /\ created' = created + 1
  /\ UNCHANGED <<now, batchVars, queue, tpc, historyVars>>

OwnCancel(id) ==
  /\ InCallback
  /\ CancelInLoop(id)
  /\ UNCHANGED <<now, created, batchVars, userVars>>

-----------------------------------------------------------------------------
(* Calls by other threads.                                                 *)

\* addTimer(): allocate and queue addTimerInLoop() ...
AddTimer(t, a, delay, interval) ==
  /\ tpc[t] = NoId /\ Len(queue) < MaxQueue /\ CanAllocate(a)
  /\ LET tm == NewTimer(delay, interval) IN
       /\ heap' = [heap EXCEPT ![a] = tm]
       /\ queue' = Append(queue, [op |-> "add", id |-> <<a, tm.seq>>])
       /\ tpc' = [tpc EXCEPT ![t] = <<a, tm.seq>>]
  /\ created' = created + 1
  /\ UNCHANGED <<now, queueVars, batchVars, ids, historyVars>>

\* ... then read timer->sequence() through the pointer. Of a deleted timer
\* the read gives whatever the freed memory holds: any sequence so far.
ReadSequence(t) ==
  /\ tpc[t] # NoId
  /\ LET a == tpc[t][1] IN
       \E s \in IF heap[a] = Free THEN 0..created ELSE {heap[a].seq} :
         ids' = ids \cup {<<a, s>>}
  /\ tpc' = [tpc EXCEPT ![t] = NoId]
  /\ UNCHANGED <<now, heap, created, queueVars, batchVars, queue, historyVars>>

\* cancel(): queue cancelInLoop()
Cancel(t, id) ==
  /\ tpc[t] = NoId /\ Len(queue) < MaxQueue
  /\ queue' = Append(queue, [op |-> "cancel", id |-> id])
  /\ UNCHANGED <<now, heap, created, queueVars, batchVars, tpc, ids, historyVars>>

-----------------------------------------------------------------------------
Next ==
  \/ Tick \/ RunFunctor \/ PollTimerfd \/ HandleRead \/ RunTimer \/ Reset
  \/ \E id \in ids : OwnCancel(id) \/ \E t \in Threads : Cancel(t, id)
  \/ \E t \in Threads : ReadSequence(t)
  \/ \E a \in Addrs, delay \in Delays, interval \in Intervals :
       OwnAddTimer(a, delay, interval) \/ \E t \in Threads : AddTimer(t, a, delay, interval)

Spec == Init /\ [][Next]_vars

-----------------------------------------------------------------------------
(* Properties.                                                             *)

Objects == [seq : 0..MaxSeq, expiration : Nat, interval : Nat]
TimerIds == (Addrs \cup {0}) \X (0..MaxSeq)
Functors == [op : {"add", "cancel"}, id : TimerIds]

\* The variables have their types; no sequence is above the number of timers
\* created (Timer.h:20-25), and what is left to run is part of the batch.
TypeOK ==
  /\ now \in 1..(MaxTime + 1) /\ created \in 0..MaxSeq
  /\ heap \in [Addrs -> Objects]
  /\ timers \subseteq Nat \X Addrs
  /\ activeTimers \subseteq TimerIds /\ cancelingTimers \subseteq TimerIds
  /\ timerfd \in Nat /\ batchTime \in Nat
  /\ pc \in {"loop", "ready", "calling"}
  /\ expired \subseteq Nat \X Addrs /\ toRun \subseteq expired
  /\ queue \in Seq(Functors)
  /\ tpc \in [Threads -> TimerIds]
  /\ ids \subseteq TimerIds /\ handled \subseteq TimerIds /\ overtaken \subseteq handled

Allocated == {a \in Addrs : heap[a] # Free}
Queued == {queue[i].id[1] : i \in {j \in DOMAIN queue : queue[j].op = "add"}}

\* timers_ and activeTimers_ (the asserts on their sizes): each holds the
\* same timers, under the expiration and the sequence the object has.
SetsAgree ==
  /\ timers = {<<heap[a].expiration, a>> : a \in {x[1] : x \in activeTimers}}
  /\ activeTimers = {<<a, heap[a].seq>> : a \in {e[2] : e \in timers}}

\* The raw Timer pointers (the two "FIXME: no delete please"): every pointer
\* in timers_, in the expired batch and in a queued addTimerInLoop() is to a
\* live timer, each timer is owned by exactly one of them, none leaks.
PointersExact ==
  LET inSet == {e[2] : e \in timers}
      inBatch == {e[2] : e \in expired}
  IN  /\ Allocated = inSet \cup inBatch \cup Queued
      /\ inSet \cap inBatch = {} /\ inSet \cap Queued = {} /\ inBatch \cap Queued = {}

\* No timer is forgotten: outside handleRead() the timerfd is armed, no
\* later than the earliest expiration (or the 100 microseconds minimum).
ArmedForEarliest ==
  pc # "calling" /\ timers # {} =>
    /\ timerfd # Disarmed
    /\ \A e \in timers : timerfd <= e[1] \/ timerfd <= now + 1

\* cancel() is final: once cancelInLoop() has run for an added timer, the
\* timer is never (again) in timers_, even when it was cancelled by its own
\* callback or by that of another timer of the same batch.
CancelIsFinal ==
  pc # "calling" => (handled \ overtaken) \cap activeTimers = {}

\* A timer leaves the queue only because it is due or because cancelInLoop()
\* got its own TimerId, not one of an earlier timer at the same address.
OnlyDueOrCancelledLeave ==
  [][\A x \in activeTimers \ activeTimers' :
       x \in handled' \/ heap[x[1]].expiration <= now]_vars

\* EventLoop.h:103-113, TimerQueue.h:40: addTimer() is safe to call from
\* other threads; the pointer it reads the sequence through is still its own.
AddTimerReadsOwnTimer ==
  \A t \in Threads : tpc[t] # NoId => heap[tpc[t][1]].seq = tpc[t][2]
=============================================================================
