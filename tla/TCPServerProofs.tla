-------------------------- MODULE TCPServerProofs ---------------------------
(***************************************************************************)
(* Proofs about TCPServer: its asserts, its descriptors and its hold on    *)
(* the connections, for any number of clients, threads and descriptors.    *)
(*                                                                         *)
(* The invariant says which functors may be queued for a connection in     *)
(* which state of its life: connectEstablished() and connectDestroyed() in *)
(* its own loop, in this order, removeConnectionInLoop() in the base loop. *)
(***************************************************************************)
EXTENDS TCPServer, FiniteSetTheorems, TLAPS

\* No functor is queued twice.
NoDup(q) == \A i, j \in DOMAIN q : q[i] = q[j] => i = j

\* connectEstablished() comes before connectDestroyed().
Ordered(q) ==
  \A i, j \in DOMAIN q : q[i][1] = "connectEstablished" /\ q[j] = <<"connectDestroyed", q[i][2]>>
                           => i < j

QueueInv == \A l \in Loops : NoDup(queue[l]) /\ Ordered(queue[l])

Queued(name, c, l) == <<name, c>> \in Range(queue[l])

Living == {"kConnecting", "kConnected", "kDisconnected"}

\* Which functors may be queued for a connection, and where
EstablishedInv ==
  \A l \in Loops, c \in Clients : Queued("connectEstablished", c, l) =>
    l = ioLoop[c] /\ l # 0 /\ state[c] = "kConnecting"

DestroyedInv ==
  \A l \in Loops, c \in Clients : Queued("connectDestroyed", c, l) =>
    /\ l = ioLoop[c] /\ c \notin connections /\ state[c] \in Living
    /\ state[c] = "kConnecting" => Queued("connectEstablished", c, l)
    /\ server = "up" => state[c] = "kDisconnected"

RemovedInv ==
  \A l \in Loops, c \in Clients : Queued("removeConnectionInLoop", c, l) =>
    /\ l = 0 /\ ioLoop[c] # 0 /\ state[c] \in {"kDisconnected", "removed"}
    /\ server = "up" => c \in connections

\* Where a connection is in its life
LifeInv ==
  \A c \in Clients :
    /\ c \in connections => server = "up" /\ state[c] \in Living
    /\ state[c] = "none" <=> client[c] # "served"
    /\ state[c] # "none" => /\ started /\ ioLoop[c] \in 0..numThreads
                            /\ ioLoop[c] = 0 <=> numThreads = 0
    /\ state[c] = "kConnecting" => ioLoop[c] # 0
    /\ state[c] = "kConnected" /\ ioLoop[c] = 0 => c \in connections

\* While the server is up nothing is lost: what a connection waits for is
\* queued.
UpInv ==
  server = "up" => \A c \in Clients :
    /\ state[c] \in {"kConnecting", "kConnected"} => c \in connections
    /\ state[c] = "kConnecting" => Queued("connectEstablished", c, ioLoop[c])
    /\ state[c] = "kDisconnected" /\ c \notin connections =>
         Queued("connectDestroyed", c, ioLoop[c])
    /\ state[c] # "removed"

\* The pool is joined by the destructor only.
PoolInv ==
  /\ server = "up" => joined = 0
  /\ server = "joining" => started /\ joined < numThreads
  /\ ~started => next = 0

HistoryInv == server = "up" => orphaned = {} /\ ~dangling

\* idleFd_ is closed while handleRead() deals with EMFILE.
FdInv == emfile # "no" => ~idle

-----------------------------------------------------------------------------
(* Queues as sets.                                                         *)

\* What a queue holds, and in which order, when one functor is appended.
LEMMA RangeAppend ==
  ASSUME NEW S, NEW q \in Seq(S), NEW g \in S
  PROVE  /\ Append(q, g) \in Seq(S) /\ Range(Append(q, g)) = Range(q) \cup {g}
         /\ NoDup(q) /\ g \notin Range(q) => NoDup(Append(q, g))
         /\ Ordered(q) /\ g[1] # "connectEstablished" => Ordered(Append(q, g))
         /\ Ordered(q) /\ <<"connectDestroyed", g[2]>> \notin Range(Append(q, g))
              => Ordered(Append(q, g))
<1> DEFINE n == Len(q)
           t == Append(q, g)
<1>1. /\ n \in Nat /\ DOMAIN q = 1..n /\ DOMAIN t = 1..(n + 1) /\ t[n + 1] = g /\ t \in Seq(S)
      /\ \A i \in 1..n : t[i] = q[i]
  OBVIOUS
<1> HIDE DEF n, t
<1>2. \A i \in 1..(n + 1) : i \in 1..n \/ i = n + 1
  BY <1>1
<1>3. \A i \in 1..n : i \in 1..(n + 1) /\ i # n + 1 /\ i < n + 1 /\ ~(n + 1 < i)
  BY <1>1
<1>4. n + 1 \in 1..(n + 1)
  BY <1>1
<1>5. Range(t) = Range(q) \cup {g}
  BY <1>1, <1>2, <1>3, <1>4 DEF Range
<1>6. ASSUME NoDup(q), g \notin Range(q) PROVE NoDup(t)
  BY <1>1, <1>2, <1>6 DEF NoDup, Range
<1>7. ASSUME Ordered(q), g[1] # "connectEstablished" PROVE Ordered(t)
  BY <1>1, <1>2, <1>3, <1>7 DEF Ordered
<1>8. ASSUME Ordered(q), <<"connectDestroyed", g[2]>> \notin Range(t) PROVE Ordered(t)
  BY <1>1, <1>2, <1>3, <1>8 DEF Ordered, Range
<1> QED
  BY <1>1, <1>5, <1>6, <1>7, <1>8 DEF t

\* What a queue holds, and in which order, when its first functor is taken.
LEMMA RangeTail ==
  ASSUME NEW S, NEW q \in Seq(S), q # <<>>, NoDup(q), Ordered(q)
  PROVE  /\ Tail(q) \in Seq(S) /\ Head(q) \in Range(q) /\ Head(q) \in S
         /\ Range(Tail(q)) = Range(q) \ {Head(q)}
         /\ NoDup(Tail(q)) /\ Ordered(Tail(q))
         /\ \A c : Head(q) = <<"connectDestroyed", c>> => <<"connectEstablished", c>> \notin Range(q)
<1> DEFINE n == Len(q)
           t == Tail(q)
<1>1. /\ n \in Nat /\ n > 0 /\ DOMAIN q = 1..n /\ DOMAIN t = 1..(n - 1) /\ t \in Seq(S)
      /\ Head(q) = q[1] /\ q[1] \in S
      /\ \A i \in 1..(n - 1) : t[i] = q[i + 1]
  OBVIOUS
<1> HIDE DEF n, t
<1>2. 1 \in 1..n
  BY <1>1
<1>3. \A i \in 1..(n - 1) : i + 1 \in 1..n /\ i + 1 # 1
  BY <1>1
<1>4. \A i \in 1..n : i = 1 \/ (i - 1 \in 1..(n - 1) /\ (i - 1) + 1 = i)
  BY <1>1
<1>5. Range(t) = Range(q) \ {q[1]}
  <2>1. \A x \in Range(t) : x \in Range(q) /\ x # q[1]
    BY <1>1, <1>2, <1>3 DEF Range, NoDup
  <2>2. ASSUME NEW x \in Range(q), x # q[1] PROVE x \in Range(t)
    <3>1. PICK i \in 1..n : x = q[i]
      BY <1>1 DEF Range
    <3>2. i - 1 \in 1..(n - 1) /\ t[i - 1] = q[i]
      BY <1>1, <1>4, <2>2, <3>1
    <3> QED
      BY <1>1, <3>1, <3>2 DEF Range
  <2> QED
    BY <2>1, <2>2
<1>6. NoDup(t)
  BY <1>1, <1>3, SMTT(30) DEF NoDup
<1>7. Ordered(t)
  <2> SUFFICES ASSUME NEW i \in 1..(n - 1), NEW j \in 1..(n - 1), t[i][1] = "connectEstablished",
                      t[j] = <<"connectDestroyed", t[i][2]>>
               PROVE  i < j
    BY <1>1 DEF Ordered
  <2>1. i + 1 < j + 1
    BY <1>1, <1>3 DEF Ordered
  <2> QED
    BY <2>1
<1>8. ASSUME NEW c, q[1] = <<"connectDestroyed", c>>, <<"connectEstablished", c>> \in Range(q)
      PROVE  FALSE
  <2>1. PICK i \in 1..n : q[i] = <<"connectEstablished", c>>
    BY <1>1, <1>8 DEF Range
  <2>2. q[i][1] = "connectEstablished" /\ q[1] = <<"connectDestroyed", q[i][2]>>
    BY <1>8, <2>1
  <2>3. i < 1
    BY <1>1, <1>2, <2>2 DEF Ordered
  <2> QED
    BY <2>3
<1>9. q[1] \in Range(q)
  BY <1>1, <1>2 DEF Range
<1> QED
  BY <1>1, <1>5, <1>6, <1>7, <1>8, <1>9 DEF t

\* A finite set as a sequence has its elements, each once.
LEMMA SetToSeqIsSeq ==
  ASSUME NEW T, IsFiniteSet(T)
  PROVE  /\ SetToSeq(T) \in Seq(T) /\ Range(SetToSeq(T)) \subseteq T
         /\ NoDup(SetToSeq(T))
<1> DEFINE n == Cardinality(T)
<1>1. n \in Nat
  BY FS_CardinalityType
<1>2. \E f \in [1..n -> T] : \A a, b \in DOMAIN f : f[a] = f[b] => a = b
  <2>1. ExistsBijection(1..n, T)
    BY FS_CardinalityType
  <2>2. PICK f : f \in Bijection(1..n, T)
    BY <2>1 DEF ExistsBijection
  <2>3. f \in [1..n -> T] /\ \A a, b \in 1..n : f[a] = f[b] => a = b
    BY <2>2 DEF Bijection, Injection, IsInjective
  <2> QED
    BY <2>3
<1> DEFINE s == SetToSeq(T)
<1>3. s \in [1..n -> T] /\ \A a, b \in DOMAIN s : s[a] = s[b] => a = b
  BY <1>2 DEF SetToSeq, IsInjective
<1> HIDE DEF s, n
<1>4. s \in Seq(T)
  BY <1>1, <1>3
<1> QED
  BY <1>3, <1>4 DEF NoDup, Range, s

\* What a queue holds, and in which order, when several functors are appended.
LEMMA RangeConcat ==
  ASSUME NEW S, NEW q \in Seq(S), NEW r \in Seq(S), NoDup(q), NoDup(r), Ordered(q),
         \A x \in Range(r) : x \notin Range(q) /\ x[1] # "connectEstablished"
  PROVE  /\ q \o r \in Seq(S) /\ Range(q \o r) = Range(q) \cup Range(r)
         /\ NoDup(q \o r) /\ Ordered(q \o r)
<1> DEFINE n == Len(q)
           m == Len(r)
           t == q \o r
<1>1. /\ n \in Nat /\ m \in Nat /\ DOMAIN q = 1..n /\ DOMAIN r = 1..m /\ DOMAIN t = 1..(n + m)
      /\ t \in Seq(S)
      /\ \A i \in 1..(n + m) : t[i] = IF i <= n THEN q[i] ELSE r[i - n]
  OBVIOUS
<1> HIDE DEF n, m, t
<1>2. \A i \in 1..(n + m) : \/ i \in 1..n /\ t[i] = q[i]
                            \/ i > n /\ i - n \in 1..m /\ t[i] = r[i - n]
  BY <1>1
<1>3. \A i \in 1..n : i \in 1..(n + m) /\ t[i] = q[i]
  BY <1>1
<1>4. \A i \in 1..m : i + n \in 1..(n + m) /\ t[i + n] = r[i]
  <2> TAKE i \in 1..m
  <2>1. i + n \in 1..(n + m) /\ ~(i + n <= n) /\ (i + n) - n = i
    BY <1>1
  <2> QED
    BY <1>1, <2>1
<1>5. Range(t) = Range(q) \cup Range(r)
  <2>1. Range(t) \subseteq Range(q) \cup Range(r)
    BY <1>1, <1>2 DEF Range
  <2>2. Range(q) \subseteq Range(t)
    BY <1>1, <1>3 DEF Range
  <2>3. ASSUME NEW x \in Range(r) PROVE x \in Range(t)
    <3>1. PICK i \in 1..m : x = r[i]
      BY <1>1 DEF Range
    <3>2. i + n \in 1..(n + m) /\ t[i + n] = x
      BY <1>4, <3>1
    <3> QED
      BY <1>1, <3>2 DEF Range
  <2> QED
    BY <2>1, <2>2, <2>3
<1>6. \A i \in 1..m : r[i] \in Range(r)
  BY <1>1 DEF Range
<1>7. \A i \in 1..n : q[i] \in Range(q)
  BY <1>1 DEF Range
<1>8. NoDup(t)
  <2> SUFFICES ASSUME NEW i \in 1..(n + m), NEW j \in 1..(n + m), t[i] = t[j] PROVE i = j
    BY <1>1 DEF NoDup
  <2>1. CASE i \in 1..n /\ j \in 1..n
    BY <1>1, <1>3, <2>1 DEF NoDup
  <2>2. CASE i > n /\ j > n
    <3>1. i - n \in 1..m /\ j - n \in 1..m /\ r[i - n] = r[j - n]
      BY <1>1, <1>2, <2>2
    <3>2. i - n = j - n
      BY <1>1, <3>1 DEF NoDup
    <3> QED
      BY <1>1, <3>2
  <2>3. CASE \/ (i \in 1..n /\ j > n)
             \/ (j \in 1..n /\ i > n)
    <3>1. \/ t[i] \in Range(q) /\ t[j] \in Range(r)
          \/ t[j] \in Range(q) /\ t[i] \in Range(r)
      BY <1>1, <1>2, <1>3, <1>6, <1>7, <2>3
    <3> QED
      BY <3>1
  <2> QED
    BY <1>1, <2>1, <2>2, <2>3
<1>9. Ordered(t)
  <2> SUFFICES ASSUME NEW i \in 1..(n + m), NEW j \in 1..(n + m), t[i][1] = "connectEstablished",
                      t[j] = <<"connectDestroyed", t[i][2]>>
               PROVE  i < j
    BY <1>1 DEF Ordered
  <2>1. i \in 1..n /\ t[i] = q[i]
    BY <1>2, <1>6
  <2>2. CASE j \in 1..n
    BY <1>1, <1>3, <2>1, <2>2 DEF Ordered
  <2>3. CASE j > n
    BY <1>1, <2>1, <2>3
  <2> QED
    BY <1>2, <2>2, <2>3
<1> QED
  BY <1>1, <1>5, <1>8, <1>9 DEF t

-----------------------------------------------------------------------------
(* Types and descriptors.                                                  *)

States == {"none", "kConnecting", "kConnected", "kDisconnected", "removed", "deleted"}

\* The connections that have a descriptor, when their states are st
Live(st) == {c \in Clients : st[c] \notin {"none", "deleted"}}

Bit(b) == IF b THEN 1 ELSE 0

\* TypeOK, with what it says of free weakened to what is inductive
BasicsOK ==
  /\ server \in {"up", "joining", "gone"} /\ started \in BOOLEAN
  /\ connections \in SUBSET Clients
  /\ client \in [Clients -> {"away", "backlog", "served", "refused"}]
  /\ idle \in BOOLEAN /\ emfile \in {"no", "accept", "close", "open"} /\ stolen \in BOOLEAN
  /\ failed \in BOOLEAN /\ orphaned \in SUBSET Clients /\ dangling \in BOOLEAN
  /\ state \in [Clients -> States]
  /\ ioLoop \in [Clients -> Loops] /\ queue \in [Loops -> Seq(Functor)]

NumbersOK ==
  /\ numThreads \in 0 .. MaxThreads /\ joined \in 0 .. numThreads
  /\ next = 0 \/ next \in 0 .. numThreads - 1
  /\ free \in Nat /\ taken \in 0 .. MaxTaken

TypeInv == BasicsOK /\ NumbersOK

\* The open descriptors of connections can be counted.
LEMMA LiveFinite ==
  ASSUME NEW st
  PROVE  IsFiniteSet(Live(st)) /\ Cardinality(Live(st)) \in Nat
<1>1. IsFiniteSet(Clients) /\ Live(st) \subseteq Clients
  BY ServerAssumption DEF Live
<1>2. IsFiniteSet(Live(st))
  BY <1>1, FS_Subset
<1> QED
  BY <1>2, FS_CardinalityType

\* The connections that Settle() deletes
Dying(st) ==
  {c \in Clients : st[c] \notin {"none", "deleted"} /\ c \notin connections' /\ c \notin Pending(queue')}

\* The last reference gone, a connection is deleted and its descriptor freed.
LEMMA SettleEffect ==
  ASSUME NEW st \in [Clients -> States], NEW fds \in Nat, Settle(st, fds)
  PROVE  /\ state' \in [Clients -> States]
         /\ \A c \in Clients : state'[c] = IF c \in Dying(st) THEN "deleted" ELSE st[c]
         /\ free' \in Nat
         /\ free' + Cardinality(Live(state')) = fds + Cardinality(Live(st))
         /\ orphaned' = orphaned \cup {c \in Dying(st) : st[c] # "removed"}
<1> DEFINE dying == Dying(st)
<1>1. /\ state' = [c \in Clients |-> IF c \in dying THEN "deleted" ELSE st[c]]
      /\ free' = fds + Cardinality(dying)
      /\ orphaned' = orphaned \cup {c \in dying : st[c] # "removed"}
  BY DEF Settle, Dying
<1>2. state' \in [Clients -> States]
  BY <1>1 DEF States
<1>3. dying \subseteq Live(st) /\ dying \subseteq Clients
  BY DEF Dying, Live
<1>4. Live(state') = Live(st) \ dying
  BY <1>1, <1>3 DEF Live
<1> HIDE DEF dying
<1>5. IsFiniteSet(dying) /\ Cardinality(dying) \in Nat
  BY <1>3, LiveFinite, FS_Subset, FS_CardinalityType
<1>6. Cardinality(Live(state')) = Cardinality(Live(st)) - Cardinality(dying)
  <2>1. Live(st) \cap dying = dying
    BY <1>3
  <2>2. Cardinality(Live(st) \ dying) = Cardinality(Live(st)) - Cardinality(Live(st) \cap dying)
    BY <1>5, LiveFinite, FS_Difference
  <2> QED
    BY <1>4, <2>1, <2>2
<1>7. free' \in Nat /\ free' + Cardinality(Live(state')) = fds + Cardinality(Live(st))
  BY <1>1, <1>5, <1>6, LiveFinite
<1> QED
  BY <1>1, <1>2, <1>7 DEF dying

Names == {"connectEstablished", "removeConnectionInLoop", "connectDestroyed"}

\* A connection is pending when some queue holds a functor of it.
LEMMA PendingQueued ==
  ASSUME NEW q \in [Loops -> Seq(Functor)], NEW c
  PROVE  c \in Pending(q) <=> \E l \in Loops, name \in Names : <<name, c>> \in Range(q[l])
<1>1. \A l \in Loops : Range(q[l]) \subseteq Functor
  <2> TAKE l \in Loops
  <2>1. q[l] \in Seq(Functor)
    OBVIOUS
  <2> HIDE DEF Functor
  <2> QED
    BY <2>1 DEF Range
<1>2. \A f \in Functor : f = <<f[1], f[2]>> /\ f[1] \in Names
  BY DEF Functor, Names
<1>3. c \in Pending(q) <=> \E l \in Loops : \E f \in Range(q[l]) : f[2] = c
  BY DEF Pending
<1>4. ASSUME NEW l \in Loops, NEW f \in Range(q[l]), f[2] = c
      PROVE  \E name \in Names : <<name, c>> \in Range(q[l])
  BY <1>1, <1>2, <1>4
<1>5. ASSUME NEW l \in Loops, NEW name \in Names, <<name, c>> \in Range(q[l])
      PROVE  \E f \in Range(q[l]) : f[2] = c
  <2>1. <<name, c>>[2] = c
    OBVIOUS
  <2> QED
    BY <1>5, <2>1
<1> QED
  BY <1>3, <1>4, <1>5

\* What Settle() does to the states: who is referred to keeps its own.
LEMMA SettleStates ==
  ASSUME NEW st \in [Clients -> States], NEW fds \in Nat, Settle(st, fds),
         queue' \in [Loops -> Seq(Functor)]
  PROVE  /\ state' \in [Clients -> States]
         /\ \A d \in Clients :
              \/ state'[d] = st[d]
              \/ /\ state'[d] = "deleted" /\ st[d] \notin {"none", "deleted"} /\ d \notin connections'
                 /\ \A l \in Loops, name \in Names : ~Queued(name, d, l)'
         /\ \A d \in Clients :
              state'[d] = "removed" =>
                d \in connections' \/ \E l \in Loops, name \in Names : Queued(name, d, l)'
         /\ (\A d \in Clients : \/ st[d] \in {"none", "removed", "deleted"} \/ d \in connections'
                                \/ \E l \in Loops, name \in Names : Queued(name, d, l)')
              => orphaned' = orphaned
<1>1. \A d \in Clients : d \in Dying(st) <=>
         /\ st[d] \notin {"none", "deleted"} /\ d \notin connections'
         /\ \A l \in Loops, name \in Names : ~Queued(name, d, l)'
  BY PendingQueued DEF Dying, Queued
<1>2. /\ state' \in [Clients -> States]
      /\ \A d \in Clients : state'[d] = IF d \in Dying(st) THEN "deleted" ELSE st[d]
      /\ orphaned' = orphaned \cup {d \in Dying(st) : st[d] # "removed"}
  BY SettleEffect
<1>3. Dying(st) \subseteq Clients
  BY DEF Dying
<1>4. ASSUME \A d \in Clients : \/ st[d] \in {"none", "removed", "deleted"} \/ d \in connections'
                                \/ \E l \in Loops, name \in Names : Queued(name, d, l)'
      PROVE  orphaned' = orphaned
  <2>1. \A d \in Dying(st) : st[d] = "removed"
    BY <1>1, <1>3, <1>4
  <2> QED
    BY <1>2, <2>1
<1>5. ASSUME NEW d \in Clients, state'[d] = "removed"
      PROVE  d \in connections' \/ \E l \in Loops, name \in Names : Queued(name, d, l)'
  BY <1>1, <1>2, <1>5
<1>6. \A d \in Clients :
        \/ state'[d] = st[d]
        \/ /\ state'[d] = "deleted" /\ st[d] \notin {"none", "deleted"} /\ d \notin connections'
           /\ \A l \in Loops, name \in Names : ~Queued(name, d, l)'
  BY <1>1, <1>2
<1> QED
  BY <1>2, <1>4, <1>5, <1>6

CoreInv ==
  /\ QueueInv /\ EstablishedInv /\ DestroyedInv /\ RemovedInv
  /\ LifeInv /\ UpInv

\* The head of a queue taken off
LEMMA PopEffect ==
  ASSUME BasicsOK, QueueInv, NEW l \in Loops, queue[l] # <<>>,
         NEW name \in Names, NEW c \in Clients, Head(queue[l]) = <<name, c>>,
         queue' = [queue EXCEPT ![l] = Tail(@)]
  PROVE  /\ queue' \in [Loops -> Seq(Functor)] /\ QueueInv' /\ Queued(name, c, l)
         /\ \A n \in Names, d \in Clients, k \in Loops :
              Queued(n, d, k)' <=> Queued(n, d, k) /\ ~(n = name /\ d = c /\ k = l)
         /\ name = "connectDestroyed" => ~Queued("connectEstablished", c, l)
<1> DEFINE q == queue[l]
           f == Head(q)
<1>1. q \in Seq(Functor) /\ q # <<>> /\ NoDup(q) /\ Ordered(q)
  BY DEF BasicsOK, QueueInv
<1>2. queue' \in [Loops -> Seq(Functor)] /\ queue'[l] = Tail(q)
      /\ \A k \in Loops \ {l} : queue'[k] = queue[k]
  <2>1. Tail(q) \in Seq(Functor)
    BY <1>1, RangeTail
  <2> QED
    BY <2>1 DEF BasicsOK
<1>3. /\ f \in Range(q) /\ Range(Tail(q)) = Range(q) \ {f}
      /\ NoDup(Tail(q)) /\ Ordered(Tail(q))
      /\ \A d : f = <<"connectDestroyed", d>> => <<"connectEstablished", d>> \notin Range(q)
  BY <1>1, RangeTail
<1>4. f = <<name, c>>
  OBVIOUS
<1> HIDE DEF f, q
<1>5. QueueInv'
  BY <1>2, <1>3 DEF QueueInv
<1>6. Queued(name, c, l) /\ (name = "connectDestroyed" => ~Queued("connectEstablished", c, l))
  BY <1>3, <1>4 DEF Queued, q
<1>7. ASSUME NEW n \in Names, NEW d \in Clients, NEW k \in Loops
      PROVE  Queued(n, d, k)' <=> Queued(n, d, k) /\ ~(n = name /\ d = c /\ k = l)
  <2>1. <<n, d>> = <<name, c>> <=> n = name /\ d = c
    OBVIOUS
  <2>2. CASE k = l
    BY <1>2, <1>3, <1>4, <2>1, <2>2 DEF Queued, q
  <2>3. CASE k # l
    BY <1>2, <2>3 DEF Queued
  <2> QED
    BY <2>2, <2>3
<1> QED
  BY <1>2, <1>5, <1>6, <1>7

\* The functor to run is a name and a connection.
LEMMA HeadTyped ==
  ASSUME BasicsOK, NEW l \in Loops, queue[l] # <<>>
  PROVE  /\ Head(queue[l])[1] \in Names /\ Head(queue[l])[2] \in Clients
         /\ Head(queue[l]) = <<Head(queue[l])[1], Head(queue[l])[2]>>
<1> DEFINE q == queue[l]
<1>1. q \in Seq(Functor) /\ q # <<>>
  BY DEF BasicsOK
<1> HIDE DEF q
<1>2. Head(q) \in Functor
  <2> HIDE DEF Functor
  <2> QED
    BY <1>1
<1> QED
  BY <1>2 DEF Functor, Names, q

\* A functor appended
LEMMA PushEffect ==
  ASSUME BasicsOK, QueueInv, NEW l \in Loops, NEW name \in Names, NEW c \in Clients,
         ~Queued(name, c, l), ~Queued("connectDestroyed", c, l),
         queue' = [queue EXCEPT ![l] = Append(@, <<name, c>>)]
  PROVE  /\ queue' \in [Loops -> Seq(Functor)] /\ QueueInv'
         /\ \A n \in Names, d \in Clients, k \in Loops :
              Queued(n, d, k)' <=> Queued(n, d, k) \/ (n = name /\ d = c /\ k = l)
<1> DEFINE q == queue[l]
           g == <<name, c>>
           t == Append(q, g)
<1>1. q \in Seq(Functor) /\ NoDup(q) /\ Ordered(q) /\ g \in Functor /\ g \notin Range(q)
      /\ <<"connectDestroyed", c>> \notin Range(q)
  BY DEF BasicsOK, QueueInv, Queued, Functor, Names
<1>2. g[1] = name /\ g[2] = c
  OBVIOUS
<1>3. t \in Seq(Functor) /\ Range(t) = Range(q) \cup {g} /\ NoDup(t)
  <2> HIDE DEF g, q
  <2> QED
    BY <1>1, RangeAppend
<1>4. Ordered(t)
  <2>1. CASE name = "connectEstablished"
    <3>1. <<"connectDestroyed", g[2]>> \notin Range(t)
      BY <1>1, <1>2, <1>3, <2>1
    <3> HIDE DEF g, q
    <3> QED
      BY <1>1, <3>1, RangeAppend
  <2>2. CASE name # "connectEstablished"
    <3>1. g[1] # "connectEstablished"
      BY <1>2, <2>2
    <3> HIDE DEF g, q
    <3> QED
      BY <1>1, <3>1, RangeAppend
  <2> QED
    BY <2>1, <2>2
<1>5. queue' \in [Loops -> Seq(Functor)] /\ queue'[l] = t
      /\ \A k \in Loops \ {l} : queue'[k] = queue[k]
  <2>1. queue' = [queue EXCEPT ![l] = t]
    OBVIOUS
  <2>2. t \in Seq(Functor) /\ queue \in [Loops -> Seq(Functor)]
    BY <1>3 DEF BasicsOK
  <2> HIDE DEF t
  <2> QED
    BY <2>1, <2>2
<1> HIDE DEF t
<1>6. QueueInv'
  BY <1>3, <1>4, <1>5 DEF QueueInv
<1>7. ASSUME NEW n \in Names, NEW d \in Clients, NEW k \in Loops
      PROVE  Queued(n, d, k)' <=> Queued(n, d, k) \/ (n = name /\ d = c /\ k = l)
  <2>1. <<n, d>> = g <=> n = name /\ d = c
    OBVIOUS
  <2>2. CASE k = l
    BY <1>3, <1>5, <2>1, <2>2 DEF Queued
  <2>3. CASE k # l
    BY <1>5, <2>3 DEF Queued
  <2> QED
    BY <2>2, <2>3
<1> QED
  BY <1>5, <1>6, <1>7

\* removeConnectionInLoop() taken off the base loop, connectDestroyed() queued
LEMMA MoveEffect ==
  ASSUME BasicsOK, QueueInv, queue[0] # <<>>, NEW c \in Clients,
         Head(queue[0]) = <<"removeConnectionInLoop", c>>,
         NEW l \in Loops \ {0}, ~Queued("connectDestroyed", c, l),
         queue' = [queue EXCEPT ![0] = Tail(@), ![l] = Append(@, <<"connectDestroyed", c>>)]
  PROVE  /\ queue' \in [Loops -> Seq(Functor)] /\ QueueInv'
         /\ Queued("removeConnectionInLoop", c, 0)
         /\ \A n \in Names, d \in Clients, k \in Loops :
              Queued(n, d, k)' <=>
                \/ Queued(n, d, k) /\ ~(n = "removeConnectionInLoop" /\ d = c /\ k = 0)
                \/ n = "connectDestroyed" /\ d = c /\ k = l
<1> DEFINE q == queue[0]
           r == queue[l]
           f == Head(q)
           g == <<"connectDestroyed", c>>
           s == Tail(q)
           t == Append(r, g)
<1>1. 0 \in Loops
  BY ServerAssumption DEF Loops
<1>2. /\ q \in Seq(Functor) /\ q # <<>> /\ NoDup(q) /\ Ordered(q)
      /\ r \in Seq(Functor) /\ NoDup(r) /\ Ordered(r)
  BY <1>1 DEF BasicsOK, QueueInv
<1>3. g \in Functor /\ g \notin Range(r) /\ g[1] # "connectEstablished"
  BY DEF Functor, Queued
<1>4. /\ s \in Seq(Functor) /\ f \in Range(q) /\ Range(s) = Range(q) \ {f}
      /\ NoDup(s) /\ Ordered(s)
  <2> HIDE DEF q
  <2> QED
    BY <1>2, RangeTail
<1>5. t \in Seq(Functor) /\ Range(t) = Range(r) \cup {g} /\ NoDup(t) /\ Ordered(t)
  <2> HIDE DEF g, r
  <2> QED
    BY <1>2, <1>3, RangeAppend
<1>6. queue' = [queue EXCEPT ![0] = s, ![l] = t]
  OBVIOUS
<1>7. queue \in [Loops -> Seq(Functor)] /\ s \in Seq(Functor) /\ t \in Seq(Functor)
  BY <1>4, <1>5 DEF BasicsOK
<1> HIDE DEF s, t
<1>8. /\ queue' \in [Loops -> Seq(Functor)] /\ queue'[0] = s /\ queue'[l] = t
      /\ \A k \in Loops \ {0, l} : queue'[k] = queue[k]
  BY <1>1, <1>6, <1>7
<1>9. QueueInv'
  BY <1>4, <1>5, <1>8 DEF QueueInv
<1>10. Queued("removeConnectionInLoop", c, 0)
  BY <1>4 DEF Queued
<1>11. ASSUME NEW n \in Names, NEW d \in Clients, NEW k \in Loops
       PROVE  Queued(n, d, k)' <=>
                \/ Queued(n, d, k) /\ ~(n = "removeConnectionInLoop" /\ d = c /\ k = 0)
                \/ n = "connectDestroyed" /\ d = c /\ k = l
  <2>1. <<n, d>> = g <=> n = "connectDestroyed" /\ d = c
    OBVIOUS
  <2>2. <<n, d>> = f <=> n = "removeConnectionInLoop" /\ d = c
    OBVIOUS
  <2> HIDE DEF f, g
  <2>3. CASE k = 0
    BY <1>4, <1>8, <2>2, <2>3 DEF Queued
  <2>4. CASE k = l
    BY <1>5, <1>8, <2>1, <2>4 DEF Queued
  <2>5. CASE k \notin {0, l}
    BY <1>8, <2>5 DEF Queued
  <2> QED
    BY <2>3, <2>4, <2>5
<1> QED
  BY <1>8, <1>9, <1>10, <1>11

-----------------------------------------------------------------------------
(* Every step preserves the life of the connections.                       *)

\* connectEstablished() run by its loop
LEMMA EstablishedCore ==
  ASSUME BasicsOK, NumbersOK, CoreInv, NEW l \in Loops, queue[l] # <<>>, NEW c \in Clients,
         Head(queue[l]) = <<"connectEstablished", c>>, ConnectEstablished(l, c),
         UNCHANGED <<server, started, numThreads, client, ioLoop>>
  PROVE  /\ CoreInv' /\ failed' = failed /\ queue' \in [Loops -> Seq(Functor)]
         /\ server = "up" => orphaned' = orphaned
<1> USE DEF Names
<1> DEFINE CE == "connectEstablished"
           CD == "connectDestroyed"
           RC == "removeConnectionInLoop"
           st == [state EXCEPT ![c] = "kConnected"]
<1>1. /\ queue' \in [Loops -> Seq(Functor)] /\ QueueInv' /\ Queued(CE, c, l)
      /\ \A n \in Names, d \in Clients, k \in Loops :
           Queued(n, d, k)' <=> Queued(n, d, k) /\ ~(n = CE /\ d = c /\ k = l)
  BY PopEffect DEF ConnectEstablished, CoreInv
<1>2. l = ioLoop[c] /\ l # 0 /\ state[c] = "kConnecting" /\ failed' = failed
  BY <1>1 DEF CoreInv, EstablishedInv, ConnectEstablished, BasicsOK
<1>3. connections' = connections /\ Settle(st, free)
  BY DEF ConnectEstablished
<1>4. st \in [Clients -> States] /\ st[c] = "kConnected" /\ \A d \in Clients \ {c} : st[d] = state[d]
  BY DEF BasicsOK, States
<1> HIDE DEF st, Names
<1>5. /\ \A d \in Clients :
           \/ state'[d] = st[d]
           \/ /\ state'[d] = "deleted" /\ st[d] \notin {"none", "deleted"} /\ d \notin connections'
              /\ \A k \in Loops, n \in Names : ~Queued(n, d, k)'
      /\ \A d \in Clients : state'[d] = "removed" =>
           d \in connections' \/ \E k \in Loops, n \in Names : Queued(n, d, k)'
      /\ (\A d \in Clients : \/ st[d] \in {"none", "removed", "deleted"} \/ d \in connections'
                             \/ \E k \in Loops, n \in Names : Queued(n, d, k)')
           => orphaned' = orphaned
  BY <1>1, <1>3, <1>4, SettleStates DEF NumbersOK
<1>6. CE \in Names /\ CD \in Names /\ RC \in Names /\ CE # CD /\ CE # RC /\ RC # CD
  BY DEF Names
<1>7. EstablishedInv'
  BY <1>1, <1>2, <1>4, <1>5, <1>6 DEF CoreInv, EstablishedInv
<1>8. DestroyedInv'
  BY <1>1, <1>2, <1>3, <1>4, <1>5, <1>6 DEF CoreInv, DestroyedInv, Living
<1>9. RemovedInv'
  BY <1>1, <1>2, <1>3, <1>4, <1>5, <1>6 DEF CoreInv, RemovedInv
<1>10. LifeInv'
  BY <1>2, <1>3, <1>4, <1>5 DEF CoreInv, LifeInv, Living
<1>11. ioLoop \in [Clients -> Loops]
  BY DEF BasicsOK
<1>12. UpInv'
  BY <1>1, <1>2, <1>3, <1>4, <1>5, <1>6, <1>11 DEF CoreInv, UpInv
<1>13. server = "up" => orphaned' = orphaned
  BY <1>1, <1>2, <1>3, <1>4, <1>5, <1>6, <1>11 DEF CoreInv, UpInv, BasicsOK, States
<1> QED
  BY <1>1, <1>2, <1>7, <1>8, <1>9, <1>10, <1>12, <1>13 DEF CoreInv

\* connectDestroyed() run by its loop
LEMMA DestroyedCore ==
  ASSUME BasicsOK, NumbersOK, CoreInv, NEW l \in Loops, queue[l] # <<>>, NEW c \in Clients,
         Head(queue[l]) = <<"connectDestroyed", c>>, ConnectDestroyed(l, c),
         UNCHANGED <<server, started, numThreads, client, ioLoop>>
  PROVE  /\ CoreInv' /\ failed' = failed /\ queue' \in [Loops -> Seq(Functor)]
         /\ server = "up" => orphaned' = orphaned
<1> USE DEF Names
<1> DEFINE CE == "connectEstablished"
           CD == "connectDestroyed"
           RC == "removeConnectionInLoop"
           st == [state EXCEPT ![c] = "removed"]
<1>1. /\ queue' \in [Loops -> Seq(Functor)] /\ QueueInv' /\ Queued(CD, c, l)
      /\ \A n \in Names, d \in Clients, k \in Loops :
           Queued(n, d, k)' <=> Queued(n, d, k) /\ ~(n = CD /\ d = c /\ k = l)
      /\ ~Queued(CE, c, l)
  BY PopEffect DEF ConnectDestroyed, CoreInv
<1>2. /\ l = ioLoop[c] /\ state[c] \in {"kConnected", "kDisconnected"} /\ c \notin connections
      /\ failed' = failed
  BY <1>1 DEF CoreInv, DestroyedInv, ConnectDestroyed, BasicsOK, Living
<1>3. connections' = connections /\ Settle(st, free)
  BY DEF ConnectDestroyed
<1>4. st \in [Clients -> States] /\ st[c] = "removed" /\ \A d \in Clients \ {c} : st[d] = state[d]
  BY DEF BasicsOK, States
<1> HIDE DEF st, Names
<1>5. /\ \A d \in Clients :
           \/ state'[d] = st[d]
           \/ /\ state'[d] = "deleted" /\ st[d] \notin {"none", "deleted"} /\ d \notin connections'
              /\ \A k \in Loops, n \in Names : ~Queued(n, d, k)'
      /\ \A d \in Clients : state'[d] = "removed" =>
           d \in connections' \/ \E k \in Loops, n \in Names : Queued(n, d, k)'
      /\ (\A d \in Clients : \/ st[d] \in {"none", "removed", "deleted"} \/ d \in connections'
                             \/ \E k \in Loops, n \in Names : Queued(n, d, k)')
           => orphaned' = orphaned
  BY <1>1, <1>3, <1>4, SettleStates DEF NumbersOK
<1>6. CE \in Names /\ CD \in Names /\ RC \in Names /\ CE # CD /\ CE # RC /\ RC # CD
      /\ \A n \in Names : n = CE \/ n = CD \/ n = RC
  BY DEF Names
<1>7. EstablishedInv'
  BY <1>1, <1>2, <1>4, <1>5, <1>6 DEF CoreInv, EstablishedInv
<1>8. DestroyedInv'
  BY <1>1, <1>2, <1>3, <1>4, <1>5, <1>6 DEF CoreInv, DestroyedInv, Living
<1>9. RemovedInv'
  BY <1>1, <1>2, <1>3, <1>4, <1>5, <1>6 DEF CoreInv, RemovedInv
<1>10. LifeInv'
  BY <1>2, <1>3, <1>4, <1>5 DEF CoreInv, LifeInv, Living
<1>11. ioLoop \in [Clients -> Loops]
  BY DEF BasicsOK
<1>12. server = "up" => \A k \in Loops, n \in Names : ~Queued(n, c, k)'
  BY <1>1, <1>2, <1>6 DEF CoreInv, EstablishedInv, DestroyedInv, RemovedInv
<1>13. UpInv'
  BY <1>1, <1>2, <1>3, <1>4, <1>5, <1>6, <1>11, <1>12 DEF CoreInv, UpInv
<1>14. server = "up" => orphaned' = orphaned
  BY <1>1, <1>2, <1>3, <1>4, <1>5, <1>6, <1>11 DEF CoreInv, UpInv, BasicsOK, States
<1> QED
  BY <1>1, <1>2, <1>7, <1>8, <1>9, <1>10, <1>13, <1>14 DEF CoreInv

\* removeConnectionInLoop() run by the base loop of a server that is up
LEMMA RemoveCore ==
  ASSUME BasicsOK, NumbersOK, CoreInv, queue[0] # <<>>, NEW c \in Clients,
         Head(queue[0]) = <<"removeConnectionInLoop", c>>, server = "up",
         RemoveConnectionInLoop(c), Settle(state, free),
         UNCHANGED <<server, started, numThreads, client, ioLoop>>
  PROVE  /\ CoreInv' /\ failed' = failed /\ queue' \in [Loops -> Seq(Functor)]
         /\ orphaned' = orphaned
<1> USE DEF Names
<1> DEFINE CE == "connectEstablished"
           CD == "connectDestroyed"
           RC == "removeConnectionInLoop"
<1>1. 0 \in Loops /\ ioLoop \in [Clients -> Loops]
  BY ServerAssumption DEF Loops, BasicsOK
<1>2. Queued(RC, c, 0)
  <2>1. queue[0] \in Seq(Functor) /\ NoDup(queue[0]) /\ Ordered(queue[0])
    BY <1>1 DEF BasicsOK, CoreInv, QueueInv
  <2> QED
    BY <2>1, RangeTail DEF Queued
<1>3. /\ ioLoop[c] \in Loops \ {0} /\ c \in connections /\ failed' = failed
      /\ state[c] = "kDisconnected"
  BY <1>1, <1>2 DEF CoreInv, RemovedInv, RemoveConnectionInLoop, BasicsOK, UpInv
<1>4. \A k \in Loops : ~Queued(CD, c, k) /\ ~Queued(CE, c, k)
  BY <1>3 DEF CoreInv, DestroyedInv, EstablishedInv
<1>5. /\ queue' \in [Loops -> Seq(Functor)] /\ QueueInv'
      /\ \A n \in Names, d \in Clients, k \in Loops :
           Queued(n, d, k)' <=>
             \/ Queued(n, d, k) /\ ~(n = RC /\ d = c /\ k = 0)
             \/ n = CD /\ d = c /\ k = ioLoop[c]
  <2>1. PICK l \in Loops \ {0} : l = ioLoop[c]
    BY <1>3
  <2>2. queue' = [queue EXCEPT ![0] = Tail(@), ![l] = Append(@, <<CD, c>>)]
    BY <2>1 DEF RemoveConnectionInLoop
  <2>3. ~Queued(CD, c, l) /\ QueueInv
    BY <1>4 DEF CoreInv
  <2>4. /\ queue' \in [Loops -> Seq(Functor)] /\ QueueInv'
        /\ \A n \in Names, d \in Clients, k \in Loops :
             Queued(n, d, k)' <=>
               \/ Queued(n, d, k) /\ ~(n = RC /\ d = c /\ k = 0)
               \/ n = CD /\ d = c /\ k = l
    BY <2>2, <2>3, MoveEffect
  <2> QED
    BY <2>1, <2>4
<1>6. connections' = connections \ {c} /\ state \in [Clients -> States]
  BY DEF RemoveConnectionInLoop, BasicsOK
<1> HIDE DEF Names
<1>7. /\ \A d \in Clients :
           \/ state'[d] = state[d]
           \/ /\ state'[d] = "deleted" /\ state[d] \notin {"none", "deleted"} /\ d \notin connections'
              /\ \A k \in Loops, n \in Names : ~Queued(n, d, k)'
      /\ (\A d \in Clients : \/ state[d] \in {"none", "removed", "deleted"} \/ d \in connections'
                             \/ \E k \in Loops, n \in Names : Queued(n, d, k)')
           => orphaned' = orphaned
  BY <1>5, <1>6, SettleStates DEF NumbersOK
<1>8. CE \in Names /\ CD \in Names /\ RC \in Names /\ CE # CD /\ CE # RC /\ RC # CD
  BY DEF Names
<1>9. EstablishedInv'
  BY <1>3, <1>5, <1>7, <1>8 DEF CoreInv, EstablishedInv
<1>10. DestroyedInv'
  BY <1>3, <1>5, <1>6, <1>7, <1>8 DEF CoreInv, DestroyedInv, Living
<1>11. RemovedInv'
  BY <1>1, <1>3, <1>5, <1>6, <1>7, <1>8 DEF CoreInv, RemovedInv
<1>12. LifeInv'
  BY <1>3, <1>6, <1>7 DEF CoreInv, LifeInv, Living
<1>13. UpInv'
  BY <1>1, <1>3, <1>5, <1>6, <1>7, <1>8 DEF CoreInv, UpInv
<1>14. orphaned' = orphaned
  BY <1>1, <1>3, <1>5, <1>6, <1>7, <1>8 DEF CoreInv, UpInv, BasicsOK, States
<1> QED
  BY <1>3, <1>5, <1>9, <1>10, <1>11, <1>12, <1>13, <1>14 DEF CoreInv

\* removeConnectionInLoop() run by the base loop after ~TCPServer()
LEMMA DanglingCore ==
  ASSUME BasicsOK, NumbersOK, CoreInv, queue[0] # <<>>, NEW c \in Clients,
         Head(queue[0]) = <<"removeConnectionInLoop", c>>, server = "gone",
         queue' = [queue EXCEPT ![0] = Tail(@)], Settle(state, free),
         UNCHANGED <<server, started, numThreads, client, ioLoop, connections>>
  PROVE  CoreInv' /\ queue' \in [Loops -> Seq(Functor)]
<1> USE DEF Names
<1> DEFINE CE == "connectEstablished"
           CD == "connectDestroyed"
           RC == "removeConnectionInLoop"
<1>1. 0 \in Loops /\ state \in [Clients -> States]
  BY ServerAssumption DEF Loops, BasicsOK
<1>2. /\ queue' \in [Loops -> Seq(Functor)] /\ QueueInv'
      /\ \A n \in Names, d \in Clients, k \in Loops :
           Queued(n, d, k)' <=> Queued(n, d, k) /\ ~(n = RC /\ d = c /\ k = 0)
  BY <1>1, PopEffect DEF CoreInv
<1> HIDE DEF Names
<1>3. \A d \in Clients :
           \/ state'[d] = state[d]
           \/ /\ state'[d] = "deleted" /\ state[d] \notin {"none", "deleted"} /\ d \notin connections'
              /\ \A k \in Loops, n \in Names : ~Queued(n, d, k)'
  BY <1>1, <1>2, SettleStates DEF NumbersOK
<1>4. CE \in Names /\ CD \in Names /\ RC \in Names /\ CE # CD /\ CE # RC /\ RC # CD
  BY DEF Names
<1>5. EstablishedInv'
  BY <1>2, <1>3, <1>4 DEF CoreInv, EstablishedInv
<1>6. DestroyedInv'
  BY <1>2, <1>3, <1>4 DEF CoreInv, DestroyedInv, Living
<1>7. RemovedInv'
  BY <1>2, <1>3, <1>4 DEF CoreInv, RemovedInv
<1>8. LifeInv'
  BY <1>3 DEF CoreInv, LifeInv, Living
<1> QED
  BY <1>2, <1>5, <1>6, <1>7, <1>8 DEF CoreInv, UpInv

\* newConnection()
LEMMA AcceptCore ==
  ASSUME TypeInv, CoreInv, PoolInv, NEW c \in Clients, Accept(c)
  PROVE  /\ CoreInv' /\ queue' \in [Loops -> Seq(Functor)] /\ ioLoop' \in [Clients -> Loops]
         /\ state' \in [Clients -> States] /\ state[c] = "none"
         /\ state'[c] \in {"kConnecting", "kConnected"}
         /\ \A d \in Clients \ {c} : state'[d] = state[d]
<1> USE DEF Names
<1> DEFINE CE == "connectEstablished"
           CD == "connectDestroyed"
           RC == "removeConnectionInLoop"
           l == GetNextLoop
<1>1. /\ state \in [Clients -> States] /\ ioLoop \in [Clients -> Loops]
      /\ client \in [Clients -> {"away", "backlog", "served", "refused"}]
      /\ queue \in [Loops -> Seq(Functor)]
  BY DEF TypeInv, BasicsOK
<1>2. /\ server = "up" /\ started /\ client[c] = "backlog" /\ NewConnection(c)
      /\ client' = [client EXCEPT ![c] = "served"]
      /\ UNCHANGED <<server, started, numThreads>>
  BY DEF Accept
<1>3. state[c] = "none" /\ c \notin connections /\ \A n \in Names, k \in Loops : ~Queued(n, c, k)
  BY <1>2 DEF CoreInv, LifeInv, Living, EstablishedInv, DestroyedInv, RemovedInv
<1>4. l \in 0..numThreads /\ (l = 0 <=> numThreads = 0) /\ l \in Loops
  <2>1. /\ numThreads \in 0..MaxThreads /\ MaxThreads \in Nat
        /\ next = 0 \/ next \in 0..(numThreads - 1)
    BY ServerAssumption DEF TypeInv, NumbersOK
  <2>2. CASE numThreads = 0
    BY <2>1, <2>2 DEF GetNextLoop, Loops
  <2>3. CASE numThreads # 0
    <3>1. l = next + 1 /\ numThreads >= 1
      BY <2>1, <2>3 DEF GetNextLoop
    <3> HIDE DEF l
    <3> QED
      BY <2>1, <3>1 DEF Loops
  <2> QED
    BY <2>2, <2>3
<1> HIDE DEF l
<1>5. ioLoop' = [ioLoop EXCEPT ![c] = l] /\ connections' = connections \cup {c}
  BY <1>2 DEF NewConnection, l
<1>6. /\ ioLoop' \in [Clients -> Loops] /\ ioLoop'[c] = l
      /\ \A d \in Clients \ {c} : ioLoop'[d] = ioLoop[d]
  BY <1>1, <1>4, <1>5
<1>7. client'[c] = "served" /\ \A d \in Clients \ {c} : client'[d] = client[d]
  BY <1>1, <1>2
<1>8. /\ queue' \in [Loops -> Seq(Functor)] /\ QueueInv'
      /\ state' \in [Clients -> States]
      /\ state'[c] = (IF l = 0 THEN "kConnected" ELSE "kConnecting")
      /\ \A d \in Clients \ {c} : state'[d] = state[d]
      /\ \A n \in Names, d \in Clients, k \in Loops :
           Queued(n, d, k)' <=> Queued(n, d, k) \/ (l # 0 /\ n = CE /\ d = c /\ k = l)
  <2>1. CASE l = 0
    <3>1. state' = [state EXCEPT ![c] = "kConnected"] /\ queue' = queue
      BY <1>2, <2>1 DEF NewConnection, l
    <3>2. /\ state' \in [Clients -> States] /\ state'[c] = "kConnected"
          /\ \A d \in Clients \ {c} : state'[d] = state[d]
      BY <1>1, <3>1 DEF States
    <3>3. QueueInv' /\ \A n \in Names, d \in Clients, k \in Loops : Queued(n, d, k)' <=> Queued(n, d, k)
      BY <3>1 DEF CoreInv, QueueInv, Queued
    <3> QED
      BY <1>1, <2>1, <3>1, <3>2, <3>3
  <2>2. CASE l # 0
    <3>1. /\ state' = [state EXCEPT ![c] = "kConnecting"]
          /\ queue' = [queue EXCEPT ![l] = Append(@, <<CE, c>>)]
      BY <1>2, <2>2 DEF NewConnection, l
    <3>2. /\ state' \in [Clients -> States] /\ state'[c] = "kConnecting"
          /\ \A d \in Clients \ {c} : state'[d] = state[d]
      BY <1>1, <3>1 DEF States
    <3>3. BasicsOK /\ QueueInv /\ ~Queued(CE, c, l) /\ ~Queued(CD, c, l)
      BY <1>3, <1>4 DEF CoreInv, TypeInv
    <3>4. /\ queue' \in [Loops -> Seq(Functor)] /\ QueueInv'
          /\ \A n \in Names, d \in Clients, k \in Loops :
               Queued(n, d, k)' <=> Queued(n, d, k) \/ (n = CE /\ d = c /\ k = l)
      BY <1>4, <3>1, <3>3, PushEffect
    <3> QED
      BY <2>2, <3>2, <3>4
  <2> QED
    BY <2>1, <2>2
<1> HIDE DEF Names
<1>9. CE \in Names /\ CD \in Names /\ RC \in Names /\ CE # CD /\ CE # RC /\ RC # CD
  BY DEF Names
<1>10. EstablishedInv'
  BY <1>3, <1>6, <1>8, <1>9 DEF CoreInv, EstablishedInv
<1>11. DestroyedInv'
  BY <1>2, <1>3, <1>5, <1>6, <1>8, <1>9 DEF CoreInv, DestroyedInv, Living
<1>12. RemovedInv'
  BY <1>2, <1>3, <1>5, <1>6, <1>8, <1>9 DEF CoreInv, RemovedInv
<1>13. LifeInv'
  BY <1>2, <1>3, <1>4, <1>5, <1>6, <1>7, <1>8 DEF CoreInv, LifeInv, Living
<1>14. UpInv'
  BY <1>1, <1>2, <1>3, <1>4, <1>5, <1>6, <1>8, <1>9 DEF CoreInv, UpInv
<1> QED
  BY <1>3, <1>6, <1>8, <1>10, <1>11, <1>12, <1>13, <1>14 DEF CoreInv

\* handleClose()
LEMMA CloseCore ==
  ASSUME TypeInv, CoreInv, NEW c \in Clients, HandleClose(c)
  PROVE  /\ CoreInv' /\ queue' \in [Loops -> Seq(Functor)] /\ state' \in [Clients -> States]
         /\ failed' = failed /\ Live(state') = Live(state)
<1> USE DEF Names
<1> DEFINE CE == "connectEstablished"
           CD == "connectDestroyed"
           RC == "removeConnectionInLoop"
           base == ioLoop[c] = 0
           name == IF base THEN CD ELSE RC
<1>1. /\ state \in [Clients -> States] /\ ioLoop \in [Clients -> Loops] /\ 0 \in Loops
      /\ BasicsOK /\ QueueInv /\ failed \in BOOLEAN
  BY ServerAssumption DEF TypeInv, BasicsOK, CoreInv, Loops
<1>2. /\ state[c] = "kConnected" /\ state' = [state EXCEPT ![c] = "kDisconnected"]
      /\ UNCHANGED <<server, started, numThreads, client, ioLoop>>
  BY DEF HandleClose, poolVars
<1>3. /\ state' \in [Clients -> States] /\ state'[c] = "kDisconnected"
      /\ \A d \in Clients \ {c} : state'[d] = state[d]
  BY <1>1, <1>2 DEF States
<1>4. base => c \in connections /\ server = "up"
  BY <1>2 DEF CoreInv, LifeInv
<1>5. ~Queued(name, c, 0) /\ ~Queued(CD, c, 0)
  BY <1>1, <1>2, <1>4 DEF CoreInv, DestroyedInv, RemovedInv
<1>6. /\ queue' = [queue EXCEPT ![0] = Append(@, <<name, c>>)]
      /\ connections' = (IF base THEN connections \ {c} ELSE connections)
      /\ failed' = failed
  BY <1>1, <1>4 DEF HandleClose
<1>7. name \in Names
  OBVIOUS
<1>8. name = CD <=> base
  OBVIOUS
<1>9. name = CD \/ name = RC
  OBVIOUS
<1>10. base => ioLoop[c] = 0
  OBVIOUS
<1>11. ~base => ioLoop[c] # 0
  OBVIOUS
<1> HIDE DEF name, base
<1>12. /\ queue' \in [Loops -> Seq(Functor)] /\ QueueInv'
       /\ \A n \in Names, d \in Clients, k \in Loops :
            Queued(n, d, k)' <=> Queued(n, d, k) \/ (n = name /\ d = c /\ k = 0)
  <2>1. queue' = [queue EXCEPT ![0] = Append(@, <<name, c>>)]
    BY <1>6
  <2>2. BasicsOK /\ QueueInv /\ 0 \in Loops
    BY <1>1
  <2> HIDE DEF Names
  <2> QED
    BY <1>5, <1>7, <2>1, <2>2, PushEffect
<1> HIDE DEF Names
<1>13. CE \in Names /\ CD \in Names /\ RC \in Names /\ CE # CD /\ CE # RC /\ RC # CD
  BY DEF Names
<1>14. EstablishedInv'
  BY <1>2, <1>3, <1>9, <1>12, <1>13 DEF CoreInv, EstablishedInv
<1>15. DestroyedInv'
  BY <1>2, <1>3, <1>6, <1>8, <1>10, <1>12, <1>13 DEF CoreInv, DestroyedInv, Living
<1>16. server = "up" => c \in connections
  BY <1>2 DEF CoreInv, UpInv
<1>17. RemovedInv'
  BY <1>2, <1>3, <1>6, <1>8, <1>9, <1>11, <1>12, <1>13, <1>16 DEF CoreInv, RemovedInv
<1>18. LifeInv'
  BY <1>2, <1>3, <1>6 DEF CoreInv, LifeInv, Living
<1>19. UpInv'
  BY <1>1, <1>2, <1>3, <1>6, <1>8, <1>10, <1>12, <1>13, <1>16 DEF CoreInv, UpInv
<1>20. Live(state') = Live(state)
  BY <1>2, <1>3 DEF Live
<1> QED
  BY <1>3, <1>6, <1>12, <1>14, <1>15, <1>17, <1>18, <1>19, <1>20 DEF CoreInv

\* ~TCPServer() queues a connectDestroyed() for every connection of a thread.
LEMMA DestroyQueues ==
  ASSUME TypeInv, CoreInv, Destroy
  PROVE  /\ queue' \in [Loops -> Seq(Functor)] /\ QueueInv'
         /\ \A n \in Names, d \in Clients, k \in Loops : Queued(n, d, k) => Queued(n, d, k)'
         /\ \A n \in Names, d \in Clients, k \in Loops :
              Queued(n, d, k)' =>
                \/ Queued(n, d, k)
                \/ n = "connectDestroyed" /\ d \in connections /\ k = ioLoop[d] /\ k # 0
<1> DEFINE D(l) == {<<"connectDestroyed", c>> : c \in {d \in connections : ioLoop[d] = l}}
<1>1. queue' = [l \in Loops |-> IF l = 0 THEN queue[0] ELSE queue[l] \o SetToSeq(D(l))]
  BY DEF Destroy
<1>2. connections \subseteq Clients /\ queue \in [Loops -> Seq(Functor)]
  BY DEF TypeInv, BasicsOK
<1>3. ASSUME NEW l \in Loops
      PROVE  /\ SetToSeq(D(l)) \in Seq(Functor) /\ NoDup(SetToSeq(D(l)))
             /\ Range(SetToSeq(D(l))) \subseteq D(l)
  <2>1. IsFiniteSet(D(l))
    <3> DEFINE C == {d \in connections : ioLoop[d] = l}
    <3>1. IsFiniteSet(C)
      BY <1>2, ServerAssumption, FS_Subset
    <3> HIDE DEF C
    <3>2. IsFiniteSet({<<"connectDestroyed", c>> : c \in C})
      <4> DEFINE T == {<<"connectDestroyed", c>> : c \in C}
                 h == [c \in C |-> <<"connectDestroyed", c>>]
      <4>1. h \in Surjection(C, T)
        BY DEF Surjection
      <4> HIDE DEF h, T
      <4>2. IsFiniteSet(T)
        BY <3>1, <4>1, FS_Surjection
      <4> QED
        BY <4>2 DEF T
    <3> QED
      BY <3>2 DEF C
  <2>2. D(l) \subseteq Functor
    BY <1>2 DEF Functor
  <2> HIDE DEF D
  <2>3. SetToSeq(D(l)) \in Seq(D(l)) /\ NoDup(SetToSeq(D(l))) /\ Range(SetToSeq(D(l))) \subseteq D(l)
    BY <2>1, SetToSeqIsSeq
  <2>4. SetToSeq(D(l)) \in Seq(Functor)
    <3> DEFINE s == SetToSeq(D(l))
    <3>1. s \in Seq(D(l))
      BY <2>3
    <3> HIDE DEF s, Functor
    <3>2. s \in Seq(Functor)
      BY <2>2, <3>1
    <3> QED
      BY <3>2 DEF s
  <2> QED
    BY <2>3, <2>4
<1>4. ASSUME NEW l \in Loops \ {0}
      PROVE  /\ queue'[l] \in Seq(Functor) /\ NoDup(queue'[l]) /\ Ordered(queue'[l])
             /\ Range(queue'[l]) \subseteq Range(queue[l]) \cup D(l)
             /\ Range(queue[l]) \subseteq Range(queue'[l])
  <2> DEFINE q == queue[l]
             r == SetToSeq(D(l))
  <2>1. q \in Seq(Functor) /\ NoDup(q) /\ Ordered(q)
    BY <1>2 DEF CoreInv, QueueInv
  <2>2. r \in Seq(Functor) /\ NoDup(r) /\ Range(r) \subseteq D(l)
    BY <1>3
  <2>3. \A x \in D(l) : x \notin Range(q) /\ x[1] # "connectEstablished"
    <3>1. \A c \in connections : <<"connectDestroyed", c>> \notin Range(q)
      BY <1>2 DEF CoreInv, DestroyedInv, Queued
    <3>2. \A c : <<"connectDestroyed", c>>[1] = "connectDestroyed"
      OBVIOUS
    <3> QED
      BY <3>1, <3>2
  <2>4. queue'[l] = q \o r
    BY <1>1
  <2> HIDE DEF q, r, D
  <2>5. /\ q \o r \in Seq(Functor) /\ Range(q \o r) = Range(q) \cup Range(r)
        /\ NoDup(q \o r) /\ Ordered(q \o r)
    BY <2>1, <2>2, <2>3, RangeConcat
  <2> QED
    BY <2>2, <2>4, <2>5 DEF q
<1>5. queue'[0] = queue[0] /\ 0 \in Loops
  BY <1>1, ServerAssumption DEF Loops
<1>6. queue' \in [Loops -> Seq(Functor)]
  <2> DEFINE h(l) == IF l = 0 THEN queue[0] ELSE queue[l] \o SetToSeq(D(l))
  <2>1. queue' = [l \in Loops |-> h(l)]
    BY <1>1
  <2> HIDE DEF h
  <2>2. \A l \in Loops : queue'[l] \in Seq(Functor)
    BY <1>2, <1>4, <1>5
  <2> HIDE DEF Functor
  <2> QED
    BY <2>1, <2>2
<1>7. QueueInv'
  BY <1>4, <1>5 DEF CoreInv, QueueInv
<1>8. ASSUME NEW n \in Names, NEW d \in Clients, NEW k \in Loops, Queued(n, d, k)
      PROVE  Queued(n, d, k)'
  BY <1>4, <1>5, <1>8 DEF Queued
<1>9. ASSUME NEW n \in Names, NEW d \in Clients, NEW k \in Loops, Queued(n, d, k)'
      PROVE  \/ Queued(n, d, k)
             \/ n = "connectDestroyed" /\ d \in connections /\ k = ioLoop[d] /\ k # 0
  <2>1. CASE k = 0
    BY <1>5, <1>9, <2>1 DEF Queued
  <2>2. CASE k # 0 /\ <<n, d>> \in D(k)
    BY <2>2
  <2>3. CASE k # 0 /\ <<n, d>> \notin D(k)
    <3> HIDE DEF D
    <3> QED
      BY <1>4, <1>9, <2>3 DEF Queued
  <2> QED
    BY <2>1, <2>2, <2>3
<1> QED
  BY <1>6, <1>7, <1>8, <1>9

\* ~TCPServer()
LEMMA DestroyCore ==
  ASSUME TypeInv, CoreInv, Destroy
  PROVE  /\ CoreInv' /\ queue' \in [Loops -> Seq(Functor)] /\ state' \in [Clients -> States]
         /\ client' \in [Clients -> {"away", "backlog", "served", "refused"}]
         /\ orphaned \subseteq Clients => orphaned' \subseteq Clients
         /\ free' \in Nat
         /\ free' + Bit(idle') + Cardinality(Live(state'))
              = free + Bit(idle) + Cardinality(Live(state))
<1> DEFINE CE == "connectEstablished"
           CD == "connectDestroyed"
           RC == "removeConnectionInLoop"
<1>1. CE \in Names /\ CD \in Names /\ RC \in Names /\ CE # CD /\ CE # RC /\ RC # CD
  BY DEF Names
<1>2. /\ queue' \in [Loops -> Seq(Functor)] /\ QueueInv'
      /\ \A n \in Names, d \in Clients, k \in Loops : Queued(n, d, k) => Queued(n, d, k)'
      /\ \A n \in Names, d \in Clients, k \in Loops :
           Queued(n, d, k)' =>
             \/ Queued(n, d, k)
             \/ n = CD /\ d \in connections /\ k = ioLoop[d] /\ k # 0
  BY DestroyQueues
<1>3. /\ state \in [Clients -> States] /\ ioLoop \in [Clients -> Loops] /\ free \in Nat
      /\ idle \in BOOLEAN /\ client \in [Clients -> {"away", "backlog", "served", "refused"}]
      /\ numThreads \in Nat /\ connections \subseteq Clients
  BY DEF TypeInv, BasicsOK, NumbersOK
<1>4. server = "up" /\ connections' = {} /\ UNCHANGED <<started, numThreads, ioLoop>>
  BY DEF Destroy, poolVars
<1>5. CASE started /\ numThreads > 0
  <2>1. server' = "joining" /\ UNCHANGED <<client, state, idle, free, orphaned>>
    BY <1>5 DEF Destroy
  <2>2. EstablishedInv'
    BY <1>1, <1>2, <1>4, <2>1 DEF CoreInv, EstablishedInv
  <2>3. DestroyedInv'
    BY <1>1, <1>2, <1>3, <1>4, <2>1 DEF CoreInv, DestroyedInv, LifeInv, UpInv, Living
  <2>4. RemovedInv'
    BY <1>1, <1>2, <1>4, <2>1 DEF CoreInv, RemovedInv
  <2>5. numThreads # 0
    BY <1>3, <1>5
  <2>6. LifeInv'
    BY <1>4, <2>1, <2>5 DEF CoreInv, LifeInv
  <2>7. UpInv'
    BY <2>1 DEF UpInv
  <2> QED
    BY <1>2, <1>3, <2>1, <2>2, <2>3, <2>4, <2>6, <2>7 DEF CoreInv
<1>6. CASE ~(started /\ numThreads > 0)
  <2> DEFINE st == [c \in Clients |-> IF ioLoop[c] = 0 /\ c \in connections THEN "removed" ELSE state[c]]
             fds == IF idle THEN free + 1 ELSE free
  <2>1. /\ server' = "gone" /\ idle' = FALSE /\ Settle(st, fds)
        /\ client' = [c \in Clients |-> IF client[c] = "backlog" THEN "refused" ELSE client[c]]
    BY <1>6 DEF Destroy, CloseAcceptor
  <2>2. \A c \in connections : ioLoop[c] = 0 /\ state[c] \in Living /\ c \in Clients
    BY <1>3, <1>6 DEF CoreInv, LifeInv, Living
  <2>3. /\ st \in [Clients -> States] /\ fds \in Nat /\ fds = free + Bit(idle)
        /\ \A c \in Clients : st[c] = IF c \in connections THEN "removed" ELSE state[c]
    BY <1>3, <2>2 DEF States, Bit
  <2>4. Live(st) = Live(state)
    BY <2>2, <2>3 DEF Live, Living
  <2> HIDE DEF st, fds
  <2>5. /\ state' \in [Clients -> States]
        /\ \A d \in Clients :
             \/ state'[d] = st[d]
             \/ /\ state'[d] = "deleted" /\ st[d] \notin {"none", "deleted"} /\ d \notin connections'
                /\ \A l \in Loops, name \in Names : ~Queued(name, d, l)'
    BY <1>2, <2>1, <2>3, SettleStates
  <2>6. /\ free' \in Nat /\ free' + Cardinality(Live(state')) = fds + Cardinality(Live(st))
        /\ orphaned' = orphaned \cup {c \in Dying(st) : st[c] # "removed"}
    BY <2>1, <2>3, SettleEffect
  <2>7. orphaned \subseteq Clients => orphaned' \subseteq Clients
    BY <2>6 DEF Dying
  <2>8. free' + Bit(idle') + Cardinality(Live(state')) = free + Bit(idle) + Cardinality(Live(state))
    <3>1. Cardinality(Live(state')) \in Nat /\ Cardinality(Live(state)) \in Nat
      BY LiveFinite
    <3>2. Bit(idle') = 0
      BY <2>1 DEF Bit
    <3> QED
      BY <2>3, <2>4, <2>6, <3>1, <3>2
  <2>9. /\ client' \in [Clients -> {"away", "backlog", "served", "refused"}]
        /\ \A c \in Clients : client'[c] = "served" <=> client[c] = "served"
    BY <1>3, <2>1
  <2>10. EstablishedInv'
    BY <1>1, <1>2, <1>3, <1>4, <2>2, <2>3, <2>5 DEF CoreInv, EstablishedInv
  <2>11. DestroyedInv'
    BY <1>1, <1>2, <1>3, <1>4, <2>1, <2>2, <2>3, <2>5 DEF CoreInv, DestroyedInv, Living
  <2>12. RemovedInv'
    BY <1>1, <1>2, <1>4, <2>1, <2>2, <2>3, <2>5 DEF CoreInv, RemovedInv
  <2>13. LifeInv'
    BY <1>4, <2>2, <2>3, <2>5, <2>9 DEF CoreInv, LifeInv, Living
  <2>14. UpInv'
    BY <2>1 DEF UpInv
  <2> QED
    BY <1>2, <2>5, <2>6, <2>7, <2>8, <2>9, <2>10, <2>11, <2>12, <2>13, <2>14 DEF CoreInv
<1> QED
  BY <1>5, <1>6

\* ~EventLoopThreadPool(): a thread ends
LEMMA JoinCore ==
  ASSUME TypeInv, CoreInv, NEW l \in Loops, Join(l)
  PROVE  /\ CoreInv' /\ queue' \in [Loops -> Seq(Functor)] /\ state' \in [Clients -> States]
         /\ client' \in [Clients -> {"away", "backlog", "served", "refused"}]
         /\ orphaned \subseteq Clients => orphaned' \subseteq Clients
         /\ free' \in Nat
         /\ free' + Bit(idle') + Cardinality(Live(state'))
              = free + Bit(idle) + Cardinality(Live(state))
<1> DEFINE CE == "connectEstablished"
           CD == "connectDestroyed"
           RC == "removeConnectionInLoop"
<1>1. CE \in Names /\ CD \in Names /\ RC \in Names /\ CE # CD /\ CE # RC /\ RC # CD
  BY DEF Names
<1>2. /\ server = "joining" /\ server' \in {"joining", "gone"} /\ connections' = connections
      /\ queue' = [queue EXCEPT ![l] = <<>>] /\ UNCHANGED <<started, numThreads, ioLoop>>
  BY DEF Join
<1>3. /\ state \in [Clients -> States] /\ ioLoop \in [Clients -> Loops] /\ free \in Nat
      /\ idle \in BOOLEAN /\ client \in [Clients -> {"away", "backlog", "served", "refused"}]
      /\ connections \subseteq Clients /\ queue \in [Loops -> Seq(Functor)]
  BY DEF TypeInv, BasicsOK, NumbersOK
<1>4. connections = {}
  BY <1>2, <1>3 DEF CoreInv, LifeInv
<1>5. /\ queue' \in [Loops -> Seq(Functor)] /\ queue'[l] = <<>>
      /\ \A k \in Loops \ {l} : queue'[k] = queue[k]
  <2> HIDE DEF Functor
  <2>1. <<>> \in Seq(Functor)
    OBVIOUS
  <2> QED
    BY <1>2, <1>3, <2>1
<1>6. QueueInv'
  <2>1. NoDup(<<>>) /\ Ordered(<<>>)
    BY DEF NoDup, Ordered
  <2> QED
    BY <1>5, <2>1 DEF CoreInv, QueueInv
<1>7. \A n \in Names, d \in Clients, k \in Loops : Queued(n, d, k)' <=> Queued(n, d, k) /\ k # l
  <2>1. Range(<<>>) = {}
    BY DEF Range
  <2> QED
    BY <1>5, <2>1 DEF Queued
<1>8. \E fds \in Nat : /\ Settle(state, fds) /\ fds + Bit(idle') = free + Bit(idle)
                       /\ client' \in [Clients -> {"away", "backlog", "served", "refused"}]
                       /\ \A c \in Clients : client'[c] = "served" <=> client[c] = "served"
  <2>1. CASE l = numThreads
    <3> DEFINE st == [c \in Clients |-> IF ioLoop[c] = 0 /\ c \in connections THEN "removed" ELSE state[c]]
               fds == IF idle THEN free + 1 ELSE free
    <3>1. /\ idle' = FALSE /\ Settle(st, fds)
          /\ client' = [c \in Clients |-> IF client[c] = "backlog" THEN "refused" ELSE client[c]]
      BY <2>1 DEF Join, CloseAcceptor
    <3>2. st = state
      BY <1>3, <1>4
    <3>3. fds \in Nat /\ fds + Bit(idle') = free + Bit(idle)
      BY <1>3, <3>1 DEF Bit
    <3>4. /\ client' \in [Clients -> {"away", "backlog", "served", "refused"}]
          /\ \A c \in Clients : client'[c] = "served" <=> client[c] = "served"
      BY <1>3, <3>1
    <3> HIDE DEF st, fds
    <3> QED
      BY <3>1, <3>2, <3>3, <3>4
  <2>2. CASE l # numThreads
    <3>1. Settle(state, free) /\ UNCHANGED <<idle, client>>
      BY <2>2 DEF Join
    <3> QED
      BY <1>3, <3>1
  <2> QED
    BY <2>1, <2>2
<1>9. PICK fds \in Nat :
         /\ Settle(state, fds) /\ fds + Bit(idle') = free + Bit(idle)
         /\ client' \in [Clients -> {"away", "backlog", "served", "refused"}]
         /\ \A c \in Clients : client'[c] = "served" <=> client[c] = "served"
  BY <1>8
<1>10. /\ state' \in [Clients -> States]
       /\ \A d \in Clients :
            \/ state'[d] = state[d]
            \/ /\ state'[d] = "deleted" /\ state[d] \notin {"none", "deleted"} /\ d \notin connections'
               /\ \A k \in Loops, name \in Names : ~Queued(name, d, k)'
  BY <1>3, <1>5, <1>9, SettleStates
<1>11. /\ free' \in Nat /\ free' + Cardinality(Live(state')) = fds + Cardinality(Live(state))
       /\ orphaned' = orphaned \cup {c \in Dying(state) : state[c] # "removed"}
  BY <1>3, <1>9, SettleEffect
<1>12. orphaned \subseteq Clients => orphaned' \subseteq Clients
  BY <1>11 DEF Dying
<1>13. free' + Bit(idle') + Cardinality(Live(state')) = free + Bit(idle) + Cardinality(Live(state))
  <2>1. Cardinality(Live(state')) \in Nat /\ Cardinality(Live(state)) \in Nat
    BY LiveFinite
  <2>2. Bit(idle) \in Nat /\ Bit(idle') \in Nat
    BY DEF Bit
  <2>3. free \in Nat /\ free' \in Nat
    BY <1>3, <1>11
  <2>4. fds + Bit(idle') = free + Bit(idle)
    BY <1>9
  <2>5. free' + Cardinality(Live(state')) = fds + Cardinality(Live(state))
    BY <1>11
  <2> QED
    BY <2>1, <2>2, <2>3, <2>4, <2>5
<1>14. EstablishedInv'
  BY <1>1, <1>2, <1>7, <1>10 DEF CoreInv, EstablishedInv
<1>15. DestroyedInv'
  BY <1>1, <1>2, <1>7, <1>10 DEF CoreInv, DestroyedInv, Living
<1>16. RemovedInv'
  BY <1>1, <1>2, <1>7, <1>10 DEF CoreInv, RemovedInv
<1>17. LifeInv'
  BY <1>2, <1>4, <1>9, <1>10 DEF CoreInv, LifeInv, Living
<1>18. UpInv'
  BY <1>2 DEF UpInv
<1> QED
  BY <1>5, <1>6, <1>9, <1>10, <1>11, <1>12, <1>13, <1>14, <1>15, <1>16, <1>17, <1>18 DEF CoreInv

-----------------------------------------------------------------------------
(* The whole invariant.                                                    *)

\* DescriptorsAccounted with the names used here
Accounted ==
  free + taken + Bit(idle) + Bit(emfile = "close") + Cardinality(Live(state)) = Limit

\* The inductive form of DescriptorsAccounted.
LEMMA AccountedIs == Accounted <=> DescriptorsAccounted
  BY DEF Accounted, DescriptorsAccounted, Bit, Live

IndInv ==
  /\ TypeInv /\ CoreInv /\ PoolInv /\ HistoryInv /\ FdInv
  /\ OnceInOrder /\ Accounted

\* The invariant holds initially.
LEMMA InitIndInv == Init => IndInv
<1> SUFFICES ASSUME Init PROVE IndInv
  OBVIOUS
<1>1. BasicsOK
  <2>1. <<>> \in Seq(Functor)
    <3> HIDE DEF Functor
    <3> QED
      OBVIOUS
  <2>2. 0 \in Loops
    BY ServerAssumption DEF Loops
  <2> HIDE DEF Functor
  <2> QED
    BY <2>1, <2>2 DEF Init, BasicsOK, States
<1>2. NumbersOK
  BY ServerAssumption DEF Init, NumbersOK
<1>3. \A l \in Loops : queue[l] = <<>>
  BY DEF Init
<1>4. Range(<<>>) = {} /\ NoDup(<<>>) /\ Ordered(<<>>)
  BY DEF Range, NoDup, Ordered
<1>5. QueueInv /\ EstablishedInv /\ DestroyedInv /\ RemovedInv
  BY <1>3, <1>4 DEF QueueInv, EstablishedInv, DestroyedInv, RemovedInv, Queued
<1>6. LifeInv /\ UpInv
  BY DEF Init, LifeInv, UpInv, Living
<1>7. PoolInv /\ HistoryInv /\ FdInv /\ OnceInOrder
  BY DEF Init, PoolInv, HistoryInv, FdInv, OnceInOrder
<1>8. Accounted
  <2>1. Live(state) = {}
    BY DEF Init, Live
  <2>2. Cardinality(Live(state)) = 0
    BY <2>1, FS_EmptySet
  <2>3. Bit(idle) = 1 /\ Bit(emfile = "close") = 0 /\ free = Limit - 1 /\ taken = 0
    BY DEF Init, Bit
  <2> QED
    BY <2>2, <2>3, ServerAssumption DEF Accounted
<1> QED
  BY <1>1, <1>2, <1>5, <1>6, <1>7, <1>8 DEF IndInv, TypeInv, CoreInv

\* A step that leaves the connections and the queues alone
LEMMA FrameCore ==
  ASSUME CoreInv, UNCHANGED <<server, connections, state, ioLoop, queue>>,
         started => started' /\ numThreads' = numThreads,
         \A c \in Clients : client'[c] = "served" <=> client[c] = "served"
  PROVE  CoreInv'
<1>1. QueueInv' /\ EstablishedInv' /\ DestroyedInv' /\ RemovedInv' /\ UpInv'
  BY DEF CoreInv, QueueInv, EstablishedInv, DestroyedInv, RemovedInv, UpInv, Queued
<1>2. LifeInv'
  BY DEF CoreInv, LifeInv
<1> QED
  BY <1>1, <1>2 DEF CoreInv

\* The steps of the pool, of the clients and of handleRead() on EMFILE
LEMMA FrameSteps ==
  ASSUME IndInv,
         \/ \E n \in 0 .. MaxThreads : SetThreadNum(n)
         \/ Start \/ Emfile \/ EmfileAccept \/ EmfileClose \/ EmfileOpen
         \/ \E c \in Clients : Connect(c)
         \/ TakeDescriptor \/ ReturnDescriptor
         \/ UNCHANGED vars
  PROVE  IndInv'
<1> USE DEF IndInv
<1>1. /\ client \in [Clients -> {"away", "backlog", "served", "refused"}]
      /\ free \in Nat /\ taken \in Nat /\ MaxTaken \in Nat /\ MaxThreads \in Nat
      /\ numThreads \in 0 .. MaxThreads
      /\ idle \in BOOLEAN /\ Cardinality(Live(state)) \in Nat
  BY ServerAssumption, LiveFinite DEF TypeInv, BasicsOK, NumbersOK
<1>2. /\ UNCHANGED <<server, connections, state, ioLoop, queue, failed, orphaned, dangling, joined, next>>
      /\ started => started' /\ numThreads' = numThreads
      /\ numThreads' \in 0 .. MaxThreads /\ started' \in BOOLEAN
      /\ server # "up" => started' = started /\ numThreads' = numThreads
      /\ started' = started \/ (numThreads' = numThreads /\ started')
  BY <1>1 DEF SetThreadNum, Start, StartPool, Emfile, EmfileAccept, EmfileClose, EmfileOpen, Connect,
     TakeDescriptor, ReturnDescriptor, vars, poolVars, connVars, fdVars, historyVars, TypeInv, BasicsOK
<1>3. /\ client' \in [Clients -> {"away", "backlog", "served", "refused"}]
      /\ \A c \in Clients : client'[c] = "served" <=> client[c] = "served"
  BY <1>1 DEF SetThreadNum, Start, StartPool, Emfile, EmfileAccept, EmfileClose, EmfileOpen, Connect,
     TakeDescriptor, ReturnDescriptor, vars, poolVars, connVars, fdVars, historyVars
<1>4. CoreInv'
  BY <1>2, <1>3, FrameCore
<1>5. /\ idle' \in BOOLEAN /\ stolen' \in BOOLEAN /\ emfile' \in {"no", "accept", "close", "open"}
      /\ free' \in Nat /\ taken' \in 0 .. MaxTaken /\ FdInv'
      /\ free' + taken' + Bit(idle') + Bit(emfile' = "close")
           = free + taken + Bit(idle) + Bit(emfile = "close")
  <2>1. /\ stolen \in BOOLEAN /\ emfile \in {"no", "accept", "close", "open"}
        /\ taken \in 0 .. MaxTaken /\ FdInv
    BY DEF TypeInv, BasicsOK, NumbersOK
  <2>2. CASE UNCHANGED <<idle, stolen, emfile, free, taken>>
    BY <1>1, <2>1, <2>2 DEF FdInv
  <2> HIDE DEF IndInv
  <2>3. CASE Emfile
    <3>1. /\ idle' = FALSE /\ emfile = "no" /\ emfile' = "accept" /\ free = 0
          /\ stolen' = stolen /\ taken' = taken
      BY <2>3 DEF Emfile, BaseFree
    <3>2. FdInv'
      BY <3>1 DEF FdInv
    <3>3. CASE idle
      <4>1. Bit(idle) = 1 /\ Bit(idle') = 0 /\ Bit(emfile = "close") = 0 /\ Bit(emfile' = "close") = 0
        BY <3>1, <3>3 DEF Bit
      <4>2. free' = 1
        BY <2>3, <3>1, <3>3 DEF Emfile
      <4>3. free' + taken' + Bit(idle') + Bit(emfile' = "close")
              = free + taken + Bit(idle) + Bit(emfile = "close")
        BY <1>1, <3>1, <4>1, <4>2
      <4> QED
        BY <2>1, <3>1, <3>2, <4>2, <4>3
    <3>4. CASE ~idle
      <4>1. Bit(idle) = 0 /\ Bit(idle') = 0 /\ Bit(emfile = "close") = 0 /\ Bit(emfile' = "close") = 0
        BY <3>1, <3>4 DEF Bit
      <4>2. free' = 0
        BY <2>3, <3>1, <3>4 DEF Emfile
      <4> QED
        BY <1>1, <2>1, <3>1, <3>2, <4>1, <4>2
    <3> QED
      BY <3>3, <3>4
  <2>4. CASE EmfileAccept
    <3>1. emfile = "accept" /\ idle' = idle /\ taken' = taken
      BY <2>4 DEF EmfileAccept
    <3>2. Bit(idle') = Bit(idle) /\ Bit(idle) \in Nat /\ Bit(emfile = "close") = 0
      BY <3>1 DEF Bit
    <3>3. CASE free > 0
      <4>1. free' = free - 1 /\ emfile' = "close" /\ stolen' = stolen
        BY <2>4, <3>3 DEF EmfileAccept
      <4>2. Bit(emfile' = "close") = 1 /\ FdInv'
        BY <2>1, <3>1, <4>1 DEF Bit, FdInv
      <4> QED
        BY <1>1, <2>1, <3>1, <3>2, <3>3, <4>1, <4>2
    <3>4. CASE free = 0
      <4>1. free' = free /\ emfile' = "open" /\ stolen' = TRUE
        BY <2>4, <3>4 DEF EmfileAccept
      <4>2. Bit(emfile' = "close") = 0 /\ FdInv'
        BY <2>1, <3>1, <4>1 DEF Bit, FdInv
      <4> QED
        BY <1>1, <2>1, <3>1, <3>2, <4>1, <4>2
    <3> QED
      BY <1>1, <3>3, <3>4
  <2>5. CASE EmfileClose
    BY <1>1, <2>1, <2>5 DEF EmfileClose, FdInv, Bit
  <2>6. CASE EmfileOpen
    <3>1. emfile = "open" /\ emfile' = "no" /\ taken' = taken /\ ~idle /\ FdInv'
      BY <2>1, <2>6 DEF EmfileOpen, FdInv
    <3>2. Bit(idle) = 0 /\ Bit(emfile = "close") = 0 /\ Bit(emfile' = "close") = 0
      BY <3>1 DEF Bit
    <3>3. CASE free > 0
      <4>1. idle' = TRUE /\ free' = free - 1 /\ stolen' = stolen
        BY <2>6, <3>3 DEF EmfileOpen
      <4>2. Bit(idle') = 1
        BY <4>1 DEF Bit
      <4> QED
        BY <1>1, <2>1, <3>1, <3>2, <3>3, <4>1, <4>2
    <3>4. CASE ~(free > 0)
      <4>1. idle' = idle /\ free' = free /\ stolen' = TRUE
        BY <2>6, <3>4 DEF EmfileOpen
      <4> QED
        BY <1>1, <2>1, <3>1, <3>2, <4>1
    <3> QED
      BY <3>3, <3>4
  <2>7. CASE TakeDescriptor
    BY <1>1, <2>1, <2>7 DEF TakeDescriptor, FdInv, Bit
  <2>8. CASE ReturnDescriptor
    BY <1>1, <2>1, <2>8 DEF ReturnDescriptor, FdInv, Bit
  <2> QED
    BY <2>2, <2>3, <2>4, <2>5, <2>6, <2>7, <2>8 DEF SetThreadNum, Start, StartPool, Connect, vars, fdVars
<1>6. TypeInv'
  <2>1. BasicsOK'
    BY <1>2, <1>3, <1>5 DEF TypeInv, BasicsOK
  <2>2. NumbersOK'
    BY <1>1, <1>2, <1>5 DEF TypeInv, NumbersOK, PoolInv
  <2> QED
    BY <2>1, <2>2 DEF TypeInv
<1>7. PoolInv' /\ HistoryInv' /\ OnceInOrder'
  BY <1>2 DEF PoolInv, HistoryInv, OnceInOrder
<1>8. Accounted'
  <2>1. Live(state') = Live(state)
    BY <1>2
  <2>2. Bit(idle) \in Nat /\ Bit(idle') \in Nat /\ Bit(emfile = "close") \in Nat /\ Bit(emfile' = "close") \in Nat
    BY DEF Bit
  <2>3. free' \in Nat /\ taken' \in Nat
    BY <1>1, <1>5
  <2> HIDE DEF IndInv
  <2>4. Accounted
    BY DEF IndInv
  <2> QED
    BY <1>1, <1>5, <2>1, <2>2, <2>3, <2>4 DEF Accounted
<1> QED
  BY <1>4, <1>5, <1>6, <1>7, <1>8

\* Accounted after a step that moves descriptors between free, idleFd_ and the
\* connections
LEMMA Balance ==
  ASSUME IndInv, UNCHANGED <<taken, emfile>>, free' \in Nat,
         free' + Bit(idle') + Cardinality(Live(state'))
           = free + Bit(idle) + Cardinality(Live(state))
  PROVE  Accounted'
<1>1. free \in Nat /\ taken \in Nat
  BY ServerAssumption DEF IndInv, TypeInv, NumbersOK
<1>2. /\ Bit(idle) \in Nat /\ Bit(idle') \in Nat /\ Bit(emfile = "close") \in Nat
      /\ Cardinality(Live(state)) \in Nat /\ Cardinality(Live(state')) \in Nat
  BY LiveFinite DEF Bit
<1>3. Accounted /\ Limit \in Nat
  BY ServerAssumption DEF IndInv
<1> QED
  BY <1>1, <1>2, <1>3 DEF Accounted

\* handleRead() and newConnection() keep the invariant.
LEMMA AcceptStep ==
  ASSUME IndInv, NEW c \in Clients, Accept(c)
  PROVE  IndInv'
<1>1. TypeInv /\ CoreInv /\ PoolInv /\ HistoryInv /\ FdInv /\ OnceInOrder
  BY DEF IndInv
<1>2. /\ CoreInv' /\ queue' \in [Loops -> Seq(Functor)] /\ ioLoop' \in [Clients -> Loops]
      /\ state' \in [Clients -> States] /\ state[c] = "none"
      /\ state'[c] \in {"kConnecting", "kConnected"}
      /\ \A d \in Clients \ {c} : state'[d] = state[d]
  BY <1>1, AcceptCore
<1>3. /\ server = "up" /\ started /\ free > 0 /\ free' = free - 1
      /\ client' = [client EXCEPT ![c] = "served"]
      /\ next' = (IF numThreads = 0 THEN next ELSE Wrap) /\ connections' = connections \cup {c}
      /\ UNCHANGED <<server, started, numThreads, joined, idle, emfile, taken, stolen,
                     failed, orphaned, dangling>>
  BY DEF Accept, NewConnection, historyVars
<1>4. BasicsOK'
  BY <1>1, <1>2, <1>3 DEF TypeInv, BasicsOK
<1>5. NumbersOK'
  <2>1. numThreads \in Nat /\ free \in Nat /\ (next = 0 \/ next \in 0 .. numThreads - 1)
    BY <1>1, ServerAssumption DEF TypeInv, NumbersOK
  <2>2. next' = 0 \/ next' \in 0 .. numThreads - 1
    BY <1>3, <2>1 DEF Wrap
  <2> QED
    BY <1>1, <1>3, <2>1, <2>2 DEF TypeInv, NumbersOK
<1>6. PoolInv' /\ HistoryInv' /\ FdInv' /\ OnceInOrder'
  BY <1>1, <1>3 DEF PoolInv, HistoryInv, FdInv, OnceInOrder
<1>7. Accounted'
  <2>1. Live(state') = Live(state) \cup {c} /\ c \notin Live(state)
    BY <1>2 DEF Live
  <2>2. Cardinality(Live(state')) = Cardinality(Live(state)) + 1
    BY <2>1, LiveFinite, FS_AddElement
  <2>3. free \in Nat /\ free' \in Nat /\ free' = free - 1
    BY <1>1, <1>3 DEF TypeInv, NumbersOK
  <2>4. Bit(idle') = Bit(idle) /\ Bit(idle) \in Nat /\ Cardinality(Live(state)) \in Nat
    BY <1>3, LiveFinite DEF Bit
  <2>5. free' + Bit(idle') + Cardinality(Live(state'))
           = free + Bit(idle) + Cardinality(Live(state))
    BY <2>2, <2>3, <2>4
  <2> QED
    BY <1>3, <2>3, <2>5, Balance
<1> QED
  BY <1>2, <1>4, <1>5, <1>6, <1>7 DEF IndInv, TypeInv

\* So does handleClose().
LEMMA CloseStep ==
  ASSUME IndInv, NEW c \in Clients, HandleClose(c)
  PROVE  IndInv'
<1>1. TypeInv /\ CoreInv /\ PoolInv /\ HistoryInv /\ FdInv /\ OnceInOrder
  BY DEF IndInv
<1>2. /\ CoreInv' /\ queue' \in [Loops -> Seq(Functor)] /\ state' \in [Clients -> States]
      /\ failed' = failed /\ Live(state') = Live(state)
  BY <1>1, CloseCore
<1>3. /\ UNCHANGED <<server, started, numThreads, next, joined, client, ioLoop,
                     idle, emfile, free, taken, stolen, orphaned, dangling>>
      /\ connections' \subseteq connections
  BY DEF HandleClose, poolVars, fdVars
<1>4. BasicsOK'
  BY <1>1, <1>2, <1>3 DEF TypeInv, BasicsOK
<1>5. NumbersOK' /\ PoolInv' /\ HistoryInv' /\ FdInv' /\ OnceInOrder'
  BY <1>1, <1>2, <1>3 DEF TypeInv, NumbersOK, PoolInv, HistoryInv, FdInv, OnceInOrder
<1>6. Accounted'
  BY <1>2, <1>3 DEF Accounted, IndInv
<1> QED
  BY <1>2, <1>4, <1>5, <1>6 DEF IndInv, TypeInv

\* So does the destructor.
LEMMA DestroyStep ==
  ASSUME IndInv, Destroy
  PROVE  IndInv'
<1>1. TypeInv /\ CoreInv /\ PoolInv /\ HistoryInv /\ FdInv /\ OnceInOrder
  BY DEF IndInv
<1>2. /\ CoreInv' /\ queue' \in [Loops -> Seq(Functor)] /\ state' \in [Clients -> States]
      /\ client' \in [Clients -> {"away", "backlog", "served", "refused"}]
      /\ orphaned \subseteq Clients => orphaned' \subseteq Clients
      /\ free' \in Nat
      /\ free' + Bit(idle') + Cardinality(Live(state'))
           = free + Bit(idle) + Cardinality(Live(state))
  BY <1>1, DestroyCore
<1>3. /\ UNCHANGED <<started, numThreads, next, joined, ioLoop, emfile, taken, stolen, failed, dangling>>
      /\ connections' = {} /\ server = "up" /\ emfile = "no"
  BY DEF Destroy, poolVars, BaseFree
<1>4. \/ server' = "joining" /\ started /\ numThreads > 0 /\ idle' = idle
      \/ server' = "gone" /\ idle' = FALSE
  BY DEF Destroy, CloseAcceptor
<1>5. BasicsOK'
  BY <1>1, <1>2, <1>3, <1>4 DEF TypeInv, BasicsOK
<1>6. NumbersOK'
  BY <1>1, <1>2, <1>3 DEF TypeInv, NumbersOK
<1>7. PoolInv' /\ HistoryInv' /\ FdInv' /\ OnceInOrder'
  BY <1>1, <1>3, <1>4 DEF PoolInv, HistoryInv, FdInv, OnceInOrder
<1>8. Accounted'
  BY <1>2, <1>3, Balance
<1> QED
  BY <1>2, <1>5, <1>6, <1>7, <1>8 DEF IndInv, TypeInv

\* So does the join of an I/O loop.
LEMMA JoinStep ==
  ASSUME IndInv, NEW l \in Loops, Join(l)
  PROVE  IndInv'
<1>1. TypeInv /\ CoreInv /\ PoolInv /\ HistoryInv /\ FdInv /\ OnceInOrder
  BY DEF IndInv
<1>2. /\ CoreInv' /\ queue' \in [Loops -> Seq(Functor)] /\ state' \in [Clients -> States]
      /\ client' \in [Clients -> {"away", "backlog", "served", "refused"}]
      /\ orphaned \subseteq Clients => orphaned' \subseteq Clients
      /\ free' \in Nat
      /\ free' + Bit(idle') + Cardinality(Live(state'))
           = free + Bit(idle) + Cardinality(Live(state))
  BY <1>1, JoinCore
<1>3. /\ UNCHANGED <<started, numThreads, next, ioLoop, emfile, taken, stolen, failed, dangling, connections>>
      /\ server = "joining" /\ l = joined + 1 /\ joined' = l
  BY DEF Join
<1>4. \/ server' = "joining" /\ l # numThreads /\ idle' = idle
      \/ server' = "gone" /\ idle' = FALSE
  BY <1>3 DEF Join, CloseAcceptor
<1>5. BasicsOK'
  BY <1>1, <1>2, <1>3, <1>4 DEF TypeInv, BasicsOK
<1>6. /\ numThreads \in Nat /\ joined \in 0 .. numThreads /\ joined < numThreads /\ started
      /\ joined' \in 0 .. numThreads /\ (l # numThreads => joined' < numThreads)
  BY <1>1, <1>3, ServerAssumption DEF TypeInv, NumbersOK, PoolInv
<1>7. NumbersOK'
  BY <1>1, <1>2, <1>3, <1>6 DEF TypeInv, NumbersOK
<1>8. PoolInv' /\ HistoryInv' /\ FdInv' /\ OnceInOrder'
  BY <1>1, <1>3, <1>4, <1>6 DEF PoolInv, HistoryInv, FdInv, OnceInOrder
<1>9. Accounted'
  BY <1>2, <1>3, Balance
<1> QED
  BY <1>2, <1>5, <1>7, <1>8, <1>9 DEF IndInv, TypeInv

\* What a functor leaves: the invariant on connections, and as many
\* descriptors as before
LEMMA FunctorEffect ==
  ASSUME TypeInv, CoreInv, HistoryInv, NEW l \in Loops, RunFunctor(l)
  PROVE  /\ CoreInv' /\ failed' = failed /\ HistoryInv'
         /\ queue' \in [Loops -> Seq(Functor)] /\ connections' \subseteq connections
         /\ dangling' \in BOOLEAN
         /\ \E st \in [Clients -> States] : Settle(st, free) /\ Live(st) = Live(state)
<1> DEFINE name == Head(queue[l])[1]
           c == Head(queue[l])[2]
<1>1. /\ BasicsOK /\ NumbersOK /\ queue[l] # <<>> /\ state \in [Clients -> States]
      /\ failed \in BOOLEAN /\ dangling \in BOOLEAN /\ QueueInv /\ server \in {"up", "joining", "gone"}
      /\ UNCHANGED <<server, started, numThreads, client, ioLoop>>
  BY DEF TypeInv, BasicsOK, RunFunctor, poolVars, CoreInv
<1>2. name \in Names /\ c \in Clients /\ Head(queue[l]) = <<name, c>>
  BY <1>1, HeadTyped
<1>3. \/ name = "connectEstablished" /\ ConnectEstablished(l, c)
      \/ name = "connectDestroyed" /\ ConnectDestroyed(l, c)
      \/ name = "removeConnectionInLoop" /\ RemoveFunctor(c)
  BY DEF RunFunctor
<1>4. Queued(name, c, l) /\ (name = "connectDestroyed" => ~Queued("connectEstablished", c, l))
  <2>1. queue[l] \in Seq(Functor) /\ NoDup(queue[l]) /\ Ordered(queue[l])
    BY <1>1 DEF BasicsOK, QueueInv
  <2> QED
    BY <1>1, <1>2, <2>1, RangeTail DEF Queued
<1> HIDE DEF name, c
<1>5. CASE name = "connectEstablished"
  <2>1. ConnectEstablished(l, c) /\ Head(queue[l]) = <<"connectEstablished", c>>
    BY <1>2, <1>3, <1>5
  <2>2. /\ CoreInv' /\ failed' = failed /\ queue' \in [Loops -> Seq(Functor)]
        /\ server = "up" => orphaned' = orphaned
    BY <1>1, <1>2, <2>1, EstablishedCore
  <2>3. connections' = connections /\ dangling' = dangling /\ Settle([state EXCEPT ![c] = "kConnected"], free)
    BY <2>1 DEF ConnectEstablished
  <2>4. state[c] = "kConnecting"
    BY <1>2, <1>4, <1>5 DEF CoreInv, EstablishedInv
  <2>5. PICK st \in [Clients -> States] : st = [state EXCEPT ![c] = "kConnected"]
    BY <1>1 DEF States
  <2>6. Live(st) = Live(state)
    BY <1>1, <1>2, <2>4, <2>5 DEF Live
  <2>7. HistoryInv'
    BY <1>1, <2>2, <2>3 DEF HistoryInv
  <2>8. Settle(st, free) /\ connections' \subseteq connections /\ dangling' \in BOOLEAN
    BY <1>1, <2>3, <2>5
  <2> QED
    BY <2>2, <2>6, <2>7, <2>8
<1>6. CASE name = "connectDestroyed"
  <2>1. ConnectDestroyed(l, c) /\ Head(queue[l]) = <<"connectDestroyed", c>>
    BY <1>2, <1>3, <1>6
  <2>2. /\ CoreInv' /\ failed' = failed /\ queue' \in [Loops -> Seq(Functor)]
        /\ server = "up" => orphaned' = orphaned
    BY <1>1, <1>2, <2>1, DestroyedCore
  <2>3. connections' = connections /\ dangling' = dangling /\ Settle([state EXCEPT ![c] = "removed"], free)
    BY <2>1 DEF ConnectDestroyed
  <2>4. state[c] \in {"kConnected", "kDisconnected"}
    BY <1>2, <1>4, <1>6 DEF CoreInv, DestroyedInv, Living
  <2>5. PICK st \in [Clients -> States] : st = [state EXCEPT ![c] = "removed"]
    BY <1>1 DEF States
  <2>6. Live(st) = Live(state)
    BY <1>1, <1>2, <2>4, <2>5 DEF Live
  <2>7. HistoryInv'
    BY <1>1, <2>2, <2>3 DEF HistoryInv
  <2>8. Settle(st, free) /\ connections' \subseteq connections /\ dangling' \in BOOLEAN
    BY <1>1, <2>3, <2>5
  <2> QED
    BY <2>2, <2>6, <2>7, <2>8
<1>7. CASE name = "removeConnectionInLoop"
  <2>1. RemoveFunctor(c) /\ Head(queue[l]) = <<"removeConnectionInLoop", c>>
    BY <1>2, <1>3, <1>7
  <2>2. l = 0
    BY <1>2, <1>4, <1>7 DEF CoreInv, RemovedInv
  <2>3. CASE server = "up"
    <3>1. RemoveConnectionInLoop(c) /\ Settle(state, free) /\ dangling' = dangling
      BY <2>1, <2>3 DEF RemoveFunctor
    <3>2. /\ CoreInv' /\ failed' = failed /\ queue' \in [Loops -> Seq(Functor)]
          /\ orphaned' = orphaned
      BY <1>1, <1>2, <2>1, <2>2, <2>3, <3>1, RemoveCore
    <3>3. HistoryInv' /\ connections' \subseteq connections /\ dangling' \in BOOLEAN
      BY <1>1, <3>1, <3>2 DEF HistoryInv, RemoveConnectionInLoop
    <3> QED
      BY <1>1, <3>1, <3>2, <3>3
  <2>4. CASE server # "up"
    <3>1. /\ server = "gone" /\ dangling' = TRUE /\ queue' = [queue EXCEPT ![0] = Tail(@)]
          /\ UNCHANGED <<connections, failed>> /\ Settle(state, free)
      BY <2>1, <2>4 DEF RemoveFunctor
    <3>2. CoreInv' /\ queue' \in [Loops -> Seq(Functor)]
      BY <1>1, <1>2, <2>1, <2>2, <3>1, DanglingCore
    <3>3. HistoryInv' /\ connections' \subseteq connections /\ dangling' \in BOOLEAN
      BY <1>1, <3>1 DEF HistoryInv
    <3> QED
      BY <1>1, <3>1, <3>2, <3>3
  <2> QED
    BY <2>3, <2>4
<1> QED
  BY <1>3, <1>5, <1>6, <1>7

\* So does every functor a loop runs.
LEMMA FunctorStep ==
  ASSUME IndInv, NEW l \in Loops, RunFunctor(l)
  PROVE  IndInv'
<1>1. TypeInv /\ CoreInv /\ PoolInv /\ HistoryInv /\ FdInv /\ OnceInOrder
  BY DEF IndInv
<1>2. /\ CoreInv' /\ failed' = failed /\ HistoryInv'
      /\ queue' \in [Loops -> Seq(Functor)] /\ connections' \subseteq connections
      /\ dangling' \in BOOLEAN
      /\ \E st \in [Clients -> States] : Settle(st, free) /\ Live(st) = Live(state)
  BY <1>1, FunctorEffect
<1>3. PICK st \in [Clients -> States] : Settle(st, free) /\ Live(st) = Live(state)
  BY <1>2
<1>4. free \in Nat
  BY <1>1 DEF TypeInv, NumbersOK
<1>5. /\ state' \in [Clients -> States] /\ free' \in Nat
      /\ free' + Cardinality(Live(state')) = free + Cardinality(Live(state))
      /\ orphaned' = orphaned \cup {c \in Dying(st) : st[c] # "removed"}
  BY <1>3, <1>4, SettleEffect
<1>6. UNCHANGED <<server, started, numThreads, next, joined, client, ioLoop, idle, emfile, taken, stolen>>
  BY DEF RunFunctor, poolVars
<1>7. orphaned \subseteq Clients => orphaned' \subseteq Clients
  BY <1>5 DEF Dying
<1>8. BasicsOK'
  BY <1>1, <1>2, <1>5, <1>6, <1>7 DEF TypeInv, BasicsOK
<1>9. NumbersOK' /\ PoolInv' /\ FdInv' /\ OnceInOrder'
  BY <1>1, <1>2, <1>5, <1>6 DEF TypeInv, NumbersOK, PoolInv, FdInv, OnceInOrder
<1>10. Accounted'
  <2>1. free' \in Nat /\ free' + Cardinality(Live(state')) = free + Cardinality(Live(state))
    BY <1>5
  <2>2. /\ Bit(idle') = Bit(idle) /\ Bit(idle) \in Nat
        /\ Cardinality(Live(state)) \in Nat /\ Cardinality(Live(state')) \in Nat
    BY <1>6, LiveFinite DEF Bit
  <2>3. free' + Bit(idle') + Cardinality(Live(state'))
           = free + Bit(idle) + Cardinality(Live(state))
    BY <1>4, <2>1, <2>2
  <2> QED
    BY <1>6, <2>1, <2>3, Balance
<1> QED
  BY <1>2, <1>8, <1>9, <1>10 DEF IndInv, TypeInv

-----------------------------------------------------------------------------
(* The theorems.                                                           *)

\* The invariant holds of every state the server reaches: each step, of the
\* base loop, of an I/O loop, of a client or of another thread, preserves it.
THEOREM Inductive == Spec => []IndInv
<1>1. Init => IndInv
  BY InitIndInv
<1>2. IndInv /\ [Next]_vars => IndInv'
  <2> SUFFICES ASSUME IndInv, [Next]_vars PROVE IndInv'
    OBVIOUS
  <2>1. CASE \/ \E n \in 0 .. MaxThreads : SetThreadNum(n)
             \/ Start \/ Emfile \/ EmfileAccept \/ EmfileClose \/ EmfileOpen
             \/ \E c \in Clients : Connect(c)
             \/ TakeDescriptor \/ ReturnDescriptor
             \/ UNCHANGED vars
    BY <2>1, FrameSteps
  <2>2. CASE \E c \in Clients : Accept(c)
    BY <2>2, AcceptStep
  <2>3. CASE \E c \in Clients : HandleClose(c)
    BY <2>3, CloseStep
  <2>4. CASE Destroy
    BY <2>4, DestroyStep
  <2>5. CASE \E l \in Loops : RunFunctor(l)
    BY <2>5, FunctorStep
  <2>6. CASE \E l \in Loops : Join(l)
    BY <2>6, JoinStep
  <2> QED
    BY <2>1, <2>2, <2>3, <2>4, <2>5, <2>6 DEF Next, HandleRead
<1> QED
  BY <1>1, <1>2, PTL DEF Spec

\* The variables keep their types, whatever the number of clients, threads and
\* descriptors: getNextLoop() indexes loops_ in range and free never exceeds
\* the limit of the process (EventLoopThreadPool.cc, Acceptor.cc).
THEOREM TypeCorrect == Spec => []TypeOK
<1>1. IndInv => TypeOK
  <2> SUFFICES ASSUME IndInv PROVE TypeOK
    OBVIOUS
  <2>1. BasicsOK /\ NumbersOK /\ Accounted
    BY DEF IndInv, TypeInv
  <2>2. free \in 0 .. Limit
    <3>1. free \in Nat /\ taken \in Nat /\ Limit \in Nat
      BY <2>1, ServerAssumption DEF NumbersOK
    <3>2. Bit(idle) \in Nat /\ Bit(emfile = "close") \in Nat /\ Cardinality(Live(state)) \in Nat
      BY LiveFinite DEF Bit
    <3> QED
      BY <2>1, <3>1, <3>2 DEF Accounted
  <2> QED
    BY <2>1, <2>2 DEF TypeOK, BasicsOK, NumbersOK, States
<1> QED
  BY <1>1, Inductive, PTL

\* No assert of the server, of its connections or of their channels fails
\* (TCPServer.cc:96, TCPConnection.cc connectEstablished() and
\* connectDestroyed()): a connection is established, erased and destroyed
\* once, in this order, however the loops interleave and whenever the server
\* is destroyed.
THEOREM AlwaysOnceInOrder == Spec => []OnceInOrder
<1>1. IndInv => OnceInOrder
  BY DEF IndInv
<1> QED
  BY <1>1, Inductive, PTL

\* handleRead() and the destruction of connections leak no descriptor and
\* close none twice, with EMFILE handled at any of its steps while other
\* threads take and return descriptors (Acceptor.cc:70-77).
THEOREM DescriptorsAlwaysAccounted == Spec => []DescriptorsAccounted
<1>1. IndInv => DescriptorsAccounted
  BY AccountedIs DEF IndInv
<1> QED
  BY <1>1, Inductive, PTL

\* While the server is up its connections are destroyed by connectDestroyed()
\* only, none is lost and no functor runs on a destroyed server
\* (TCPServer.cc:85-99).
THEOREM AlwaysHeldWhileUp == Spec => []HeldWhileUp
<1>1. IndInv => HeldWhileUp
  BY DEF IndInv, CoreInv, HistoryInv, UpInv, HeldWhileUp
<1> QED
  BY <1>1, Inductive, PTL
=============================================================================
