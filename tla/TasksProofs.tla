---------------------------- MODULE TasksProofs ----------------------------
(***************************************************************************)
(* Proofs about the scheduler, for any tasks, sockets, delays and bounds   *)
(* on futures, on the clock and on the depth of nested drives.             *)
(*                                                                         *)
(* A task has a home: the one place that will step it or is stepping it,   *)
(* or none.  The invariant says of each place that it is home to exactly   *)
(* those it holds, and holds each of them once.                            *)
(***************************************************************************)
EXTENDS Tasks, FiniteSetTheorems, SequenceTheorems, TLAPS

-----------------------------------------------------------------------------
(* The invariant. *)

Homes == {"none", "queue", "timer", "socket", "stack", "future"}

Queued(home) ==
    /\ queue \in Seq(Task)
    /\ \A i, j \in DOMAIN queue : queue[i] = queue[j] => i = j
    /\ \A t \in Task : home[t] = "queue" <=> \E i \in DOMAIN queue : queue[i] = t

Timed(home) ==
    /\ timers \in Seq(TimerRecord)
    /\ \A i, j \in DOMAIN timers : timers[i].task = timers[j].task => i = j
    /\ \A t \in Task : home[t] = "timer" <=> \E i \in DOMAIN timers : timers[i].task = t

Armed(home) ==
    /\ armed \in [Fd -> Task \cup {None}]
    /\ \A r, s \in Fd : armed[r] = armed[s] /\ armed[r] # None => r = s
    /\ \A t \in Task : home[t] = "socket" <=> \E s \in Fd : armed[s] = t
    /\ sources \in Nat /\ sources >= ArmedSockets

Stacked(home) ==
    /\ stack \in Seq(FrameRecord)
    /\ stack # <<>> /\ stack[1].by = Main
    /\ \A i, j \in DOMAIN stack : stack[i].by = stack[j].by => i = j
    /\ \A t \in Task : home[t] = "stack" <=> \E i \in DOMAIN stack : stack[i].by = t

Awaited(home) ==
    /\ fut \in Seq(FutRecord) /\ Len(fut) <= MaxFut
    /\ \A f, g \in Made : fut[f].waiter = fut[g].waiter /\ fut[f].waiter # None => f = g
    /\ \A t \in Task : home[t] = "future" <=> \E f \in Made : fut[f].waiter = t

\* The future a task will complete is there.
Fits(r, made) == IF r.kind = "body" THEN r.fut \in made ELSE r.fut = NoFut /\ r.target \in made

Alive(home) ==
    /\ home \in [Task -> Homes]
    /\ task \in [Task -> TaskRecord \cup {None}]
    /\ \A t \in Task : home[t] # "none" => task[t] # None
    /\ \A t \in Task : task[t] # None => Fits(task[t], Made)

Bounded ==
    /\ now \in 0 .. MaxTime
    /\ group \in SUBSET Fut
    /\ failing \in BOOLEAN /\ over \in BOOLEAN

Settled(home) ==
    /\ Queued(home) /\ Timed(home) /\ Armed(home) /\ Stacked(home) /\ Awaited(home)
    /\ Alive(home)

TaskInv == (\E home \in [Task -> Homes] : Settled(home)) /\ Bounded /\ WaitersAreWoken

-----------------------------------------------------------------------------
(* Places that a step leaves alone. *)

LEMMA QueueStays ==
    ASSUME NEW h, NEW k, Queued(h), queue' = queue,
           \A t \in Task : k[t] = "queue" <=> h[t] = "queue"
    PROVE  Queued(k)'
BY DEF Queued

LEMMA TimersStay ==
    ASSUME NEW h, NEW k, Timed(h), timers' = timers,
           \A t \in Task : k[t] = "timer" <=> h[t] = "timer"
    PROVE  Timed(k)'
BY DEF Timed

LEMMA SocketsStay ==
    ASSUME NEW h, NEW k, Armed(h), armed' = armed, sources' = sources,
           \A t \in Task : k[t] = "socket" <=> h[t] = "socket"
    PROVE  Armed(k)'
BY DEF Armed, ArmedSockets

LEMMA StackStays ==
    ASSUME NEW h, NEW k, Stacked(h), stack' = stack,
           \A t \in Task : k[t] = "stack" <=> h[t] = "stack"
    PROVE  Stacked(k)'
BY DEF Stacked

\* The futures may be completed meanwhile.
LEMMA WaitersStay ==
    ASSUME NEW h, NEW k, Awaited(h), fut' \in Seq(FutRecord), Made' = Made,
           \A f \in Made : fut'[f].waiter = fut[f].waiter,
           \A t \in Task : k[t] = "future" <=> h[t] = "future"
    PROVE  Awaited(k)'
<1>1. Len(fut') = Len(fut)
  BY DEF Awaited, Made
<1>2. fut' \in Seq(FutRecord) /\ Len(fut') <= MaxFut
  BY <1>1 DEF Awaited
<1>3. \A f, g \in Made' : fut'[f].waiter = fut'[g].waiter /\ fut'[f].waiter # None => f = g
  BY DEF Awaited
<1>4. \A t \in Task : k[t] = "future" <=> \E f \in Made' : fut'[f].waiter = t
  BY DEF Awaited
<1> QED
  BY <1>2, <1>3, <1>4 DEF Awaited

-----------------------------------------------------------------------------
(* Sequences in which nothing is twice. *)

\* The first position that has passed a test, or the end.
LEMMA DueIsThere ==
    ASSUME timers \in Seq(TimerRecord), NEW m \in Nat
    PROVE  Due(m) \in 0 .. Len(timers)
<1> DEFINE P(k) == /\ \A i \in 1 .. k : timers[i].at <= m
                   /\ k < Len(timers) => timers[k + 1].at > m
           Late == {i \in Nat : i \in 1 .. Len(timers) /\ timers[i].at > m}
<1>1. Len(timers) \in Nat /\ \A i \in 1 .. Len(timers) : timers[i].at \in Nat
  <2>1. \A i \in 1 .. Len(timers) : timers[i] \in TimerRecord
    OBVIOUS
  <2>2. \A r \in TimerRecord : r.at \in Nat
    BY DEF TimerRecord
  <2> QED
    BY <2>1, <2>2
<1>2. \E k \in 0 .. Len(timers) : P(k)
  <2>1. CASE Late = {}
    <3>1. P(Len(timers))
      BY <1>1, <2>1
    <3> QED
      BY <1>1, <3>1
  <2>2. CASE Late # {}
    <3>1. PICK x \in Late : \A y \in Late : ~(<<y, x>> \in OpToRel(<, Nat))
      BY <2>2, NatLessThanWellFounded, WFMin
    <3>2. \A y \in Late : ~(y < x)
      BY <3>1 DEF OpToRel
    <3>3. P(x - 1) /\ x - 1 \in 0 .. Len(timers)
      BY <1>1, <3>2
    <3> QED
      BY <3>3
  <2> QED
    BY <2>1, <2>2
<1> QED
  BY <1>2 DEF Due

-----------------------------------------------------------------------------
(* Places that one task comes to or leaves. *)

LEMMA QueueGrows ==
    ASSUME NEW h, NEW k, Queued(h), NEW t \in Task, h[t] # "queue",
           queue' = Append(queue, t), k[t] = "queue",
           \A u \in Task \ {t} : k[u] = "queue" <=> h[u] = "queue"
    PROVE  Queued(k)'
<1>1. /\ queue \in Seq(Task) /\ Len(queue) \in Nat /\ DOMAIN queue = 1 .. Len(queue)
      /\ \A i \in 1 .. Len(queue) : queue[i] # t
  BY DEF Queued
<1>2. /\ queue' \in Seq(Task) /\ DOMAIN queue' = 1 .. Len(queue) + 1
      /\ \A i \in 1 .. Len(queue) : queue'[i] = queue[i]
      /\ queue'[Len(queue) + 1] = t
  BY <1>1, AppendProperties, LenProperties
<1>3. \A i, j \in DOMAIN queue' : queue'[i] = queue'[j] => i = j
  <2> SUFFICES ASSUME NEW i \in DOMAIN queue', NEW j \in DOMAIN queue', queue'[i] = queue'[j]
               PROVE  i = j
    OBVIOUS
  <2>1. (i \in 1 .. Len(queue) \/ i = Len(queue) + 1) /\ (j \in 1 .. Len(queue) \/ j = Len(queue) + 1)
    BY <1>1, <1>2
  <2> QED
    BY <1>1, <1>2, <2>1 DEF Queued
<1>4. \A u \in Task : k[u] = "queue" <=> \E i \in DOMAIN queue' : queue'[i] = u
  <2> SUFFICES ASSUME NEW u \in Task
               PROVE  k[u] = "queue" <=> \E i \in DOMAIN queue' : queue'[i] = u
    OBVIOUS
  <2>1. (\E i \in DOMAIN queue' : queue'[i] = u) <=> u = t \/ \E i \in DOMAIN queue : queue[i] = u
    BY <1>1, <1>2
  <2> QED
    BY <2>1 DEF Queued
<1> QED
  BY <1>2, <1>3, <1>4 DEF Queued

LEMMA QueueShrinks ==
    ASSUME NEW h, NEW k, Queued(h), queue # <<>>, queue' = Tail(queue),
           k[Head(queue)] # "queue",
           \A u \in Task \ {Head(queue)} : k[u] = "queue" <=> h[u] = "queue"
    PROVE  Queued(k)' /\ Head(queue) \in Task /\ h[Head(queue)] = "queue"
<1>1. /\ queue \in Seq(Task) /\ Len(queue) \in Nat \ {0} /\ DOMAIN queue = 1 .. Len(queue)
      /\ Head(queue) = queue[1] /\ Head(queue) \in Task
  BY DEF Queued
<1>2. /\ queue' \in Seq(Task) /\ DOMAIN queue' = 1 .. Len(queue) - 1
      /\ \A i \in DOMAIN queue' : queue'[i] = queue[i + 1]
  BY <1>1, HeadTailProperties, LenProperties
<1>3. \A i, j \in DOMAIN queue' : queue'[i] = queue'[j] => i = j
  <2> SUFFICES ASSUME NEW i \in DOMAIN queue', NEW j \in DOMAIN queue', queue'[i] = queue'[j]
               PROVE  i = j
    OBVIOUS
  <2>1. i + 1 \in DOMAIN queue /\ j + 1 \in DOMAIN queue /\ queue[i + 1] = queue[j + 1]
    BY <1>1, <1>2
  <2>2. i + 1 = j + 1
    BY <2>1 DEF Queued
  <2> QED
    BY <1>1, <1>2, <2>2
<1>4. \A u \in Task : k[u] = "queue" <=> \E i \in DOMAIN queue' : queue'[i] = u
  <2> SUFFICES ASSUME NEW u \in Task
               PROVE  k[u] = "queue" <=> \E i \in DOMAIN queue' : queue'[i] = u
    OBVIOUS
  <2>1. ASSUME NEW i \in DOMAIN queue', queue'[i] = u PROVE k[u] = "queue"
    <3>1. i + 1 \in DOMAIN queue /\ queue[i + 1] = u /\ i + 1 # 1
      BY <1>1, <1>2, <2>1
    <3>2. u # queue[1] /\ h[u] = "queue"
      BY <1>1, <3>1 DEF Queued
    <3> QED
      BY <1>1, <3>2
  <2>2. ASSUME k[u] = "queue" PROVE \E i \in DOMAIN queue' : queue'[i] = u
    <3>1. u # queue[1] /\ h[u] = "queue"
      BY <1>1, <2>2
    <3>2. PICK i \in DOMAIN queue : queue[i] = u
      BY <3>1 DEF Queued
    <3>3. i - 1 \in DOMAIN queue' /\ queue'[i - 1] = queue[i]
      BY <1>1, <1>2, <3>1, <3>2
    <3> QED
      BY <3>2, <3>3
  <2> QED
    BY <2>1, <2>2
<1>5. h[Head(queue)] = "queue"
  BY <1>1 DEF Queued
<1> QED
  BY <1>1, <1>2, <1>3, <1>4, <1>5 DEF Queued

\* A sequence with one element put in behind the first d.
Put(s, d, e) == SubSeq(s, 1, d) \o <<e>> \o SubSeq(s, d + 1, Len(s))

LEMMA PutIn ==
    ASSUME NEW S, NEW s \in Seq(S), NEW d \in 0 .. Len(s), NEW e \in S
    PROVE  /\ Put(s, d, e) \in Seq(S) /\ Len(Put(s, d, e)) = Len(s) + 1
           /\ \A i \in 1 .. d : Put(s, d, e)[i] = s[i]
           /\ Put(s, d, e)[d + 1] = e
           /\ \A i \in d + 2 .. Len(s) + 1 : Put(s, d, e)[i] = s[i - 1]
<1> DEFINE before == SubSeq(s, 1, d)
           after == SubSeq(s, d + 1, Len(s))
           left == before \o <<e>>
           n == Len(s) - d
<1>1. Len(s) \in Nat /\ d \in Nat /\ n \in Nat /\ \A i \in 1 .. Len(s) : s[i] \in S
  OBVIOUS
<1>2. /\ before \in Seq(S) /\ Len(before) = d
      /\ \A i \in 1 .. d : before[i] = s[i]
  BY <1>1, SubSeqProperties
<1>3. /\ after \in Seq(S) /\ Len(after) = n
      /\ \A i \in 1 .. n : after[i] = s[d + i]
  <2>1. /\ after \in Seq(S)
        /\ Len(after) = IF d + 1 <= Len(s) THEN Len(s) - (d + 1) + 1 ELSE 0
        /\ \A i \in 1 .. Len(s) - (d + 1) + 1 : after[i] = s[d + 1 + i - 1]
    BY <1>1, SubSeqProperties
  <2> QED
    BY <1>1, <2>1
<1>4. <<e>> \in Seq(S) /\ Len(<<e>>) = 1 /\ <<e>>[1] = e
  OBVIOUS
<1> HIDE DEF before, after
<1>5. /\ left \in Seq(S) /\ Len(left) = d + 1
      /\ \A i \in 1 .. d + 1 : left[i] = IF i <= d THEN s[i] ELSE e
  <2>1. /\ left \in Seq(S) /\ Len(left) = d + 1
        /\ \A i \in 1 .. d + 1 : left[i] = IF i <= d THEN before[i] ELSE <<e>>[i - d]
    BY <1>2, <1>4, ConcatProperties
  <2> QED
    BY <1>1, <1>2, <1>4, <2>1
<1> HIDE DEF left
<1>6. /\ left \o after \in Seq(S) /\ Len(left \o after) = Len(left) + Len(after)
      /\ \A i \in 1 .. Len(left) + Len(after) :
            (left \o after)[i] = IF i <= Len(left) THEN left[i] ELSE after[i - Len(left)]
  BY <1>3, <1>5, ConcatProperties
<1>7. Len(left) + Len(after) = Len(s) + 1
  BY <1>1, <1>3, <1>5
<1>8. \A i \in 1 .. d : (left \o after)[i] = s[i]
  BY <1>1, <1>5, <1>6, <1>7
<1>9. (left \o after)[d + 1] = e
  BY <1>1, <1>5, <1>6, <1>7
<1>10. ASSUME NEW i \in d + 2 .. Len(s) + 1 PROVE (left \o after)[i] = s[i - 1]
  <2>1. /\ i - (d + 1) \in 1 .. n /\ i \in 1 .. Len(left) + Len(after)
        /\ i > Len(left) /\ i - Len(left) = i - (d + 1)
    BY <1>1, <1>5, <1>7
  <2>2. (left \o after)[i] = after[i - (d + 1)]
    BY <1>6, <2>1
  <2>3. after[i - (d + 1)] = s[d + (i - (d + 1))] /\ d + (i - (d + 1)) = i - 1
    BY <1>1, <1>3, <2>1
  <2> QED
    BY <2>2, <2>3
<1> QED
  BY <1>6, <1>7, <1>8, <1>9, <1>10 DEF Put, left, before, after

\* ep_async_register_timer keeps the others and takes in one.
LEMMA TimersGrow ==
    ASSUME NEW h, NEW k, Timed(h), NEW t \in Task, h[t] # "timer",
           NEW m \in 0 .. MaxTime, timers' = WithTimer(m, t), k[t] = "timer",
           \A u \in Task \ {t} : k[u] = "timer" <=> h[u] = "timer"
    PROVE  Timed(k)'
<1> DEFINE new == [at |-> m, task |-> t]
           d == Due(m)
<1>1. timers \in Seq(TimerRecord) /\ Len(timers) \in Nat /\ DOMAIN timers = 1 .. Len(timers)
  BY DEF Timed
<1>2. d \in 0 .. Len(timers) /\ d \in Nat
  BY <1>1, TasksAssumption, DueIsThere
<1>3. new \in TimerRecord /\ new.task = t
  BY DEF TimerRecord
<1>4. \A i \in 1 .. Len(timers) : timers[i].task \in Task /\ timers[i].task # t
  <2>1. \A i \in 1 .. Len(timers) : timers[i] \in TimerRecord
    BY <1>1
  <2>2. \A r \in TimerRecord : r.task \in Task
    BY DEF TimerRecord
  <2>3. \A i \in DOMAIN timers : timers[i].task # t
    BY DEF Timed
  <2> QED
    BY <1>1, <2>1, <2>2, <2>3
<1>5. timers' = Put(timers, d, new)
  BY DEF WithTimer, Put
<1> HIDE DEF new, d
<1>9. timers' \in Seq(TimerRecord) /\ Len(timers') = Len(timers) + 1
  BY <1>1, <1>2, <1>3, <1>5, PutIn
<1>10. /\ \A i \in 1 .. d : timers'[i] = timers[i]
       /\ timers'[d + 1] = new
       /\ \A i \in d + 2 .. Len(timers) + 1 : timers'[i] = timers[i - 1]
  <2> DEFINE q == Put(timers, d, new)
  <2>1. q[d + 1] = new
    BY <1>1, <1>2, <1>3, PutIn
  <2>2. \A i \in 1 .. d : q[i] = timers[i]
    BY <1>1, <1>2, <1>3, PutIn
  <2>3. \A i \in d + 2 .. Len(timers) + 1 : q[i] = timers[i - 1]
    BY <1>1, <1>2, <1>3, PutIn
  <2> QED
    BY <1>5, <2>1, <2>2, <2>3
<1>11. DOMAIN timers' = 1 .. Len(timers) + 1
  BY <1>9, LenProperties
<1>12. \A i, j \in DOMAIN timers' : timers'[i].task = timers'[j].task => i = j
  <2> SUFFICES ASSUME NEW i \in 1 .. Len(timers) + 1, NEW j \in 1 .. Len(timers) + 1,
                      timers'[i].task = timers'[j].task
               PROVE  i = j
    BY <1>11
  <2> DEFINE Old(x) == IF x <= d THEN x ELSE x - 1
  <2>1. \A x \in 1 .. Len(timers) + 1 : x # d + 1 =>
           Old(x) \in DOMAIN timers /\ timers'[x] = timers[Old(x)]
    BY <1>1, <1>2, <1>10
  <2>2. CASE i = d + 1 /\ j # d + 1
    <3>1. timers'[d + 1].task = t
      BY <1>1, <1>2, <1>3, <1>10
    <3>2. Old(j) \in DOMAIN timers /\ timers[Old(j)].task = t
      BY <2>1, <2>2, <3>1
    <3> QED
      BY <1>1, <1>4, <3>2
  <2>3. CASE j = d + 1 /\ i # d + 1
    <3>1. timers'[d + 1].task = t
      BY <1>1, <1>2, <1>3, <1>10
    <3>2. Old(i) \in DOMAIN timers /\ timers[Old(i)].task = t
      BY <2>1, <2>3, <3>1
    <3> QED
      BY <1>1, <1>4, <3>2
  <2>4. CASE i # d + 1 /\ j # d + 1
    <3>1. Old(i) = Old(j)
      BY <2>1, <2>4 DEF Timed
    <3> QED
      BY <1>1, <1>2, <2>4, <3>1
  <2> QED
    BY <2>2, <2>3, <2>4
<1>13. \A u \in Task : k[u] = "timer" <=> \E i \in DOMAIN timers' : timers'[i].task = u
  <2> SUFFICES ASSUME NEW u \in Task
               PROVE  k[u] = "timer" <=> \E i \in 1 .. Len(timers) + 1 : timers'[i].task = u
    BY <1>11
  <2>1. ASSUME NEW i \in 1 .. Len(timers) + 1, timers'[i].task = u
        PROVE  u = t \/ \E j \in DOMAIN timers : timers[j].task = u
    <3>1. CASE i <= d
      BY <1>1, <1>2, <1>10, <2>1, <3>1
    <3>2. CASE i = d + 1
      BY <1>1, <1>2, <1>3, <1>10, <2>1, <3>2
    <3>3. CASE i > d + 1
      <4>1. i - 1 \in DOMAIN timers /\ timers'[i] = timers[i - 1]
        BY <1>1, <1>2, <1>10, <3>3
      <4> QED
        BY <2>1, <4>1
    <3> QED
      BY <1>1, <1>2, <3>1, <3>2, <3>3
  <2>2. ASSUME NEW j \in DOMAIN timers, timers[j].task = u
        PROVE  \E i \in 1 .. Len(timers) + 1 : timers'[i].task = u
    <3>1. CASE j <= d
      BY <1>1, <1>2, <1>10, <2>2, <3>1
    <3>2. CASE j > d
      <4>1. j + 1 \in 1 .. Len(timers) + 1 /\ timers'[j + 1] = timers[j]
        BY <1>1, <1>2, <1>10, <3>2
      <4> QED
        BY <2>2, <4>1
    <3> QED
      BY <1>1, <1>2, <3>1, <3>2
  <2>3. d + 1 \in 1 .. Len(timers) + 1 /\ timers'[d + 1].task = t
    BY <1>1, <1>2, <1>3, <1>10
  <2>4. k[u] = "timer" <=> u = t \/ \E j \in DOMAIN timers : timers[j].task = u
    BY DEF Timed
  <2> QED
    BY <2>1, <2>2, <2>3, <2>4
<1> QED
  BY <1>9, <1>12, <1>13 DEF Timed

\* async_wait_readable arms a socket, for whatever task it was armed before,
LEMMA SocketsGrow ==
    ASSUME NEW h, NEW k, Armed(h), NEW t \in Task, h[t] # "socket", NEW s \in Fd,
           NEW before, armed[s] = before, NEW after, armed' = after, after = [armed EXCEPT ![s] = t],
           sources' = sources + 1, k[t] = "socket",
           \A u \in Task \ {t} : k[u] = "socket" <=> h[u] = "socket" /\ u # before
    PROVE  Armed(k)'
<1> DEFINE busy == {r \in Fd : armed[r] # None}
<1>1. /\ armed' \in [Fd -> Task \cup {None}] /\ armed'[s] = t /\ t # None
      /\ \A r \in Fd \ {s} : armed'[r] = armed[r]
      /\ \A r \in Fd : armed[r] # t
  BY TasksAssumption DEF Armed
<1>2. {r \in Fd : armed'[r] # None} = busy \cup {s}
  BY <1>1
<1>3. IsFiniteSet(busy)
  <2>1. busy \in SUBSET Fd
    OBVIOUS
  <2> QED
    BY <2>1, TasksAssumption, FS_Subset
<1>4. sources' \in Nat /\ sources' >= Cardinality({r \in Fd : armed'[r] # None})
  <2>1. sources \in Nat /\ sources >= Cardinality(busy)
    BY DEF Armed, ArmedSockets
  <2> HIDE DEF busy
  <2>2. PICK n \in Nat : n = Cardinality(busy)
    BY <1>3, FS_CardinalityType
  <2>3. Cardinality(busy \cup {s}) \in {n, n + 1}
    BY <1>3, <2>2, FS_AddElement
  <2>4. sources' \in Nat /\ sources' >= Cardinality(busy \cup {s})
    BY <2>1, <2>2, <2>3
  <2> QED
    BY <1>2, <2>4
<1>5. \A q, r \in Fd : armed'[q] = armed'[r] /\ armed'[q] # None => q = r
  <2> SUFFICES ASSUME NEW q \in Fd, NEW r \in Fd, armed'[q] = armed'[r], armed'[q] # None
               PROVE  q = r
    OBVIOUS
  <2>1. CASE q = s \/ r = s
    BY <1>1, <2>1
  <2>2. CASE q # s /\ r # s
    BY <1>1, <2>2 DEF Armed
  <2> QED
    BY <2>1, <2>2
<1>6. \A u \in Task : k[u] = "socket" <=> \E r \in Fd : armed'[r] = u
  <2> SUFFICES ASSUME NEW u \in Task PROVE k[u] = "socket" <=> \E r \in Fd : armed'[r] = u
    OBVIOUS
  <2>0. u # None
    BY TasksAssumption
  <2>1. CASE u = t
    BY <1>1, <2>1
  <2>2. CASE u # t
    <3>1. \A r \in Fd : armed'[r] = u <=> armed[r] = u /\ r # s
      BY <1>1, <2>0, <2>2
    <3>2. k[u] = "socket" => \E r \in Fd : armed[r] = u /\ r # s
      BY <2>2 DEF Armed
    <3>3. ASSUME NEW r \in Fd, armed[r] = u, r # s PROVE k[u] = "socket"
      <4>1. armed[s] # u
        BY <2>0, <3>3 DEF Armed
      <4> QED
        BY <2>2, <3>3, <4>1 DEF Armed
    <3> QED
      BY <3>1, <3>2, <3>3
  <2> QED
    BY <2>1, <2>2
<1> QED
  BY <1>1, <1>4, <1>5, <1>6 DEF Armed, ArmedSockets

\* ep_async_wait_step takes off those that are ready, ep_net_close one of them
\* without its source.
LEMMA SocketsShrink ==
    ASSUME NEW h, NEW k, Armed(h), NEW S \in SUBSET {s \in Fd : armed[s] # None},
           armed' = [s \in Fd |-> IF s \in S THEN None ELSE armed[s]],
           sources' \in {sources, sources - Cardinality(S)},
           \A u \in Task : k[u] = "socket" <=> h[u] = "socket" /\ \A s \in S : armed[s] # u
    PROVE  Armed(k)'
<1> DEFINE busy == {r \in Fd : armed[r] # None}
<1>1. /\ armed' \in [Fd -> Task \cup {None}]
      /\ \A r \in Fd : armed'[r] = IF r \in S THEN None ELSE armed[r]
  BY DEF Armed
<1>2. {r \in Fd : armed'[r] # None} = busy \ S
  BY <1>1
<1>3. IsFiniteSet(busy)
  <2>1. busy \in SUBSET Fd
    OBVIOUS
  <2> QED
    BY <2>1, TasksAssumption, FS_Subset
<1>4. sources' \in Nat /\ sources' >= Cardinality({r \in Fd : armed'[r] # None})
  <2>1. sources \in Nat /\ sources >= Cardinality(busy) /\ busy \cap S = S
    BY DEF Armed, ArmedSockets
  <2> HIDE DEF busy
  <2>2. Cardinality(busy \ S) = Cardinality(busy) - Cardinality(S)
    <3>1. Cardinality(busy \ S) = Cardinality(busy) - Cardinality(busy \cap S)
      BY <1>3, FS_Difference
    <3> QED
      BY <2>1, <3>1
  <2>3. IsFiniteSet(S) /\ IsFiniteSet(busy \ S)
    BY <1>3, <2>1, FS_Subset
  <2>4. PICK n \in Nat : n = Cardinality(busy)
    BY <1>3, FS_CardinalityType
  <2>5. PICK m \in Nat : m = Cardinality(S)
    BY <2>3, FS_CardinalityType
  <2>6. Cardinality(busy \ S) \in Nat
    BY <2>3, FS_CardinalityType
  <2>7. sources' \in Nat /\ sources' >= Cardinality(busy \ S)
    BY <2>1, <2>2, <2>4, <2>5, <2>6
  <2> QED
    BY <1>2, <2>7
<1>5. \A q, r \in Fd : armed'[q] = armed'[r] /\ armed'[q] # None => q = r
  BY <1>1 DEF Armed
<1>6. \A u \in Task : k[u] = "socket" <=> \E r \in Fd : armed'[r] = u
  <2> SUFFICES ASSUME NEW u \in Task PROVE k[u] = "socket" <=> \E r \in Fd : armed'[r] = u
    OBVIOUS
  <2>0. u # None
    BY TasksAssumption
  <2>1. ASSUME NEW r \in Fd, armed'[r] = u PROVE k[u] = "socket"
    <3>1. r \notin S /\ armed[r] = u
      BY <1>1, <2>0, <2>1
    <3>2. \A s \in S : armed[s] # u
      BY <2>0, <3>1 DEF Armed
    <3> QED
      BY <3>1, <3>2 DEF Armed
  <2>2. ASSUME k[u] = "socket" PROVE \E r \in Fd : armed'[r] = u
    <3>1. PICK r \in Fd : armed[r] = u
      BY <2>2 DEF Armed
    <3> QED
      BY <1>1, <2>2, <3>1
  <2> QED
    BY <2>1, <2>2
<1> QED
  BY <1>1, <1>4, <1>5, <1>6 DEF Armed, ArmedSockets

\* The frame at the top drives the scheduler, or goes on;
LEMMA StackTurns ==
    ASSUME NEW h, NEW k, Stacked(h), NEW d \in Drives, stack' = Drive(d),
           \A t \in Task : k[t] = "stack" <=> h[t] = "stack"
    PROVE  Stacked(k)'
<1> DEFINE n == Len(stack)
           r == [stack[n] EXCEPT !.drive = d]
<1>1. /\ stack \in Seq(FrameRecord) /\ n \in Nat \ {0} /\ DOMAIN stack = 1 .. n
      /\ stack[n] \in FrameRecord
  BY DEF Stacked
<1>2. r \in FrameRecord /\ r.by = stack[n].by
  BY <1>1 DEF FrameRecord
<1>3. stack' = [stack EXCEPT ![n] = r]
  BY DEF Drive
<1> HIDE DEF r
<1>4. /\ stack' \in Seq(FrameRecord) /\ DOMAIN stack' = DOMAIN stack
      /\ \A i \in DOMAIN stack : stack'[i] = IF i = n THEN r ELSE stack[i]
  BY <1>1, <1>2, <1>3
<1>5. \A i \in DOMAIN stack : stack'[i].by = stack[i].by
  BY <1>2, <1>4
<1>6. stack' # <<>> /\ stack'[1].by = Main
  BY <1>1, <1>4, <1>5 DEF Stacked
<1>7. \A i, j \in DOMAIN stack' : stack'[i].by = stack'[j].by => i = j
  BY <1>4, <1>5 DEF Stacked
<1>8. \A t \in Task : k[t] = "stack" <=> \E i \in DOMAIN stack' : stack'[i].by = t
  BY <1>4, <1>5 DEF Stacked
<1> QED
  BY <1>4, <1>6, <1>7, <1>8 DEF Stacked

\* a task is stepped on top of it,
LEMMA StackGrows ==
    ASSUME NEW h, NEW k, Stacked(h), NEW t \in Task, h[t] # "stack",
           stack' = Append(stack, [by |-> t, drive |-> NotDriving]), k[t] = "stack",
           \A u \in Task \ {t} : k[u] = "stack" <=> h[u] = "stack"
    PROVE  Stacked(k)'
<1> DEFINE n == Len(stack)
           r == [by |-> t, drive |-> NotDriving]
<1>1. /\ stack \in Seq(FrameRecord) /\ n \in Nat \ {0} /\ DOMAIN stack = 1 .. n
      /\ \A i \in 1 .. n : stack[i].by # t
  BY DEF Stacked
<1>2. r \in FrameRecord /\ r.by = t
  BY DEF FrameRecord, Drives
<1>3. stack' = Append(stack, r)
  OBVIOUS
<1> HIDE DEF r
<1>4. /\ stack' \in Seq(FrameRecord) /\ DOMAIN stack' = 1 .. n + 1
      /\ \A i \in 1 .. n : stack'[i] = stack[i]
      /\ stack'[n + 1] = r
  BY <1>1, <1>2, <1>3, AppendProperties, LenProperties
<1>5. stack' # <<>> /\ stack'[1].by = Main
  BY <1>1, <1>4 DEF Stacked
<1>6. \A i, j \in DOMAIN stack' : stack'[i].by = stack'[j].by => i = j
  <2> SUFFICES ASSUME NEW i \in 1 .. n + 1, NEW j \in 1 .. n + 1, stack'[i].by = stack'[j].by
               PROVE  i = j
    BY <1>4
  <2>1. (i \in 1 .. n \/ i = n + 1) /\ (j \in 1 .. n \/ j = n + 1)
    BY <1>1
  <2> QED
    BY <1>1, <1>2, <1>4, <2>1 DEF Stacked
<1>7. \A u \in Task : k[u] = "stack" <=> \E i \in DOMAIN stack' : stack'[i].by = u
  <2> SUFFICES ASSUME NEW u \in Task
               PROVE  k[u] = "stack" <=> \E i \in 1 .. n + 1 : stack'[i].by = u
    BY <1>4
  <2>1. (\E i \in 1 .. n + 1 : stack'[i].by = u) <=> u = t \/ \E i \in DOMAIN stack : stack[i].by = u
    BY <1>1, <1>2, <1>4
  <2> QED
    BY <2>1 DEF Stacked
<1> QED
  BY <1>4, <1>5, <1>6, <1>7 DEF Stacked

\* and leaves it.
LEMMA StackShrinks ==
    ASSUME NEW h, NEW k, Stacked(h), NEW t \in Task, Top.by = t,
           stack' = Front(stack), k[t] # "stack",
           \A u \in Task \ {t} : k[u] = "stack" <=> h[u] = "stack"
    PROVE  Stacked(k)'
<1> DEFINE n == Len(stack)
<1>1. /\ stack \in Seq(FrameRecord) /\ n \in Nat \ {0} /\ DOMAIN stack = 1 .. n
      /\ stack[n].by = t /\ stack[1].by = Main
      /\ \A i \in 1 .. n : stack[i] \in FrameRecord
  BY DEF Stacked, Top
<1>2. n # 1 /\ n - 1 \in Nat \ {0}
  BY <1>1, TasksAssumption
<1>3. /\ stack' \in Seq(FrameRecord) /\ DOMAIN stack' = 1 .. n - 1
      /\ \A i \in 1 .. n - 1 : stack'[i] = stack[i]
  <2> DEFINE q == SubSeq(stack, 1, n - 1)
  <2>1. /\ q \in Seq(FrameRecord) /\ Len(q) = n - 1
        /\ \A i \in 1 .. n - 1 : q[i] = stack[i]
    BY <1>1, <1>2
  <2> QED
    BY <2>1, LenProperties DEF Front
<1>4. stack' # <<>> /\ stack'[1].by = Main
  BY <1>1, <1>2, <1>3
<1>5. \A i, j \in DOMAIN stack' : stack'[i].by = stack'[j].by => i = j
  BY <1>1, <1>2, <1>3 DEF Stacked
<1>6. \A u \in Task : k[u] = "stack" <=> \E i \in DOMAIN stack' : stack'[i].by = u
  <2> SUFFICES ASSUME NEW u \in Task
               PROVE  k[u] = "stack" <=> \E i \in 1 .. n - 1 : stack[i].by = u
    BY <1>3
  <2>1. ASSUME NEW i \in 1 .. n - 1, stack[i].by = u PROVE k[u] = "stack"
    <3>0. i \in 1 .. n /\ i # n
      BY <1>2
    <3>1. i \in DOMAIN stack /\ i # n
      BY <1>1, <3>0
    <3>2. u # t /\ h[u] = "stack"
      BY <1>1, <2>1, <3>1 DEF Stacked
    <3> QED
      BY <3>2
  <2>2. ASSUME k[u] = "stack" PROVE \E i \in 1 .. n - 1 : stack[i].by = u
    <3>1. u # t /\ h[u] = "stack"
      BY <2>2
    <3>2. PICK i \in DOMAIN stack : stack[i].by = u
      BY <3>1 DEF Stacked
    <3>3. i # n /\ i \in 1 .. n
      BY <1>1, <3>1, <3>2
    <3> QED
      BY <1>1, <3>2, <3>3
  <2> QED
    BY <2>1, <2>2
<1> QED
  BY <1>3, <1>4, <1>5, <1>6 DEF Stacked

\* A future is made that nobody waits for,
LEMMA FuturesGrow ==
    ASSUME NEW h, NEW k, Awaited(h), NextFut \in Fut,
           NEW r \in FutRecord, r.waiter = None, fut' = Append(fut, r),
           \A u \in Task : k[u] = "future" <=> h[u] = "future"
    PROVE  Awaited(k)' /\ Made' = Made \cup {NextFut}
<1> DEFINE n == Len(fut)
<1>1. /\ fut \in Seq(FutRecord) /\ n \in Nat /\ Made = 1 .. n /\ n + 1 \in 1 .. MaxFut
      /\ MaxFut \in Nat
  BY TasksAssumption DEF Awaited, Made, NextFut, Fut
<1>2. /\ fut' \in Seq(FutRecord) /\ Len(fut') = n + 1 /\ Made' = 1 .. n + 1
      /\ \A i \in 1 .. n : fut'[i] = fut[i]
      /\ fut'[n + 1] = r
  BY <1>1, AppendProperties, LenProperties DEF Made
<1>3. Made' = Made \cup {NextFut}
  BY <1>1, <1>2 DEF NextFut
<1>4. Len(fut') <= MaxFut
  BY <1>1, <1>2
<1>5. \A f \in Made' : fut'[f].waiter # None => f \in Made /\ fut'[f] = fut[f]
  BY <1>1, <1>2
<1>6. \A f, g \in Made' : fut'[f].waiter = fut'[g].waiter /\ fut'[f].waiter # None => f = g
  <2> SUFFICES ASSUME NEW f \in Made', NEW g \in Made', fut'[f].waiter = fut'[g].waiter,
                      fut'[f].waiter # None
               PROVE  f = g
    OBVIOUS
  <2>1. f \in Made /\ g \in Made /\ fut'[f] = fut[f] /\ fut'[g] = fut[g]
    BY <1>5
  <2> QED
    BY <2>1 DEF Awaited
<1>7. \A u \in Task : k[u] = "future" <=> \E f \in Made' : fut'[f].waiter = u
  <2> SUFFICES ASSUME NEW u \in Task PROVE h[u] = "future" <=> \E f \in Made' : fut'[f].waiter = u
    OBVIOUS
  <2>1. u # None
    BY TasksAssumption
  <2>2. ASSUME NEW f \in Made', fut'[f].waiter = u PROVE h[u] = "future"
    BY <1>5, <2>1, <2>2 DEF Awaited
  <2>3. ASSUME h[u] = "future" PROVE \E f \in Made' : fut'[f].waiter = u
    <3>1. PICK f \in Made : fut[f].waiter = u
      BY <2>3 DEF Awaited
    <3> QED
      BY <1>1, <1>2, <3>1
  <2> QED
    BY <2>2, <2>3
<1> QED
  BY <1>2, <1>3, <1>4, <1>6, <1>7 DEF Awaited

\* and one future gets a waiter, or none.
LEMMA WaiterChanges ==
    ASSUME NEW h, NEW k, Awaited(h), NEW f \in Made,
           NEW r \in FutRecord, fut' = [fut EXCEPT ![f] = r],
           r.waiter = None \/ h[r.waiter] # "future",
           \A u \in Task : k[u] = "future" <=>
               u = r.waiter \/ (h[u] = "future" /\ u # fut[f].waiter)
    PROVE  Awaited(k)'
<1>1. fut \in Seq(FutRecord) /\ Made = 1 .. Len(fut) /\ f \in 1 .. Len(fut)
  BY DEF Awaited, Made
<1>2. /\ fut' \in Seq(FutRecord) /\ Len(fut') = Len(fut) /\ Made' = Made
      /\ \A g \in Made : fut'[g] = IF g = f THEN r ELSE fut[g]
  <2> DEFINE q == [fut EXCEPT ![f] = r]
  <2>1. /\ q \in Seq(FutRecord) /\ Len(q) = Len(fut)
        /\ \A g \in 1 .. Len(fut) : q[g] = IF g = f THEN r ELSE fut[g]
    BY <1>1, ExceptSeq
  <2>2. DOMAIN q = DOMAIN fut
    OBVIOUS
  <2> QED
    BY <1>1, <2>1, <2>2 DEF Made
<1>3. \A g \in Made : fut[g].waiter \in Task \cup {None}
  <2>1. \A x \in FutRecord : x.waiter \in Task \cup {None}
    BY DEF FutRecord
  <2> QED
    BY <1>1, <2>1
<1>4. r.waiter # None => r.waiter \in Task /\ \A g \in Made : fut[g].waiter # r.waiter
  <2>1. r.waiter \in Task \cup {None}
    BY DEF FutRecord
  <2> QED
    BY <2>1 DEF Awaited
<1>5. \A g1, g2 \in Made : fut'[g1].waiter = fut'[g2].waiter /\ fut'[g1].waiter # None => g1 = g2
  <2> SUFFICES ASSUME NEW g1 \in Made, NEW g2 \in Made, fut'[g1].waiter = fut'[g2].waiter,
                      fut'[g1].waiter # None
               PROVE  g1 = g2
    OBVIOUS
  <2>1. CASE g1 = f \/ g2 = f
    BY <1>2, <1>4, <2>1
  <2>2. CASE g1 # f /\ g2 # f
    BY <1>2, <2>2 DEF Awaited
  <2> QED
    BY <2>1, <2>2
<1>6. \A u \in Task : k[u] = "future" <=> \E g \in Made : fut'[g].waiter = u
  <2> SUFFICES ASSUME NEW u \in Task
               PROVE  u = r.waiter \/ (h[u] = "future" /\ u # fut[f].waiter) <=>
                          \E g \in Made : fut'[g].waiter = u
    OBVIOUS
  <2>0. u # None
    BY TasksAssumption
  <2>1. ASSUME NEW g \in Made, fut'[g].waiter = u
        PROVE  u = r.waiter \/ (h[u] = "future" /\ u # fut[f].waiter)
    <3>1. CASE g = f
      BY <1>2, <2>1, <3>1
    <3>2. CASE g # f
      <4>1. fut[g].waiter = u /\ fut[f].waiter # u
        BY <1>2, <2>0, <2>1, <3>2 DEF Awaited
      <4> QED
        BY <4>1 DEF Awaited
    <3> QED
      BY <3>1, <3>2
  <2>2. ASSUME u = r.waiter PROVE \E g \in Made : fut'[g].waiter = u
    BY <1>2, <2>2
  <2>3. ASSUME h[u] = "future", u # fut[f].waiter PROVE \E g \in Made : fut'[g].waiter = u
    <3>1. PICK g \in Made : fut[g].waiter = u
      BY <2>3 DEF Awaited
    <3> QED
      BY <1>2, <2>3, <3>1
  <2> QED
    BY <2>1, <2>2, <2>3
<1> QED
  BY <1>1, <1>2, <1>5, <1>6 DEF Awaited

-----------------------------------------------------------------------------
(* What a step does to the homes of the tasks. *)

\* A task is homeless only at the end, or when its place is taken.
Kept(h, k) ==
    \A t \in Task : h[t] # "none" /\ task'[t] # None /\ k[t] = "none" => PlaceTaken(t)

Moves(h) == \E k \in [Task -> Homes] : Settled(k)' /\ Kept(h, k)

LEMMA AliveStays ==
    ASSUME NEW h, NEW k \in [Task -> Homes], Alive(h), Made \subseteq Made',
           task' \in [Task -> TaskRecord \cup {None}],
           \A t \in Task : k[t] # "none" => task'[t] # None,
           \A t \in Task : task'[t] # None =>
               \/ Fits(task'[t], Made')
               \/ /\ task[t] # None /\ task'[t].kind = task[t].kind
                  /\ task'[t].fut = task[t].fut /\ task'[t].target = task[t].target
    PROVE  Alive(k)'
<1>1. ASSUME NEW t \in Task, task'[t] # None PROVE Fits(task'[t], Made')
  <2>1. CASE /\ task[t] # None /\ task'[t].kind = task[t].kind
             /\ task'[t].fut = task[t].fut /\ task'[t].target = task[t].target
    BY <2>1 DEF Alive, Fits
  <2> QED
    BY <1>1, <2>1
<1> QED
  BY <1>1 DEF Alive

LEMMA AliveTyped ==
    ASSUME NEW h, Alive(h), NEW t \in Task, task[t] # None
    PROVE  task[t] \in TaskRecord /\ Fits(task[t], Made)
BY DEF Alive

\* A free address is nobody's home.
LEMMA FreeIsHomeless ==
    ASSUME NEW h, Alive(h), NEW t \in Task, task[t] = None
    PROVE  h[t] = "none"
BY DEF Alive

\* A task that runs or drives is on the stack, and there.
LEMMA TopIsOnStack ==
    ASSUME NEW h, Stacked(h), Alive(h), NEW t \in Task, Top.by = t
    PROVE  h[t] = "stack" /\ task[t] \in TaskRecord /\ task[t] # None /\ Fits(task[t], Made)
<1>1. Len(stack) \in DOMAIN stack
  BY DEF Stacked
<1> QED
  BY <1>1 DEF Stacked, Alive, Top

LEMMA NewTaskTyped ==
    ASSUME NEW kind \in {"body", "alarm", "ready", "guard"}, NEW own \in 0 .. MaxFut,
           NEW target \in 0 .. MaxFut, NEW parent \in Task \cup {None}
    PROVE  /\ NewTask(kind, own, target, parent) \in TaskRecord
           /\ NewTask(kind, own, target, parent) # None
           /\ NewTask(kind, own, target, parent).kind = kind
           /\ NewTask(kind, own, target, parent).fut = own
           /\ NewTask(kind, own, target, parent).target = target
<1>1. NewTask(kind, own, target, parent) \in TaskRecord
  BY DEF NewTask, TaskRecord
<1> QED
  BY <1>1, NoneAssumption DEF NewTask

LEMMA NewFutTyped ==
    /\ NewFut \in FutRecord /\ NewFut.waiter = None
    /\ [NewFut EXCEPT !.done = TRUE] \in FutRecord
    /\ [NewFut EXCEPT !.done = TRUE].waiter = None
BY DEF NewFut, FutRecord, Values, Failed

LEMMA NextFutTyped ==
    ASSUME NextFut \in Fut
    PROVE  NextFut \in 0 .. MaxFut /\ 0 \in 0 .. MaxFut
BY TasksAssumption DEF NextFut, Fut

\* A task that was free is registered in its new home.
LEMMA AliveGrows ==
    ASSUME NEW h, Alive(h), Made \subseteq Made', NEW t \in Task, NEW r \in TaskRecord, r # None,
           Fits(r, Made'), task' = [task EXCEPT ![t] = r], NEW home \in Homes
    PROVE  Alive([h EXCEPT ![t] = home])'
<1> DEFINE k == [h EXCEPT ![t] = home]
<1>1. k \in [Task -> Homes] /\ \A u \in Task : k[u] = IF u = t THEN home ELSE h[u]
  BY DEF Alive
<1>2. /\ task' \in [Task -> TaskRecord \cup {None}]
      /\ \A u \in Task : task'[u] = IF u = t THEN r ELSE task[u]
  BY DEF Alive
<1> HIDE DEF k
<1>3. \A u \in Task : k[u] # "none" => task'[u] # None
  BY <1>1, <1>2 DEF Alive
<1>4. \A u \in Task : task'[u] # None =>
               \/ Fits(task'[u], Made')
               \/ /\ task[u] # None /\ task'[u].kind = task[u].kind
                  /\ task'[u].fut = task[u].fut /\ task'[u].target = task[u].target
  BY <1>2
<1>5. Alive(k)'
  BY <1>1, <1>2, <1>3, <1>4, AliveStays
<1> QED
  BY <1>5 DEF k

-----------------------------------------------------------------------------
(* What a running function calls. *)

LEMMA CallMoves ==
    ASSUME NEW h \in [Task -> Homes], Settled(h), NEW w \in Task \cup {Main}, NEW t \in Task,
           Call(w, t)
    PROVE  Moves(h)
<1> DEFINE k == [h EXCEPT ![t] = "queue"]
           r == NewTask("body", NextFut, NoFut, AsParent(w))
<1>1. h[t] = "none"
  BY FreeIsHomeless DEF Settled, Call
<1>2. k \in [Task -> Homes] /\ \A u \in Task : k[u] = IF u = t THEN "queue" ELSE h[u]
  BY DEF Homes
<1>3. r \in TaskRecord /\ r # None /\ r.kind = "body" /\ r.fut = NextFut
  <2>1. AsParent(w) \in Task \cup {None}
    BY DEF AsParent
  <2> QED
    BY <2>1, NextFutTyped, NewTaskTyped DEF Call, NoFut
<1>4. Awaited(k)' /\ Made' = Made \cup {NextFut}
  BY <1>1, <1>2, NewFutTyped, FuturesGrow DEF Settled, Call
<1>5. Fits(r, Made')
  BY <1>3, <1>4 DEF Fits
<1>6. Alive(k)'
  BY <1>3, <1>4, <1>5, AliveGrows DEF Settled, Call, Homes
<1> HIDE DEF k, r
<1>7. Queued(k)'
  BY <1>1, <1>2, QueueGrows DEF Settled, Call
<1>8. Timed(k)' /\ Armed(k)' /\ Stacked(k)'
  BY <1>1, <1>2, TimersStay, SocketsStay, StackStays DEF Settled, Call
<1>9. Kept(h, k)
  BY <1>2 DEF Kept
<1> QED
  BY <1>2, <1>4, <1>6, <1>7, <1>8, <1>9 DEF Moves, Settled

LEMMA SleepMoves ==
    ASSUME NEW h \in [Task -> Homes], Settled(h), NEW w \in Task \cup {Main}, NEW t \in Task,
           NEW ms \in Delays, Bounded, Sleep(w, t, ms)
    PROVE  Moves(h)
<1>1. CASE w = Main
  <2>1. Awaited(h)' /\ Made' = Made \cup {NextFut}
    BY <1>1, NewFutTyped, FuturesGrow DEF Settled, Sleep
  <2>2. Alive(h)'
    BY <1>1, <2>1 DEF Settled, Sleep, Alive, Fits
  <2>3. Queued(h)' /\ Timed(h)' /\ Armed(h)' /\ Stacked(h)'
    BY <1>1, QueueStays, TimersStay, SocketsStay, StackStays DEF Settled, Sleep
  <2> QED
    BY <2>1, <2>2, <2>3 DEF Moves, Settled, Kept
<1>2. CASE w # Main
  <2> DEFINE k == [h EXCEPT ![t] = "timer"]
             r == NewTask("alarm", NoFut, NextFut, w)
  <2>1. h[t] = "none"
    BY <1>2, FreeIsHomeless DEF Settled, Sleep
  <2>2. k \in [Task -> Homes] /\ \A u \in Task : k[u] = IF u = t THEN "timer" ELSE h[u]
    BY DEF Homes
  <2>3. /\ r \in TaskRecord /\ r # None /\ r.kind = "alarm" /\ r.fut = NoFut
        /\ r.target = NextFut
    BY <1>2, NextFutTyped, NewTaskTyped DEF Sleep, NoFut
  <2>4. Awaited(k)' /\ Made' = Made \cup {NextFut}
    BY <1>2, <2>1, <2>2, NewFutTyped, FuturesGrow DEF Settled, Sleep
  <2>5. Fits(r, Made')
    BY <2>3, <2>4 DEF Fits
  <2>6. Alive(k)'
    BY <1>2, <2>3, <2>4, <2>5, AliveGrows DEF Settled, Sleep, Homes
  <2> HIDE DEF k, r
  <2>7. Timed(k)'
    <3>1. now + ms \in 0 .. MaxTime /\ timers' = WithTimer(now + ms, t)
      BY <1>2, TasksAssumption DEF Bounded, Sleep
    <3> QED
      BY <2>1, <2>2, <3>1, TimersGrow DEF Settled
  <2>8. Queued(k)' /\ Armed(k)' /\ Stacked(k)'
    BY <2>1, <2>2, QueueStays, SocketsStay, StackStays DEF Settled, Sleep
  <2>9. Kept(h, k)
    BY <2>2 DEF Kept
  <2> QED
    BY <2>2, <2>4, <2>6, <2>7, <2>8, <2>9 DEF Moves, Settled
<1> QED
  BY <1>1, <1>2

LEMMA WaitReadableMoves ==
    ASSUME NEW h \in [Task -> Homes], Settled(h), NEW w \in Task \cup {Main}, NEW t \in Task,
           NEW s \in Fd, WaitReadable(w, t, s)
    PROVE  Moves(h)
<1> DEFINE r == NewTask("ready", NoFut, NextFut, AsParent(w))
<1>1. h[t] = "none"
  BY FreeIsHomeless DEF Settled, WaitReadable
<1>2. PICK k \in [Task -> Homes] :
         \A u \in Task : k[u] = IF u = t THEN "socket" ELSE IF u = armed[s] THEN "none" ELSE h[u]
  <2> DEFINE home == [u \in Task |-> IF u = t THEN "socket"
                                     ELSE IF u = armed[s] THEN "none" ELSE h[u]]
  <2>1. home \in [Task -> Homes]
    BY DEF Homes
  <2> QED
    BY <2>1
<1>3. r \in TaskRecord /\ r # None /\ r.kind = "ready" /\ r.fut = NoFut /\ r.target = NextFut
  <2>1. AsParent(w) \in Task \cup {None}
    BY DEF AsParent
  <2> QED
    BY <2>1, NextFutTyped, NewTaskTyped DEF WaitReadable, NoFut
<1>4. \A u \in Task : u = armed[s] => h[u] = "socket"
  BY DEF Settled, Armed
<1>5. Awaited(k)' /\ Made' = Made \cup {NextFut}
  <2>1. \A u \in Task : k[u] = "future" <=> h[u] = "future"
    BY <1>1, <1>2, <1>4
  <2> QED
    BY <2>1, NewFutTyped, FuturesGrow DEF Settled, WaitReadable
<1>6. Alive(k)'
  <2>1. Fits(r, Made')
    BY <1>3, <1>5 DEF Fits
  <2>2. Alive([h EXCEPT ![t] = "socket"])'
    BY <1>3, <1>5, <2>1, AliveGrows DEF Settled, WaitReadable, Homes
  <2>3. \A u \in Task : k[u] # "none" => [h EXCEPT ![t] = "socket"][u] # "none"
    BY <1>2
  <2> QED
    BY <1>2, <2>2, <2>3 DEF Alive
<1> HIDE DEF r
<1>7. Armed(k)'
  <2>1. /\ Armed(h) /\ h[t] # "socket"
        /\ armed' = [armed EXCEPT ![s] = t] /\ sources' = sources + 1
    BY <1>1 DEF Settled, WaitReadable
  <2>2. PICK before : before = armed[s]
    OBVIOUS
  <2>3. /\ k[t] = "socket" /\ armed[s] = before
        /\ \A u \in Task \ {t} : k[u] = "socket" <=> h[u] = "socket" /\ u # before
    BY <1>2, <2>2
  <2>4. PICK q : armed' = q /\ q = [armed EXCEPT ![s] = t]
    BY <2>1
  <2> QED
    BY <2>1, <2>3, <2>4, SocketsGrow
<1>8. Queued(k)' /\ Timed(k)' /\ Stacked(k)'
  <2>1. \A u \in Task : \A p \in {"queue", "timer", "stack"} : k[u] = p <=> h[u] = p
    BY <1>1, <1>2, <1>4
  <2> QED
    BY <2>1, QueueStays, TimersStay, StackStays DEF Settled, WaitReadable
<1>9. Kept(h, k)
  <2> SUFFICES ASSUME NEW u \in Task, h[u] # "none", k[u] = "none" PROVE PlaceTaken(u)
    BY DEF Kept
  <2>1. armed[s] = u /\ armed'[s] = t /\ u # t /\ t # None
    BY <1>2, TasksAssumption DEF Settled, Armed, WaitReadable
  <2>2. \E q \in Fd : armed[q] = u /\ armed'[q] \notin {u, None}
    BY <2>1
  <2> QED
    BY <2>2 DEF PlaceTaken
<1> QED
  BY <1>2, <1>5, <1>6, <1>7, <1>8, <1>9 DEF Moves, Settled

\* Whoever waits for a socket that is closed has no home any more.
LEMMA CloseMoves ==
    ASSUME NEW h \in [Task -> Homes], Settled(h), NEW w \in Task \cup {Main}, NEW s \in Fd,
           Close(w, s)
    PROVE  Moves(h)
<1>1. PICK k \in [Task -> Homes] : \A u \in Task : k[u] = IF u = armed[s] THEN "none" ELSE h[u]
  <2> DEFINE home == [u \in Task |-> IF u = armed[s] THEN "none" ELSE h[u]]
  <2>1. home \in [Task -> Homes]
    BY DEF Homes
  <2> QED
    BY <2>1
<1>2. \A u \in Task : u = armed[s] => h[u] = "socket"
  BY DEF Settled, Armed
<1>3. \A u \in Task : \A p \in {"queue", "timer", "stack", "future"} : k[u] = p <=> h[u] = p
  BY <1>1, <1>2
<1>4. Queued(k)' /\ Timed(k)' /\ Stacked(k)'
  BY <1>3, QueueStays, TimersStay, StackStays DEF Settled, Close
<1>5. Made' = Made /\ fut' = fut /\ fut' \in Seq(FutRecord)
  BY DEF Close, Made, Settled, Awaited
<1>6. Awaited(k)'
  BY <1>3, <1>5, WaitersStay DEF Settled
<1>7. Alive(k)'
  BY <1>1, <1>5 DEF Settled, Alive, Close
<1>8. Armed(k)'
  <2>1. {s} \in SUBSET {q \in Fd : armed[q] # None}
    BY DEF Close
  <2>2. armed' = [q \in Fd |-> IF q \in {s} THEN None ELSE armed[q]]
    BY DEF Close, Settled, Armed
  <2>3. \A u \in Task : k[u] = "socket" <=> h[u] = "socket" /\ \A q \in {s} : armed[q] # u
    BY <1>1
  <2>4. sources' \in {sources, sources - Cardinality({s})}
    BY DEF Close
  <2> QED
    BY <2>1, <2>2, <2>3, <2>4, SocketsShrink DEF Settled
<1>9. Kept(h, k)
  BY <1>1 DEF Kept, PlaceTaken
<1> QED
  BY <1>1, <1>4, <1>6, <1>7, <1>8, <1>9 DEF Moves, Settled

LEMMA TimeoutMoves ==
    ASSUME NEW h \in [Task -> Homes], Settled(h), NEW w \in Task \cup {Main}, NEW t \in Task,
           NEW f \in Made, NEW ms \in Delays, Bounded, Timeout(w, t, f, ms)
    PROVE  Moves(h)
<1> DEFINE k == [h EXCEPT ![t] = "timer"]
           r == NewTask("guard", NoFut, f, None)
<1>1. h[t] = "none"
  BY FreeIsHomeless DEF Settled, Timeout
<1>2. k \in [Task -> Homes] /\ \A u \in Task : k[u] = IF u = t THEN "timer" ELSE h[u]
  BY DEF Homes
<1>3. f \in Fut /\ f \in 0 .. MaxFut
  BY TasksAssumption DEF Settled, Awaited, Made, Fut
<1>4. r \in TaskRecord /\ r # None /\ r.kind = "guard" /\ r.fut = NoFut /\ r.target = f
  <2>1. 0 \in 0 .. MaxFut
    BY TasksAssumption
  <2> QED
    BY <1>3, <2>1, NewTaskTyped DEF NoFut
<1>5. Made' = Made
  BY DEF Timeout, Made
<1>6. Fits(r, Made')
  BY <1>4, <1>5 DEF Fits
<1>7. Alive(k)'
  BY <1>4, <1>5, <1>6, AliveGrows DEF Settled, Timeout, Homes
<1> HIDE DEF k, r
<1>8. Timed(k)'
  <2>1. now + ms \in 0 .. MaxTime /\ timers' = WithTimer(now + ms, t)
    BY TasksAssumption DEF Bounded, Timeout
  <2> QED
    BY <1>1, <1>2, <2>1, TimersGrow DEF Settled
<1>9. Stacked(k)'
  <2>1. <<"timeout", f>> \in Drives /\ stack' = Drive(<<"timeout", f>>)
    BY <1>3 DEF Drives, Timeout
  <2> QED
    BY <1>1, <1>2, <2>1, StackTurns DEF Settled
<1>10. Awaited(k)'
  <2>1. fut' = fut
    BY DEF Timeout
  <2>2. fut' \in Seq(FutRecord)
    BY <2>1 DEF Settled, Awaited
  <2> QED
    BY <1>1, <1>2, <1>5, <2>1, <2>2, WaitersStay DEF Settled
<1>11. Queued(k)' /\ Armed(k)'
  BY <1>1, <1>2, QueueStays, SocketsStay DEF Settled, Timeout
<1>12. Kept(h, k)
  BY <1>2 DEF Kept
<1> QED
  BY <1>2, <1>7, <1>8, <1>9, <1>10, <1>11, <1>12 DEF Moves, Settled

\* A task that awaits leaves the stack for its future, and whoever waited
\* there before has no home any more.
LEMMA SuspendMoves ==
    ASSUME NEW h \in [Task -> Homes], Settled(h), NEW t \in Task, NEW f \in Made, Suspend(t, f)
    PROVE  Moves(h)
<1> DEFINE r == [fut[f] EXCEPT !.waiter = t]
<1>1. Top.by = t
  BY DEF Suspend, Runs
<1>2. h[t] = "stack"
  BY <1>1, TopIsOnStack DEF Settled
<1>3. PICK k \in [Task -> Homes] :
         \A u \in Task : k[u] = IF u = t THEN "future" ELSE IF u = fut[f].waiter THEN "none" ELSE h[u]
  <2> DEFINE home == [u \in Task |-> IF u = t THEN "future"
                                     ELSE IF u = fut[f].waiter THEN "none" ELSE h[u]]
  <2>1. home \in [Task -> Homes]
    BY DEF Homes
  <2> QED
    BY <2>1
<1>4. \A u \in Task : k[u] = IF u = t THEN "future" ELSE IF u = fut[f].waiter THEN "none" ELSE h[u]
  BY <1>3
<1>5. \A u \in Task : u = fut[f].waiter => h[u] = "future"
  BY DEF Settled, Awaited
<1>6. r \in FutRecord /\ r.waiter = t /\ fut' = [fut EXCEPT ![f] = r]
  <2>1. fut[f] \in FutRecord
    BY DEF Settled, Awaited, Made
  <2>2. r \in FutRecord /\ r.waiter = t
    BY <2>1 DEF FutRecord
  <2> QED
    BY <2>2 DEF Suspend
<1> HIDE DEF r
<1>7. Awaited(k)' /\ Made' = Made
  <2>1. PICK x \in FutRecord : x = r
    BY <1>6
  <2>2. \A u \in Task : k[u] = "future" <=> u = x.waiter \/ (h[u] = "future" /\ u # fut[f].waiter)
    BY <1>2, <1>4, <1>6, <2>1
  <2>3. Awaited(h) /\ h[x.waiter] # "future" /\ fut' = [fut EXCEPT ![f] = x]
    BY <1>2, <1>6, <2>1 DEF Settled
  <2>4. Awaited(k)'
    BY <2>2, <2>3, WaiterChanges
  <2>5. Made' = Made
    BY <2>3 DEF Made
  <2> QED
    BY <2>4, <2>5
<1>8. Alive(k)'
  <2>1. task' = task
    BY DEF Suspend
  <2> QED
    BY <1>2, <1>3, <1>4, <1>7, <2>1 DEF Settled, Alive
<1>9. Stacked(k)'
  <2>1. \A u \in Task \ {t} : k[u] = "stack" <=> h[u] = "stack"
    BY <1>4, <1>5
  <2> QED
    BY <1>1, <1>4, <2>1, StackShrinks DEF Settled, Suspend
<1>10. Queued(k)' /\ Timed(k)' /\ Armed(k)'
  <2>1. \A u \in Task : \A p \in {"queue", "timer", "socket"} : k[u] = p <=> h[u] = p
    BY <1>2, <1>4, <1>5
  <2> QED
    BY <2>1, QueueStays, TimersStay, SocketsStay DEF Settled, Suspend
<1>11. Kept(h, k)
  <2> SUFFICES ASSUME NEW u \in Task, h[u] # "none", k[u] = "none"
               PROVE  fut[f].waiter = u /\ fut'[f].waiter \notin {u, None}
    BY DEF Kept, PlaceTaken
  <2>1. u # t /\ u = fut[f].waiter
    BY <1>4
  <2>2. fut'[f].waiter = t
    BY <1>6 DEF Settled, Awaited, Made
  <2> QED
    BY <2>1, <2>2, TasksAssumption
<1> QED
  BY <1>3, <1>7, <1>8, <1>9, <1>10, <1>11 DEF Moves, Settled

\* Records change at most in their parents and in whether they are cancelled;
\* futures are completed or not, and whoever waits there still does.
LEMMA RecordsMove ==
    ASSUME NEW h \in [Task -> Homes], Settled(h),
           UNCHANGED <<queue, timers, armed, sources, stack>>,
           task' \in [Task -> TaskRecord \cup {None}],
           \A t \in Task : task'[t] # None <=> task[t] # None,
           \A t \in Task : task[t] # None =>
               /\ task'[t].kind = task[t].kind
               /\ task'[t].fut = task[t].fut /\ task'[t].target = task[t].target,
           fut' \in Seq(FutRecord), Made' = Made,
           \A f \in Made : fut'[f].waiter = fut[f].waiter
    PROVE  Moves(h)
<1>1. Queued(h)' /\ Timed(h)' /\ Armed(h)' /\ Stacked(h)'
  BY QueueStays, TimersStay, SocketsStay, StackStays DEF Settled
<1>2. Awaited(h)'
  BY WaitersStay DEF Settled
<1>3. Alive(h)'
  <2>1. \A t \in Task : h[t] # "none" => task'[t] # None
    BY DEF Settled, Alive
  <2>2. \A t \in Task : task'[t] # None =>
               \/ Fits(task'[t], Made')
               \/ /\ task[t] # None /\ task'[t].kind = task[t].kind
                  /\ task'[t].fut = task[t].fut /\ task'[t].target = task[t].target
    OBVIOUS
  <2> QED
    BY <2>1, <2>2, AliveStays DEF Settled
<1> QED
  BY <1>1, <1>2, <1>3 DEF Moves, Settled, Kept

LEMMA StillMoves ==
    ASSUME NEW h \in [Task -> Homes], Settled(h),
           UNCHANGED <<task, fut, queue, timers, armed, sources, stack>>
    PROVE  Moves(h)
<1>1. Made' = Made /\ fut' \in Seq(FutRecord) /\ task' \in [Task -> TaskRecord \cup {None}]
  BY DEF Made, Settled, Awaited, Alive
<1> QED
  BY <1>1, RecordsMove

\* Whoever is at the top drives the scheduler, or runs again.
LEMMA TurnMoves ==
    ASSUME NEW h \in [Task -> Homes], Settled(h), NEW d \in Drives, stack' = Drive(d),
           UNCHANGED <<task, fut, queue, timers, armed, sources>>
    PROVE  Moves(h)
<1>1. Queued(h)' /\ Timed(h)' /\ Armed(h)' /\ Stacked(h)'
  BY QueueStays, TimersStay, SocketsStay, StackTurns DEF Settled
<1>2. Made' = Made
  BY DEF Made
<1>3. Awaited(h)'
  <2>1. fut' \in Seq(FutRecord)
    BY DEF Settled, Awaited
  <2> QED
    BY <1>2, <2>1, WaitersStay DEF Settled
<1>4. Alive(h)'
  BY <1>2 DEF Settled, Alive
<1> QED
  BY <1>1, <1>3, <1>4 DEF Moves, Settled, Kept

LEMMA AwaitMoves ==
    ASSUME NEW h \in [Task -> Homes], Settled(h), NEW w \in Task \cup {Main}, NEW f \in Made,
           Await(w, f)
    PROVE  Moves(h)
<1>1. f \in Fut
  BY TasksAssumption DEF Settled, Awaited, Made, Fut
<1>2. <<"await", f>> \in Drives
  BY <1>1 DEF Drives
<1> QED
  BY <1>2, TurnMoves DEF Await

LEMMA WaitGroupMoves ==
    ASSUME NEW h \in [Task -> Homes], Settled(h), NEW w \in Task \cup {Main}, WaitGroup(w)
    PROVE  Moves(h)
<1>1. <<"group">> \in Drives
  BY DEF Drives
<1> QED
  BY <1>1, TurnMoves DEF WaitGroup

LEMMA DriveEndsMoves ==
    ASSUME NEW h \in [Task -> Homes], Settled(h), DriveEnds
    PROVE  Moves(h)
<1>1. NotDriving \in Drives
  BY DEF Drives
<1> QED
  BY <1>1, TurnMoves DEF DriveEnds

\* Nothing is left of a process that has ended.
LEMMA ExitMoves ==
    ASSUME NEW h \in [Task -> Homes], Exit
    PROVE  Moves(h)
<1> DEFINE k == [t \in Task |-> "none"]
<1>1. k \in [Task -> Homes] /\ \A t \in Task : k[t] = "none"
  BY DEF Homes
<1> HIDE DEF k
<1>2. Queued(k)' /\ Timed(k)'
  BY <1>1 DEF Queued, Timed, Exit
<1>3. Armed(k)'
  <2>1. armed' = [s \in Fd |-> None] /\ sources' = 0
    BY DEF Exit, NoneArmed
  <2>2. {s \in Fd : armed'[s] # None} = {}
    BY <2>1
  <2>3. sources' \in Nat /\ sources' >= Cardinality({s \in Fd : armed'[s] # None})
    BY <2>1, <2>2, FS_EmptySet
  <2> QED
    BY <1>1, <2>1, <2>3, TasksAssumption DEF Armed, ArmedSockets
<1>4. Stacked(k)'
  <2>1. stack' = <<[by |-> Main, drive |-> NotDriving]>>
    BY DEF Exit, Bottom
  <2>2. [by |-> Main, drive |-> NotDriving] \in FrameRecord
    BY DEF FrameRecord, Drives
  <2>3. /\ stack' \in Seq(FrameRecord) /\ DOMAIN stack' = {1}
        /\ stack' # <<>> /\ stack'[1].by = Main
    BY <2>1, <2>2
  <2> QED
    BY <1>1, <2>3, TasksAssumption DEF Stacked
<1>5. Awaited(k)'
  BY <1>1, TasksAssumption DEF Awaited, Made, Exit
<1>6. Alive(k)'
  BY <1>1 DEF Alive, Exit, NoTasks
<1>7. Kept(h, k)
  BY DEF Kept, Exit, NoTasks
<1> QED
  BY <1>1, <1>2, <1>3, <1>4, <1>5, <1>6, <1>7 DEF Moves, Settled

LEMMA StuckMoves ==
    ASSUME NEW h \in [Task -> Homes], Settled(h), Stuck
    PROVE  Moves(h)
<1>1. NotDriving \in Drives
  BY DEF Drives
<1> QED
  BY <1>1, TurnMoves, ExitMoves DEF Stuck

\* Who waits in the run queue or for a timer is there, and not running.
LEMMA WaitingAreAlive ==
    ASSUME NEW h, Settled(h), NEW t \in Range(queue) \cup TimerTasks
    PROVE  t \in Task /\ h[t] \in {"queue", "timer"} /\ task[t] # None
<1>1. CASE t \in Range(queue)
  <2>1. PICK i \in DOMAIN queue : queue[i] = t
    BY <1>1 DEF Range
  <2>2. t \in Task
    BY <2>1 DEF Settled, Queued
  <2> QED
    BY <2>1, <2>2 DEF Settled, Queued, Alive
<1>2. CASE t \in TimerTasks
  <2>1. PICK i \in DOMAIN timers : timers[i].task = t
    BY <1>2 DEF TimerTasks
  <2>2. timers[i] \in TimerRecord
    BY DEF Settled, Timed
  <2>3. t \in Task
    BY <2>1, <2>2 DEF TimerRecord
  <2> QED
    BY <2>1, <2>3 DEF Settled, Timed, Alive
<1> QED
  BY <1>1, <1>2

\* ep_cancel_task comes to nobody else.
LEMMA FallenWait ==
    ASSUME NEW h, Settled(h), NEW S \in SUBSET (Range(queue) \cup TimerTasks)
    PROVE  Fallen(S) \subseteq Range(queue) \cup TimerTasks
<1> DEFINE near == Range(queue) \cup TimerTasks
<1>1. near \in SUBSET Task
  BY WaitingAreAlive
<1> QED
  BY <1>1 DEF Fallen

LEMMA AddToGroupMoves ==
    ASSUME NEW h \in [Task -> Homes], Settled(h), NEW w \in Task \cup {Main}, NEW f \in Made,
           AddToGroup(w, f)
    PROVE  Moves(h)
<1>1. Found(f) \subseteq {t \in Task : task[t] # None}
  BY WaitingAreAlive DEF Found
<1>2. AsParent(w) \in Task \cup {None}
  BY DEF AsParent
<1>3. ASSUME NEW t \in Task, task[t] # None
      PROVE  /\ [task[t] EXCEPT !.parent = AsParent(w)] \in TaskRecord
             /\ [task[t] EXCEPT !.parent = AsParent(w)] # None
             /\ [task[t] EXCEPT !.parent = AsParent(w)].kind = task[t].kind
             /\ [task[t] EXCEPT !.parent = AsParent(w)].fut = task[t].fut
             /\ [task[t] EXCEPT !.parent = AsParent(w)].target = task[t].target
  <2>1. task[t] \in TaskRecord
    BY <1>3 DEF Settled, Alive
  <2>2. [task[t] EXCEPT !.parent = AsParent(w)] \in TaskRecord
    BY <1>2, <2>1 DEF TaskRecord
  <2> QED
    BY <2>1, <2>2, NoneAssumption DEF TaskRecord
<1>4. \A t \in Task : task'[t] = IF t \in Found(f) THEN [task[t] EXCEPT !.parent = AsParent(w)]
                                 ELSE task[t]
  BY DEF AddToGroup
<1>5. /\ task' \in [Task -> TaskRecord \cup {None}]
      /\ \A t \in Task : task'[t] # None <=> task[t] # None
      /\ \A t \in Task : task[t] # None =>
               /\ task'[t].kind = task[t].kind
               /\ task'[t].fut = task[t].fut /\ task'[t].target = task[t].target
  <2>1. \A t \in Task : task'[t] \in TaskRecord \cup {None}
    BY <1>1, <1>3, <1>4 DEF Settled, Alive
  <2>2. task' \in [Task -> TaskRecord \cup {None}]
    BY <2>1 DEF AddToGroup
  <2> QED
    BY <1>1, <1>3, <1>4, <2>2
<1>6. fut' \in Seq(FutRecord) /\ Made' = Made /\ \A g \in Made : fut'[g].waiter = fut[g].waiter
  BY DEF AddToGroup, Made, Settled, Awaited
<1> QED
  BY <1>5, <1>6, RecordsMove DEF AddToGroup

-----------------------------------------------------------------------------
(* Cancellation. *)

\* A fallen task is as it was, but cancelled.
LEMMA TasksFall ==
    ASSUME NEW h, Settled(h), NEW S \in SUBSET (Range(queue) \cup TimerTasks)
    PROVE  /\ TasksAfterFall(S) \in [Task -> TaskRecord \cup {None}]
           /\ \A t \in Task : TasksAfterFall(S)[t] # None <=> task[t] # None
           /\ \A t \in Task : task[t] # None =>
                 /\ TasksAfterFall(S)[t].kind = task[t].kind
                 /\ TasksAfterFall(S)[t].fut = task[t].fut
                 /\ TasksAfterFall(S)[t].target = task[t].target
<1>1. Fallen(S) \subseteq {t \in Task : task[t] # None}
  BY FallenWait, WaitingAreAlive
<1>2. ASSUME NEW t \in Task, task[t] # None
      PROVE  /\ [task[t] EXCEPT !.cancelled = TRUE] \in TaskRecord
             /\ [task[t] EXCEPT !.cancelled = TRUE] # None
             /\ [task[t] EXCEPT !.cancelled = TRUE].kind = task[t].kind
             /\ [task[t] EXCEPT !.cancelled = TRUE].fut = task[t].fut
             /\ [task[t] EXCEPT !.cancelled = TRUE].target = task[t].target
  <2>1. task[t] \in TaskRecord
    BY <1>2 DEF Settled, Alive
  <2>2. [task[t] EXCEPT !.cancelled = TRUE] \in TaskRecord
    BY <2>1 DEF TaskRecord
  <2> QED
    BY <2>1, <2>2, NoneAssumption DEF TaskRecord
<1>3. \A t \in Task : TasksAfterFall(S)[t] = IF t \in Fallen(S)
                                             THEN [task[t] EXCEPT !.cancelled = TRUE]
                                             ELSE task[t]
  BY DEF TasksAfterFall
<1>4. \A t \in Task : TasksAfterFall(S)[t] \in TaskRecord \cup {None}
  BY <1>1, <1>2, <1>3 DEF Settled, Alive
<1>5. TasksAfterFall(S) \in [Task -> TaskRecord \cup {None}]
  BY <1>4 DEF TasksAfterFall
<1> QED
  BY <1>1, <1>2, <1>3, <1>5

\* A failed future keeps the task that waits for it.
LEMMA FutsFall ==
    ASSUME NEW h, Settled(h), NEW S, NEW F
    PROVE  /\ FutsAfterFall(S, F) \in Seq(FutRecord)
           /\ DOMAIN FutsAfterFall(S, F) = Made
           /\ \A f \in Made :
                 /\ FutsAfterFall(S, F)[f].waiter = fut[f].waiter
                 /\ \/ FutsAfterFall(S, F)[f] = fut[f]
                    \/ FutsAfterFall(S, F)[f].value = Failed
<1>1. \A f \in Made : fut[f] \in FutRecord
  BY DEF Settled, Awaited, Made
<1>2. ASSUME NEW f \in Made
      PROVE  /\ [fut[f] EXCEPT !.done = TRUE, !.value = Failed] \in FutRecord
             /\ [fut[f] EXCEPT !.done = TRUE, !.value = Failed].waiter = fut[f].waiter
             /\ [fut[f] EXCEPT !.done = TRUE, !.value = Failed].value = Failed
  BY <1>1, Zenon DEF FutRecord, Values, Failed
<1>3. /\ DOMAIN FutsAfterFall(S, F) = Made
      /\ \A f \in Made : FutsAfterFall(S, F)[f] = fut[f] \/
            FutsAfterFall(S, F)[f] = [fut[f] EXCEPT !.done = TRUE, !.value = Failed]
  BY DEF FutsAfterFall
<1>4. \A f \in Made : FutsAfterFall(S, F)[f] \in FutRecord
  BY <1>1, <1>2, <1>3
<1>5. FutsAfterFall(S, F) \in [1 .. Len(fut) -> FutRecord] /\ Len(fut) \in Nat
  <2>1. Made = 1 .. Len(fut) /\ Len(fut) \in Nat
    BY DEF Settled, Awaited, Made
  <2>2. FutsAfterFall(S, F) \in [Made -> FutRecord]
    BY <1>4 DEF FutsAfterFall
  <2> QED
    BY <2>1, <2>2
<1>6. FutsAfterFall(S, F) \in Seq(FutRecord)
  BY <1>5
<1> QED
  BY <1>2, <1>3, <1>6

LEMMA FailMoves ==
    ASSUME NEW h \in [Task -> Homes], Settled(h), NEW F, Fail(F)
    PROVE  Moves(h)
<1> DEFINE S == UNION {Found(f) : f \in F}
<1>1. S \in SUBSET (Range(queue) \cup TimerTasks)
  BY DEF Found
<1>2. CASE EndlessCancel(S)
  BY <1>2, ExitMoves DEF Fail
<1>3. CASE ~EndlessCancel(S)
  <2>1. /\ task' = TasksAfterFall(S) /\ fut' = FutsAfterFall(S, F)
        /\ UNCHANGED <<queue, timers, armed, sources, stack>>
    BY <1>3 DEF Fail
  <2> HIDE DEF S
  <2>2. /\ task' \in [Task -> TaskRecord \cup {None}]
        /\ \A t \in Task : task'[t] # None <=> task[t] # None
        /\ \A t \in Task : task[t] # None =>
              /\ task'[t].kind = task[t].kind
              /\ task'[t].fut = task[t].fut /\ task'[t].target = task[t].target
    BY <1>1, <2>1, TasksFall
  <2>3. fut' \in Seq(FutRecord) /\ DOMAIN fut' = Made
    BY <2>1, FutsFall
  <2>4. \A f \in Made : fut'[f].waiter = fut[f].waiter
    BY <2>1, FutsFall
  <2>5. Made' = Made
    BY <2>3 DEF Made
  <2> QED
    BY <2>1, <2>2, <2>3, <2>4, <2>5, RecordsMove
<1> QED
  BY <1>2, <1>3

LEMMA SpreadFailureMoves ==
    ASSUME NEW h \in [Task -> Homes], Settled(h), SpreadFailure
    PROVE  Moves(h)
BY FailMoves, StillMoves DEF SpreadFailure

-----------------------------------------------------------------------------
(* The end of a step. *)

\* The task leaves the stack for good, and whoever waits for its future goes
\* to the run queue.
LEMMA FinishedMoves ==
    ASSUME NEW h \in [Task -> Homes], Settled(h), NEW t \in Task, Top.by = t,
           NEW f \in Made, NEW v \in Values, Finished(f, v), Gone(t),
           UNCHANGED <<timers, armed, sources>>
    PROVE  Moves(h)
<1>1. h[t] = "stack"
  BY TopIsOnStack DEF Settled
<1>2. PICK w \in Task \cup {None} : w = fut[f].waiter
  <2>1. fut[f] \in FutRecord
    BY DEF Settled, Awaited, Made
  <2> QED
    BY <2>1 DEF FutRecord
<1>3. w \in Task => h[w] = "future" /\ task[w] # None
  BY <1>2 DEF Settled, Awaited, Alive
<1>4. PICK k \in [Task -> Homes] :
         \A u \in Task : k[u] = IF u = t THEN "none" ELSE IF u = w THEN "queue" ELSE h[u]
  <2> DEFINE home == [u \in Task |-> IF u = t THEN "none" ELSE IF u = w THEN "queue" ELSE h[u]]
  <2>1. home \in [Task -> Homes]
    BY DEF Homes
  <2> QED
    BY <2>1
<1>5. \A u \in Task : /\ u = t => k[u] = "none" /\ h[u] = "stack"
                      /\ u = w => k[u] = "queue" /\ h[u] = "future"
                      /\ u # t /\ u # w => k[u] = h[u]
  BY <1>1, <1>3, <1>4
<1> DEFINE r == [done |-> TRUE, value |-> v, waiter |-> None]
<1>6. r \in FutRecord /\ r.waiter = None /\ fut' = [fut EXCEPT ![f] = r]
  BY DEF FutRecord, Finished
<1>7. Awaited(k)'
  <2>1. \A u \in Task : k[u] = "future" <=> u = r.waiter \/ (h[u] = "future" /\ u # fut[f].waiter)
    BY <1>2, <1>5, TasksAssumption
  <2> HIDE DEF r
  <2> QED
    BY <1>6, <2>1, WaiterChanges DEF Settled
<1>8. Made' = Made
  BY <1>6 DEF Made
<1>9. Queued(k)'
  <2>1. CASE w = None
    <3>1. queue' = queue
      BY <1>2, <2>1 DEF Finished
    <3>2. \A u \in Task : k[u] = "queue" <=> h[u] = "queue"
      BY <1>5, <2>1, TasksAssumption
    <3> QED
      BY <3>1, <3>2, QueueStays DEF Settled
  <2>2. CASE w # None
    <3>1. queue' = Append(queue, w) /\ w \in Task
      BY <1>2, <2>2 DEF Finished
    <3>2. /\ h[w] # "queue" /\ k[w] = "queue"
          /\ \A u \in Task \ {w} : k[u] = "queue" <=> h[u] = "queue"
      BY <1>5, <3>1
    <3> QED
      BY <3>1, <3>2, QueueGrows DEF Settled
  <2> QED
    BY <2>1, <2>2
<1>10. Stacked(k)'
  <2>1. k[t] # "stack" /\ \A u \in Task \ {t} : k[u] = "stack" <=> h[u] = "stack"
    BY <1>5
  <2> QED
    BY <2>1, StackShrinks DEF Settled, Gone
<1>11. Timed(k)' /\ Armed(k)'
  <2>1. \A u \in Task : \A p \in {"timer", "socket"} : k[u] = p <=> h[u] = p
    BY <1>5
  <2> QED
    BY <2>1, TimersStay, SocketsStay DEF Settled
<1>12. /\ task' \in [Task -> TaskRecord \cup {None}] /\ task'[t] = None
       /\ \A u \in Task \ {t} : task'[u] = task[u]
  BY DEF Gone, Settled, Alive
<1>13. Alive(k)'
  <2>1. \A u \in Task : k[u] # "none" => task'[u] # None
    BY <1>3, <1>5, <1>12 DEF Settled, Alive
  <2>2. \A u \in Task : task'[u] # None =>
               \/ Fits(task'[u], Made')
               \/ /\ task[u] # None /\ task'[u].kind = task[u].kind
                  /\ task'[u].fut = task[u].fut /\ task'[u].target = task[u].target
    BY <1>12
  <2> QED
    BY <1>8, <1>12, <2>1, <2>2, AliveStays DEF Settled
<1>14. Kept(h, k)
  BY <1>5, <1>12 DEF Kept
<1> QED
  BY <1>4, <1>7, <1>9, <1>10, <1>11, <1>13, <1>14 DEF Moves, Settled

LEMMA ReturnMoves ==
    ASSUME NEW h \in [Task -> Homes], Settled(h), NEW t \in Task, NEW v \in Results, Return(t, v)
    PROVE  Moves(h)
<1>1. Top.by = t
  BY DEF Return, Runs
<1>2. PICK f \in Made : f = task[t].fut
  BY <1>1, TopIsOnStack DEF Settled, Fits, Return
<1>3. v \in Values
  BY TasksAssumption DEF Values, Failed
<1> QED
  BY <1>1, <1>2, <1>3, FinishedMoves DEF Return

LEMMA RingMoves ==
    ASSUME NEW h \in [Task -> Homes], Settled(h), NEW t \in Task, Ring(t)
    PROVE  Moves(h)
<1>1. Top.by = t
  BY DEF Ring, Runs
<1>2. PICK f \in Made : f = task[t].target
  BY <1>1, TopIsOnStack DEF Settled, Fits, Ring
<1>3. PICK v \in Values : v = IF task[t].kind = "ready" THEN 1 ELSE 0
  BY DEF Values
<1> QED
  BY <1>1, <1>2, <1>3, FinishedMoves DEF Ring

LEMMA GuardFiresMoves ==
    ASSUME NEW h \in [Task -> Homes], Settled(h), NEW t \in Task, GuardFires(t)
    PROVE  Moves(h)
<1> DEFINE f == task[t].target
           S == IF f \in Pending THEN Found(f) ELSE {}
<1>1. S \in SUBSET (Range(queue) \cup TimerTasks)
  BY DEF Found
<1>2. CASE EndlessCancel(S)
  BY <1>2, ExitMoves DEF GuardFires
<1>3. CASE ~EndlessCancel(S)
  <2> DEFINE k == [h EXCEPT ![t] = "none"]
  <2>1. Top.by = t /\ h[t] = "stack"
    BY TopIsOnStack DEF Settled, GuardFires, Runs
  <2>2. k \in [Task -> Homes] /\ \A u \in Task : k[u] = IF u = t THEN "none" ELSE h[u]
    BY DEF Homes
  <2>3. /\ task' = [TasksAfterFall(S) EXCEPT ![t] = None]
        /\ fut' = FutsAfterFall(S, {f} \cap Pending)
        /\ stack' = Front(stack)
        /\ UNCHANGED <<queue, timers, armed, sources>>
    BY <1>3 DEF GuardFires
  <2> HIDE DEF k, S
  <2>4. /\ task' \in [Task -> TaskRecord \cup {None}] /\ task'[t] = None
        /\ \A u \in Task \ {t} : task'[u] # None <=> task[u] # None
        /\ \A u \in Task \ {t} : task[u] # None =>
              /\ task'[u].kind = task[u].kind
              /\ task'[u].fut = task[u].fut /\ task'[u].target = task[u].target
    <3>1. /\ TasksAfterFall(S) \in [Task -> TaskRecord \cup {None}]
          /\ \A u \in Task : TasksAfterFall(S)[u] # None <=> task[u] # None
          /\ \A u \in Task : task[u] # None =>
                /\ TasksAfterFall(S)[u].kind = task[u].kind
                /\ TasksAfterFall(S)[u].fut = task[u].fut
                /\ TasksAfterFall(S)[u].target = task[u].target
      BY <1>1, TasksFall
    <3>2. /\ task' \in [Task -> TaskRecord \cup {None}] /\ task'[t] = None
          /\ \A u \in Task \ {t} : task'[u] = TasksAfterFall(S)[u]
      BY <2>3, <3>1
    <3> QED
      BY <3>1, <3>2
  <2>5. fut' \in Seq(FutRecord) /\ DOMAIN fut' = Made
    BY <2>3, FutsFall
  <2>6. \A g \in Made : fut'[g].waiter = fut[g].waiter
    BY <2>3, FutsFall
  <2>7. Made' = Made
    BY <2>5 DEF Made
  <2>8. Awaited(k)'
    BY <2>1, <2>2, <2>5, <2>6, <2>7, WaitersStay DEF Settled
  <2>9. Stacked(k)'
    BY <2>1, <2>2, <2>3, StackShrinks DEF Settled
  <2>10. Queued(k)' /\ Timed(k)' /\ Armed(k)'
    BY <2>1, <2>2, <2>3, QueueStays, TimersStay, SocketsStay DEF Settled
  <2>11. Alive(k)'
    <3>1. \A u \in Task : k[u] # "none" => task'[u] # None
      BY <2>2, <2>4 DEF Settled, Alive
    <3>2. \A u \in Task : task'[u] # None =>
               \/ Fits(task'[u], Made')
               \/ /\ task[u] # None /\ task'[u].kind = task[u].kind
                  /\ task'[u].fut = task[u].fut /\ task'[u].target = task[u].target
      BY <2>4
    <3> QED
      BY <2>2, <2>4, <2>7, <3>1, <3>2, AliveStays DEF Settled
  <2>12. Kept(h, k)
    BY <2>2, <2>4 DEF Kept
  <2> QED
    BY <2>2, <2>8, <2>9, <2>10, <2>11, <2>12 DEF Moves, Settled
<1> QED
  BY <1>2, <1>3

-----------------------------------------------------------------------------
(* Driving. *)

LEMMA StepMoves ==
    ASSUME NEW h \in [Task -> Homes], Settled(h), Step
    PROVE  Moves(h)
<1>1. PICK t \in Task : t = Head(queue)
  BY DEF Settled, Queued, Step
<1>2. queue # <<>> /\ queue' = Tail(queue) /\ UNCHANGED <<timers, armed, sources>>
  BY DEF Step
<1>3. h[t] = "queue" /\ task[t] # None
  <2>1. t \in Range(queue)
    BY <1>1, <1>2 DEF Range, Settled, Queued
  <2>2. h[t] = "queue"
    BY <2>1 DEF Range, Settled, Queued
  <2> QED
    BY <2>2 DEF Settled, Alive
<1>4. CASE task[t].cancelled
  <2> DEFINE k == [h EXCEPT ![t] = "none"]
  <2>1. k \in [Task -> Homes] /\ \A u \in Task : k[u] = IF u = t THEN "none" ELSE h[u]
    BY DEF Homes
  <2>2. /\ task' = [task EXCEPT ![t] = None]
        /\ fut' = FutsAfterFall({}, {task[t].fut} \cap Fut)
        /\ stack' = stack
    BY <1>1, <1>4 DEF Step
  <2> HIDE DEF k
  <2>3. /\ task' \in [Task -> TaskRecord \cup {None}] /\ task'[t] = None
        /\ \A u \in Task \ {t} : task'[u] = task[u]
    BY <2>2 DEF Settled, Alive
  <2>4. fut' \in Seq(FutRecord) /\ DOMAIN fut' = Made
    BY <2>2, FutsFall
  <2>5. \A g \in Made : fut'[g].waiter = fut[g].waiter
    BY <2>2, FutsFall
  <2>6. Made' = Made
    BY <2>4 DEF Made
  <2>7. Awaited(k)'
    BY <1>3, <2>1, <2>4, <2>5, <2>6, WaitersStay DEF Settled
  <2>8. Queued(k)'
    BY <1>1, <1>2, <2>1, QueueShrinks DEF Settled
  <2>9. Timed(k)' /\ Armed(k)' /\ Stacked(k)'
    BY <1>2, <1>3, <2>1, <2>2, TimersStay, SocketsStay, StackStays DEF Settled
  <2>10. Alive(k)'
    <3>1. \A u \in Task : k[u] # "none" => task'[u] # None
      BY <2>1, <2>3 DEF Settled, Alive
    <3>2. \A u \in Task : task'[u] # None =>
               \/ Fits(task'[u], Made')
               \/ /\ task[u] # None /\ task'[u].kind = task[u].kind
                  /\ task'[u].fut = task[u].fut /\ task'[u].target = task[u].target
      BY <2>3
    <3> QED
      BY <2>1, <2>3, <2>6, <3>1, <3>2, AliveStays DEF Settled
  <2>11. Kept(h, k)
    BY <2>1, <2>3 DEF Kept
  <2> QED
    BY <2>1, <2>7, <2>8, <2>9, <2>10, <2>11 DEF Moves, Settled
<1>5. CASE ~task[t].cancelled
  <2> DEFINE k == [h EXCEPT ![t] = "stack"]
  <2>1. k \in [Task -> Homes] /\ \A u \in Task : k[u] = IF u = t THEN "stack" ELSE h[u]
    BY DEF Homes
  <2>2. stack' = Append(stack, [by |-> t, drive |-> NotDriving]) /\ UNCHANGED <<task, fut>>
    BY <1>1, <1>5 DEF Step
  <2> HIDE DEF k
  <2>3. Made' = Made /\ fut' \in Seq(FutRecord)
    BY <2>2 DEF Made, Settled, Awaited
  <2>4. Awaited(k)'
    BY <1>3, <2>1, <2>2, <2>3, WaitersStay DEF Settled
  <2>5. Queued(k)'
    BY <1>1, <1>2, <2>1, QueueShrinks DEF Settled
  <2>6. Timed(k)' /\ Armed(k)'
    BY <1>2, <1>3, <2>1, TimersStay, SocketsStay DEF Settled
  <2>7. Stacked(k)'
    BY <1>3, <2>1, <2>2, StackGrows DEF Settled
  <2>8. Alive(k)'
    BY <1>3, <2>1, <2>2, <2>3 DEF Settled, Alive
  <2>9. Kept(h, k)
    BY <2>1 DEF Kept
  <2> QED
    BY <2>1, <2>4, <2>5, <2>6, <2>7, <2>8, <2>9 DEF Moves, Settled
<1> QED
  BY <1>4, <1>5

\* The host names each of the ready sockets' tasks once.
LEMMA EachOnce ==
    ASSUME NEW A, IsFiniteSet(A), NEW q \in SetToSeqs(A)
    PROVE  /\ q \in Seq(A)
           /\ \A i, j \in DOMAIN q : q[i] = q[j] => i = j
           /\ \A a \in A : \E i \in DOMAIN q : q[i] = a
<1> DEFINE n == Cardinality(A)
<1>1. n \in Nat
  BY FS_CardinalityType
<1>2. q \in [1 .. n -> A] /\ \A i, j \in 1 .. n : i # j => q[i] # q[j]
  BY DEF SetToSeqs
<1>3. q \in Injection(1 .. n, A)
  BY <1>2 DEF Injection, IsInjective
<1>4. IsFiniteSet(1 .. n) /\ Cardinality(1 .. n) = n
  BY <1>1, FS_Interval
<1>5. q \in Surjection(1 .. n, A)
  BY <1>3, <1>4, FS_Injection
<1>6. \A a \in A : \E i \in 1 .. n : q[i] = a
  BY <1>5 DEF Surjection
<1> QED
  BY <1>1, <1>2, <1>6

\* The timers that have not expired.
LEMMA TimersRest ==
    ASSUME NEW h, NEW k, Timed(h), NEW d \in 0 .. Len(timers),
           timers' = SubSeq(timers, d + 1, Len(timers)),
           \A u \in Task : k[u] = "timer" <=> h[u] = "timer" /\ \A i \in 1 .. d : timers[i].task # u
    PROVE  Timed(k)'
<1> DEFINE n == Len(timers) - d
           rest == SubSeq(timers, d + 1, Len(timers))
<1>1. /\ timers \in Seq(TimerRecord) /\ Len(timers) \in Nat /\ d \in Nat /\ n \in Nat
      /\ DOMAIN timers = 1 .. Len(timers) /\ \A i \in 1 .. Len(timers) : timers[i] \in TimerRecord
  BY DEF Timed
<1>2. rest \in Seq(TimerRecord) /\ Len(rest) = n /\ \A i \in 1 .. n : rest[i] = timers[d + i]
  <2>1. /\ rest \in Seq(TimerRecord)
        /\ Len(rest) = IF d + 1 <= Len(timers) THEN Len(timers) - (d + 1) + 1 ELSE 0
        /\ \A i \in 1 .. Len(timers) - (d + 1) + 1 : rest[i] = timers[d + 1 + i - 1]
    BY <1>1, SubSeqProperties
  <2> HIDE DEF rest
  <2>2. Len(rest) = n
    <3>1. Len(timers) \in Nat /\ d \in Nat /\ d <= Len(timers)
      BY <1>1
    <3>2. CASE d + 1 <= Len(timers)
      BY <2>1, <3>1, <3>2
    <3>3. CASE ~(d + 1 <= Len(timers))
      BY <2>1, <3>1, <3>3
    <3> QED
      BY <3>2, <3>3
  <2>3. ASSUME NEW i \in 1 .. n PROVE rest[i] = timers[d + i]
    <3>1. i \in 1 .. Len(timers) - (d + 1) + 1 /\ d + 1 + i - 1 = d + i
      BY <1>1
    <3> QED
      BY <2>1, <3>1
  <2> QED
    BY <2>1, <2>2, <2>3
<1>3. /\ timers' \in Seq(TimerRecord) /\ DOMAIN timers' = 1 .. n
      /\ \A i \in 1 .. n : timers'[i] = timers[d + i]
  <2>1. timers' = rest
    OBVIOUS
  <2> HIDE DEF rest
  <2>2. DOMAIN rest = 1 .. n
    BY <1>2, LenProperties
  <2> QED
    BY <1>2, <2>1, <2>2
<1> HIDE DEF rest
<1>4. \A i, j \in DOMAIN timers' : timers'[i].task = timers'[j].task => i = j
  <2> SUFFICES ASSUME NEW i \in DOMAIN timers', NEW j \in DOMAIN timers',
                      timers'[i].task = timers'[j].task
               PROVE  i = j
    OBVIOUS
  <2>0. i \in 1 .. n /\ j \in 1 .. n /\ timers[d + i].task = timers[d + j].task
    <3> HIDE DEF n
    <3>1. i \in 1 .. n /\ j \in 1 .. n
      BY <1>3
    <3>2. timers'[i] = timers[d + i] /\ timers'[j] = timers[d + j]
      BY <1>3, <3>1
    <3> QED
      BY <3>1, <3>2
  <2>1. d + i \in DOMAIN timers /\ d + j \in DOMAIN timers
    <3>1. i \in Nat /\ j \in Nat /\ i >= 1 /\ j >= 1 /\ i <= n /\ j <= n
      BY <1>1, <2>0
    <3>2. d + i \in 1 .. Len(timers) /\ d + j \in 1 .. Len(timers)
      <4>1. Len(timers) \in Nat /\ d \in Nat
        BY <1>1
      <4> QED
        BY <3>1, <4>1
    <3> QED
      BY <1>1, <3>2
  <2>2. d + i = d + j
    BY <2>0, <2>1 DEF Timed
  <2> QED
    BY <1>1, <2>0, <2>2
<1>5. \A u \in Task : k[u] = "timer" <=> \E i \in DOMAIN timers' : timers'[i].task = u
  <2> SUFFICES ASSUME NEW u \in Task
               PROVE  k[u] = "timer" <=> \E i \in DOMAIN timers' : timers'[i].task = u
    OBVIOUS
  <2>1. ASSUME NEW i \in DOMAIN timers', timers'[i].task = u PROVE k[u] = "timer"
    <3>0. i \in 1 .. n /\ timers[d + i].task = u
      BY <1>3, <2>1
    <3>1. d + i \in DOMAIN timers /\ d + i \notin 1 .. d
      BY <1>1, <3>0
    <3>2. h[u] = "timer"
      BY <3>0, <3>1 DEF Timed
    <3>3. \A j \in 1 .. d : timers[j].task # u
      <4> SUFFICES ASSUME NEW j \in 1 .. d, timers[j].task = u PROVE FALSE
        OBVIOUS
      <4>1. j \in DOMAIN timers
        BY <1>1
      <4>2. j = d + i
        BY <3>0, <3>1, <4>1 DEF Timed
      <4> QED
        BY <3>1, <4>2
    <3> QED
      BY <3>2, <3>3
  <2>2. ASSUME k[u] = "timer" PROVE \E i \in DOMAIN timers' : timers'[i].task = u
    <3>1. PICK j \in DOMAIN timers : timers[j].task = u
      BY <2>2 DEF Timed
    <3>2. j \notin 1 .. d
      BY <2>2, <3>1
    <3>3. j - d \in 1 .. n /\ d + (j - d) = j
      BY <1>1, <3>1, <3>2
    <3>4. timers'[j - d] = timers[d + (j - d)]
      BY <1>3, <3>3
    <3> QED
      BY <1>3, <3>1, <3>3, <3>4
  <2> QED
    BY <2>1, <2>2
<1> QED
  BY <1>3, <1>4, <1>5 DEF Timed

\* Two sequences without repetition and without a common element, joined.
LEMMA Joined ==
    ASSUME NEW S, NEW q \in Seq(S), NEW r \in Seq(S),
           \A i, j \in DOMAIN q : q[i] = q[j] => i = j,
           \A i, j \in DOMAIN r : r[i] = r[j] => i = j,
           \A i \in DOMAIN q, j \in DOMAIN r : q[i] # r[j]
    PROVE  /\ q \o r \in Seq(S)
           /\ \A i, j \in DOMAIN (q \o r) : (q \o r)[i] = (q \o r)[j] => i = j
           /\ \A i \in DOMAIN q : \E j \in DOMAIN (q \o r) : (q \o r)[j] = q[i]
           /\ \A i \in DOMAIN r : \E j \in DOMAIN (q \o r) : (q \o r)[j] = r[i]
           /\ \A j \in DOMAIN (q \o r) :
                 \/ \E i \in DOMAIN q : (q \o r)[j] = q[i]
                 \/ \E i \in DOMAIN r : (q \o r)[j] = r[i]
<1> DEFINE m == Len(q)
           n == Len(r)
           both == q \o r
<1>1. m \in Nat /\ n \in Nat /\ DOMAIN q = 1 .. m /\ DOMAIN r = 1 .. n
  OBVIOUS
<1>2. /\ both \in Seq(S) /\ Len(both) = m + n
      /\ \A i \in 1 .. m + n : both[i] = IF i <= m THEN q[i] ELSE r[i - m]
  BY ConcatProperties
<1>3. DOMAIN both = 1 .. m + n
  BY <1>2, LenProperties
<1> HIDE DEF both, m, n
<1>4. \A i \in 1 .. m : i \in DOMAIN both /\ both[i] = q[i]
  BY <1>1, <1>2, <1>3
<1>5. \A i \in 1 .. n : m + i \in DOMAIN both /\ both[m + i] = r[i]
  <2> SUFFICES ASSUME NEW i \in 1 .. n PROVE m + i \in DOMAIN both /\ both[m + i] = r[i]
    OBVIOUS
  <2>1. PICK x \in 1 .. m + n : x = m + i /\ ~(x <= m) /\ x - m = i
    BY <1>1
  <2>2. both[x] = r[x - m]
    BY <1>2, <2>1
  <2> QED
    BY <1>3, <2>1, <2>2
<1>6. \A j \in DOMAIN both : \/ j \in 1 .. m /\ both[j] = q[j]
                             \/ j > m /\ j - m \in 1 .. n /\ both[j] = r[j - m]
  BY <1>1, <1>2, <1>3
<1>7. ASSUME NEW i \in DOMAIN both, NEW j \in DOMAIN both, both[i] = both[j]
      PROVE  i = j
  <2>1. CASE i \in 1 .. m /\ j \in 1 .. m
    BY <1>1, <1>4, <1>7, <2>1
  <2>2. CASE i > m /\ j > m
    <3>1. /\ i - m \in DOMAIN r /\ j - m \in DOMAIN r
          /\ r[i - m] = r[j - m]
      BY <1>1, <1>6, <1>7, <2>2
    <3>2. i - m = j - m
      BY <3>1
    <3> QED
      BY <1>1, <1>3, <3>2
  <2>3. CASE i \in 1 .. m /\ j > m
    <3>1. i \in DOMAIN q /\ j - m \in DOMAIN r /\ q[i] = r[j - m]
      BY <1>1, <1>4, <1>6, <1>7, <2>3
    <3> QED
      BY <3>1
  <2>4. CASE i > m /\ j \in 1 .. m
    <3>1. j \in DOMAIN q /\ i - m \in DOMAIN r /\ q[j] = r[i - m]
      BY <1>1, <1>4, <1>6, <1>7, <2>4
    <3> QED
      BY <3>1
  <2> QED
    BY <1>6, <2>1, <2>2, <2>3, <2>4
<1> QED
  BY <1>1, <1>2, <1>4, <1>5, <1>6, <1>7 DEF both

\* The sockets' tasks come first, then those of the timers that have expired.
LEMMA QueueFills ==
    ASSUME NEW h, NEW k, Settled(h), queue = <<>>,
           NEW S \in SUBSET {s \in Fd : armed[s] # None}, NEW d \in 0 .. Len(timers),
           NEW q \in SetToSeqs({armed[s] : s \in S}),
           queue' = q \o [i \in 1 .. d |-> timers[i].task],
           \A u \in Task : k[u] = "queue" <=> \/ \E s \in S : armed[s] = u
                                              \/ \E i \in 1 .. d : timers[i].task = u
    PROVE  Queued(k)'
<1> DEFINE A == {armed[s] : s \in S}
           r == [i \in 1 .. d |-> timers[i].task]
<1>1. /\ timers \in Seq(TimerRecord) /\ DOMAIN timers = 1 .. Len(timers) /\ Len(timers) \in Nat
      /\ armed \in [Fd -> Task \cup {None}]
  BY DEF Settled, Timed, Armed
<1>2. A \subseteq Task /\ \A u \in A : h[u] = "socket"
  <2>1. \A s \in S : s \in Fd /\ armed[s] \in Task
    BY <1>1
  <2> QED
    BY <2>1 DEF Settled, Armed
<1>3. IsFiniteSet(A)
  <2> DEFINE g == [s \in S |-> armed[s]]
  <2>1. IsFiniteSet(S)
    <3>1. S \in SUBSET Fd
      OBVIOUS
    <3> QED
      BY <3>1, TasksAssumption, FS_Subset
  <2>2. g \in Surjection(S, A)
    BY DEF Surjection
  <2> QED
    BY <2>1, <2>2, FS_Surjection
<1>4. /\ q \in Seq(A)
      /\ \A i, j \in DOMAIN q : q[i] = q[j] => i = j
      /\ \A a \in A : \E i \in DOMAIN q : q[i] = a
  <2>1. q \in SetToSeqs(A)
    OBVIOUS
  <2> HIDE DEF A
  <2> QED
    BY <1>3, <2>1, EachOnce
<1>5. q \in Seq(Task) /\ \A i \in DOMAIN q : q[i] \in A
  BY <1>2, <1>4
<1>6. d \in Nat /\ \A i \in 1 .. d : i \in DOMAIN timers
  BY <1>1
<1>7. \A i \in 1 .. d : timers[i].task \in Task /\ h[timers[i].task] = "timer"
  <2>1. \A i \in 1 .. d : timers[i] \in TimerRecord
    BY <1>1, <1>6
  <2>2. \A x \in TimerRecord : x.task \in Task
    BY DEF TimerRecord
  <2>3. \A i \in 1 .. d : timers[i].task \in Task
    BY <2>1, <2>2
  <2> QED
    BY <1>6, <2>3 DEF Settled, Timed
<1>8. r \in Seq(Task) /\ DOMAIN r = 1 .. d /\ \A i \in 1 .. d : r[i] = timers[i].task
  <2>1. r \in [1 .. d -> Task]
    BY <1>7
  <2> QED
    BY <1>6, <2>1
<1>9. \A i, j \in DOMAIN r : r[i] = r[j] => i = j
  BY <1>6, <1>8 DEF Settled, Timed
<1> HIDE DEF A, r
<1>10. \A i \in DOMAIN q, j \in DOMAIN r : q[i] # r[j]
  <2> SUFFICES ASSUME NEW i \in DOMAIN q, NEW j \in DOMAIN r, q[i] = r[j] PROVE FALSE
    OBVIOUS
  <2>1. h[q[i]] = "socket"
    BY <1>2, <1>5
  <2>2. j \in 1 .. d /\ r[j] = timers[j].task
    BY <1>8
  <2>3. h[timers[j].task] = "timer"
    BY <1>7, <2>2
  <2> QED
    BY <2>1, <2>2, <2>3
<1> DEFINE both == q \o r
<1>11. /\ both \in Seq(Task)
       /\ \A i, j \in DOMAIN both : both[i] = both[j] => i = j
       /\ \A i \in DOMAIN q : \E j \in DOMAIN both : both[j] = q[i]
       /\ \A i \in DOMAIN r : \E j \in DOMAIN both : both[j] = r[i]
       /\ \A j \in DOMAIN both :
             \/ \E i \in DOMAIN q : both[j] = q[i]
             \/ \E i \in DOMAIN r : both[j] = r[i]
  BY <1>4, <1>5, <1>8, <1>9, <1>10, Joined
<1>12. queue' = both
  BY DEF r
<1> HIDE DEF both
<1>13. \A u \in Task : k[u] = "queue" <=> \E j \in DOMAIN both : both[j] = u
  <2> SUFFICES ASSUME NEW u \in Task
               PROVE  k[u] = "queue" <=> \E j \in DOMAIN both : both[j] = u
    OBVIOUS
  <2>1. k[u] = "queue" <=> u \in A \/ \E i \in 1 .. d : timers[i].task = u
    BY DEF A
  <2>2. ASSUME k[u] = "queue" PROVE \E j \in DOMAIN both : both[j] = u
    <3>1. CASE u \in A
      BY <1>4, <1>11, <3>1
    <3>2. CASE \E i \in 1 .. d : timers[i].task = u
      <4>1. PICK i \in DOMAIN r : r[i] = u
        BY <1>8, <3>2
      <4> QED
        BY <1>11, <4>1
    <3> QED
      BY <2>1, <2>2, <3>1, <3>2
  <2>3. ASSUME NEW j \in DOMAIN both, both[j] = u PROVE k[u] = "queue"
    <3>1. CASE \E i \in DOMAIN q : both[j] = q[i]
      BY <1>5, <2>1, <2>3, <3>1
    <3>2. CASE \E i \in DOMAIN r : both[j] = r[i]
      <4>1. PICK i \in 1 .. d : u = timers[i].task
        BY <1>8, <2>3, <3>2
      <4> QED
        BY <2>1, <4>1
    <3> QED
      BY <1>11, <3>1, <3>2
  <2> QED
    BY <2>2, <2>3
<1>14. both \in Seq(Task) /\ \A i, j \in DOMAIN both : both[i] = both[j] => i = j
  BY <1>11
<1> QED
  BY <1>12, <1>13, <1>14 DEF Queued

\* The moment the wait ends.
LEMMA WaitTyped ==
    ASSUME NEW h, Settled(h), Bounded, NEW S \in SUBSET Fd, Wait(S)
    PROVE  now' \in 0 .. MaxTime
<1>1. CASE S = {} /\ now < timers[1].at
  <2>1. timers # <<>> /\ now' = timers[1].at
    BY <1>1 DEF Wait
  <2>2. 1 \in DOMAIN timers
    BY <2>1 DEF Settled, Timed
  <2>3. timers[1] \in TimerRecord
    BY <2>2 DEF Settled, Timed
  <2> QED
    BY <2>1, <2>3 DEF TimerRecord
<1>2. CASE ~(S = {} /\ now < timers[1].at)
  BY <1>2 DEF Wait, Bounded
<1> QED
  BY <1>1, <1>2

LEMMA WaitMoves ==
    ASSUME NEW h \in [Task -> Homes], Settled(h), Bounded, NEW S \in SUBSET Fd, Wait(S)
    PROVE  Moves(h)
<1>1. PICK m \in 0 .. MaxTime : m = now'
  BY WaitTyped
<1>2. PICK d \in 0 .. Len(timers) : d = Due(m)
  <2>1. m \in Nat
    BY TasksAssumption
  <2> QED
    BY <2>1, DueIsThere DEF Settled, Timed
<1>3. timers \in Seq(TimerRecord) /\ DOMAIN timers = 1 .. Len(timers) /\ Len(timers) \in Nat
  BY DEF Settled, Timed
<1>4. DOMAIN SubSeq(timers, 1, d) = 1 .. d /\ \A i \in 1 .. d : SubSeq(timers, 1, d)[i] = timers[i]
  <2>1. /\ SubSeq(timers, 1, d) \in Seq(TimerRecord) /\ Len(SubSeq(timers, 1, d)) = d
        /\ \A i \in 1 .. d : SubSeq(timers, 1, d)[i] = timers[i]
    BY <1>3, SubSeqProperties
  <2> QED
    BY <2>1, LenProperties
<1>5. /\ queue = <<>> /\ timers' = SubSeq(timers, d + 1, Len(timers))
      /\ S \in SUBSET {s \in Fd : armed[s] # None}
      /\ armed' = [s \in Fd |-> IF s \in S THEN None ELSE armed[s]]
      /\ sources' = sources - Cardinality(S)
      /\ UNCHANGED <<task, fut, stack>>
  BY <1>1, <1>2 DEF Wait, Rest
<1>6. PICK q \in SetToSeqs({armed[s] : s \in S}) :
         queue' = q \o [i \in 1 .. d |-> timers[i].task]
  <2>1. PICK q \in SetToSeqs({armed[s] : s \in S}) :
           queue' = q \o [i \in DOMAIN SubSeq(timers, 1, d) |-> SubSeq(timers, 1, d)[i].task]
    BY <1>1, <1>2 DEF Wait, Expired
  <2>2. [i \in DOMAIN SubSeq(timers, 1, d) |-> SubSeq(timers, 1, d)[i].task]
           = [i \in 1 .. d |-> timers[i].task]
    BY <1>4
  <2> QED
    BY <2>1, <2>2
<1>7. PICK k \in [Task -> Homes] :
         \A u \in Task : k[u] = IF \/ \E s \in S : armed[s] = u
                                   \/ \E i \in 1 .. d : timers[i].task = u
                                THEN "queue" ELSE h[u]
  <2> DEFINE home == [u \in Task |-> IF \/ \E s \in S : armed[s] = u
                                        \/ \E i \in 1 .. d : timers[i].task = u
                                     THEN "queue" ELSE h[u]]
  <2>1. home \in [Task -> Homes]
    BY DEF Homes
  <2> QED
    BY <2>1
<1>8. \A u \in Task : h[u] # "queue"
  BY <1>5 DEF Settled, Queued
<1>9. \A u \in Task : \A s \in S : armed[s] = u => h[u] = "socket"
  BY DEF Settled, Armed
<1>10. \A u \in Task : \A i \in 1 .. d : timers[i].task = u => h[u] = "timer"
  <2>1. \A i \in 1 .. d : i \in DOMAIN timers
    BY <1>3
  <2> QED
    BY <2>1 DEF Settled, Timed
<1>11. Queued(k)'
  <2>1. \A u \in Task : k[u] = "queue" <=> \/ \E s \in S : armed[s] = u
                                           \/ \E i \in 1 .. d : timers[i].task = u
    BY <1>7, <1>8
  <2> QED
    BY <1>5, <1>6, <2>1, QueueFills
<1>12. Timed(k)'
  <2>1. ASSUME NEW u \in Task
        PROVE  k[u] = "timer" <=> h[u] = "timer" /\ \A i \in 1 .. d : timers[i].task # u
    <3>1. CASE \E s \in S : armed[s] = u
      BY <1>7, <1>9, <3>1
    <3>2. CASE ~\E s \in S : armed[s] = u
      BY <1>7, <3>2
    <3> QED
      BY <3>1, <3>2
  <2> QED
    BY <1>5, <2>1, TimersRest DEF Settled
<1>13. Armed(k)'
  <2>1. ASSUME NEW u \in Task
        PROVE  k[u] = "socket" <=> h[u] = "socket" /\ \A s \in S : armed[s] # u
    <3>1. CASE \E i \in 1 .. d : timers[i].task = u
      BY <1>7, <1>10, <3>1
    <3>2. CASE ~\E i \in 1 .. d : timers[i].task = u
      BY <1>7, <3>2
    <3> QED
      BY <3>1, <3>2
  <2> QED
    BY <1>5, <2>1, SocketsShrink DEF Settled
<1>14. ASSUME NEW u \in Task
       PROVE  /\ k[u] = "stack" <=> h[u] = "stack"
              /\ k[u] = "future" <=> h[u] = "future"
              /\ k[u] = "none" <=> h[u] = "none"
  BY <1>7, <1>9, <1>10
<1>15. Stacked(k)'
  BY <1>5, <1>14, StackStays DEF Settled
<1>16. Made' = Made /\ fut' \in Seq(FutRecord)
  BY <1>5 DEF Made, Settled, Awaited
<1>17. Awaited(k)'
  BY <1>5, <1>14, <1>16, WaitersStay DEF Settled
<1>18. Alive(k)'
  BY <1>5, <1>7, <1>14, <1>16 DEF Settled, Alive
<1>19. Kept(h, k)
  BY <1>14 DEF Kept
<1> QED
  BY <1>7, <1>11, <1>12, <1>13, <1>15, <1>17, <1>18, <1>19 DEF Moves, Settled

-----------------------------------------------------------------------------
(* Every step. *)

LEMMA EveryStepMoves ==
    ASSUME NEW h \in [Task -> Homes], Settled(h), Bounded, [Next]_vars
    PROVE  Moves(h)
<1>1. CASE UNCHANGED vars
  BY <1>1, StillMoves DEF vars
<1>2. CASE \E w \in Task \cup {Main} : Body(w)
  <2>1. PICK w \in Task \cup {Main} : Body(w)
    BY <1>2
  <2>2. CASE \E t \in Task : Call(w, t)
    BY <2>2, CallMoves
  <2>3. CASE \E t \in Task, s \in Fd : WaitReadable(w, t, s)
    BY <2>3, WaitReadableMoves
  <2>4. CASE \E t \in Task, ms \in Delays : Sleep(w, t, ms)
    BY <2>4, SleepMoves
  <2>5. CASE \E t \in Task, ms \in Delays, f \in Made : Timeout(w, t, f, ms)
    BY <2>5, TimeoutMoves
  <2>6. CASE \E f \in Made : Await(w, f)
    BY <2>6, AwaitMoves
  <2>7. CASE \E f \in Made : AddToGroup(w, f)
    BY <2>7, AddToGroupMoves
  <2>8. CASE \E f \in Made : CancelTask(w, f)
    BY <2>8, FailMoves DEF CancelTask
  <2>9. CASE WaitGroup(w)
    BY <2>9, WaitGroupMoves
  <2>10. CASE \E s \in Fd : Close(w, s)
    BY <2>10, CloseMoves
  <2> QED
    BY <2>1, <2>2, <2>3, <2>4, <2>5, <2>6, <2>7, <2>8, <2>9, <2>10 DEF Body
<1>3. CASE \E t \in Task : Leave(t)
  BY <1>3, ReturnMoves, RingMoves, GuardFiresMoves DEF Leave
<1>4. CASE \E t \in Task : \E f \in Made : Suspend(t, f)
  BY <1>4, SuspendMoves
<1>5. CASE Loop
  BY <1>5, DriveEndsMoves, StepMoves, WaitMoves, StuckMoves, SpreadFailureMoves DEF Loop
<1>6. CASE End
  BY <1>6, ExitMoves DEF End
<1>7. CASE Ends \/ WaitsForEver
  BY <1>7, StillMoves DEF Ends, WaitsForEver, vars
<1> QED
  BY <1>1, <1>2, <1>3, <1>4, <1>5, <1>6, <1>7 DEF Next

LEMMA SettledAtFirst ==
    ASSUME Init
    PROVE  \E home \in [Task -> Homes] : Settled(home)
<1> DEFINE k == [t \in Task |-> "none"]
<1>1. k \in [Task -> Homes] /\ \A t \in Task : k[t] = "none"
  BY DEF Homes
<1> HIDE DEF k
<1>2. Queued(k) /\ Timed(k)
  BY <1>1 DEF Queued, Timed, Init
<1>3. Armed(k)
  <2>1. armed = [s \in Fd |-> None] /\ sources = 0
    BY DEF Init, NoneArmed
  <2>2. {s \in Fd : armed[s] # None} = {}
    BY <2>1
  <2>3. sources \in Nat /\ sources >= Cardinality({s \in Fd : armed[s] # None})
    BY <2>1, <2>2, FS_EmptySet
  <2> QED
    BY <1>1, <2>1, <2>3, TasksAssumption DEF Armed, ArmedSockets
<1>4. Stacked(k)
  <2>1. stack = <<[by |-> Main, drive |-> NotDriving]>>
    BY DEF Init, Bottom
  <2>2. [by |-> Main, drive |-> NotDriving] \in FrameRecord
    BY DEF FrameRecord, Drives
  <2>3. /\ stack \in Seq(FrameRecord) /\ DOMAIN stack = {1}
        /\ stack # <<>> /\ stack[1].by = Main
    BY <2>1, <2>2
  <2> QED
    BY <1>1, <2>3, TasksAssumption DEF Stacked
<1>5. Awaited(k)
  BY <1>1, TasksAssumption DEF Awaited, Made, Init
<1>6. Alive(k)
  BY <1>1 DEF Alive, Init, NoTasks
<1> QED
  BY <1>1, <1>2, <1>3, <1>4, <1>5, <1>6 DEF Settled

LEMMA BoundedStays ==
    ASSUME NEW h, Settled(h), Bounded, [Next]_vars
    PROVE  Bounded'
<1> USE DEF Bounded
<1>0. 0 \in 0 .. MaxTime /\ Made \subseteq Fut
  BY TasksAssumption DEF Settled, Awaited, Made, Fut
<1>1. Exit => Bounded'
  BY <1>0 DEF Exit
<1>2. \A F : Fail(F) => Bounded'
  BY <1>1 DEF Fail
<1>3. CASE UNCHANGED vars
  BY <1>3 DEF vars
<1>4. ASSUME NEW w \in Task \cup {Main}, Body(w) PROVE Bounded'
  <2>1. CASE \E t \in Task, ms \in Delays : Sleep(w, t, ms)
    <3>1. PICK t \in Task, ms \in Delays : Sleep(w, t, ms)
      BY <2>1
    <3>2. now' \in 0 .. MaxTime
      BY <3>1, TasksAssumption DEF Sleep
    <3> QED
      BY <3>1, <3>2 DEF Sleep
  <2>2. CASE \E f \in Made : AddToGroup(w, f)
    BY <1>0, <2>2 DEF AddToGroup
  <2>3. CASE \E f \in Made : CancelTask(w, f)
    BY <1>2, <2>3 DEF CancelTask
  <2> QED
    BY <1>4, <2>1, <2>2, <2>3 DEF Body, Call, WaitReadable, Close, Timeout, Await, WaitGroup
<1>5. ASSUME NEW t \in Task, Leave(t) PROVE Bounded'
  BY <1>1, <1>5 DEF Leave, Return, Ring, GuardFires, Gone
<1>6. CASE \E t \in Task : \E f \in Made : Suspend(t, f)
  BY <1>6 DEF Suspend
<1>7. CASE Loop
  <2>1. ASSUME NEW S \in SUBSET Fd, Wait(S) PROVE Bounded'
    BY <2>1, WaitTyped DEF Wait
  <2>2. CASE Step
    BY <2>2 DEF Step
  <2> QED
    BY <1>1, <1>2, <1>7, <2>1, <2>2 DEF Loop, DriveEnds, Stuck, SpreadFailure
<1>8. CASE End
  BY <1>1, <1>8 DEF End
<1>9. CASE Ends \/ WaitsForEver
  BY <1>9 DEF Ends, WaitsForEver, vars
<1> QED
  BY <1>3, <1>4, <1>5, <1>6, <1>7, <1>8, <1>9 DEF Next

-----------------------------------------------------------------------------
(* Who waits at a future that is done. *)

LEMMA WokenByFall ==
    ASSUME NEW h, Settled(h), WaitersAreWoken, NEW S, NEW F, fut' = FutsAfterFall(S, F)
    PROVE  WaitersAreWoken'
<1>1. Made' = Made
  BY FutsFall DEF Made
<1>2. \A f \in Made : fut'[f].waiter = fut[f].waiter /\ (fut'[f] = fut[f] \/ fut'[f].value = Failed)
  BY FutsFall
<1> QED
  BY <1>1, <1>2 DEF WaitersAreWoken

LEMMA WokenByGrowth ==
    ASSUME NEW h, Settled(h), WaitersAreWoken, NEW r \in FutRecord, r.waiter = None,
           fut' = Append(fut, r)
    PROVE  WaitersAreWoken'
<1> DEFINE n == Len(fut)
<1>1. fut \in Seq(FutRecord) /\ n \in Nat /\ Made = 1 .. n
  BY DEF Settled, Awaited, Made
<1>2. /\ Made' = 1 .. n + 1
      /\ \A i \in 1 .. n : fut'[i] = fut[i]
      /\ fut'[n + 1] = r
  BY <1>1, AppendProperties, LenProperties DEF Made
<1>3. ASSUME NEW f \in Made', fut'[f].done, fut'[f].waiter # None
      PROVE  fut'[f].value = Failed
  <2>1. f # n + 1
    BY <1>2, <1>3
  <2>2. f \in Made /\ fut'[f] = fut[f]
    BY <1>1, <1>2, <2>1
  <2> QED
    BY <1>3, <2>2 DEF WaitersAreWoken
<1> QED
  BY <1>3 DEF WaitersAreWoken

LEMMA WokenByChange ==
    ASSUME WaitersAreWoken, NEW f \in Made, Made' = Made,
           \A g \in Made \ {f} : fut'[g] = fut[g],
           ~fut'[f].done \/ fut'[f].waiter = None
    PROVE  WaitersAreWoken'
BY DEF WaitersAreWoken

LEMMA WokenStays ==
    ASSUME NEW h, Settled(h), WaitersAreWoken, [Next]_vars
    PROVE  WaitersAreWoken'
<1>0. fut' = fut => WaitersAreWoken'
  BY DEF WaitersAreWoken, Made
<1>1. Exit => WaitersAreWoken'
  BY DEF Exit, WaitersAreWoken, Made
<1>2. \A F : Fail(F) => WaitersAreWoken'
  BY <1>1, WokenByFall DEF Fail
<1>3. CASE UNCHANGED vars
  BY <1>0, <1>3 DEF vars
<1>4. ASSUME NEW w \in Task \cup {Main}, Body(w) PROVE WaitersAreWoken'
  <2>1. CASE fut' = Append(fut, NewFut) \/ fut' = Append(fut, [NewFut EXCEPT !.done = TRUE])
    BY <2>1, NewFutTyped, WokenByGrowth
  <2>2. CASE \E f \in Made : CancelTask(w, f)
    BY <1>2, <2>2 DEF CancelTask
  <2> QED
    BY <1>0, <1>4, <2>1, <2>2 DEF Body, Call, WaitReadable, Close, Sleep, Timeout, Await, AddToGroup,
           WaitGroup
<1>5. ASSUME NEW t \in Task, NEW f \in Made, NEW v, Finished(f, v) PROVE WaitersAreWoken'
  <2>1. /\ Made' = Made /\ \A g \in Made \ {f} : fut'[g] = fut[g]
        /\ fut'[f].waiter = None
    BY <1>5 DEF Finished, Made
  <2> QED
    BY <2>1, WokenByChange
<1>6. ASSUME NEW t \in Task, Leave(t) PROVE WaitersAreWoken'
  <2>1. Top.by = t
    BY <1>6 DEF Leave, Return, Ring, GuardFires, Runs
  <2>2. Fits(task[t], Made)
    BY <2>1, TopIsOnStack DEF Settled
  <2>3. CASE \E v \in Results : Return(t, v)
    BY <1>5, <2>2, <2>3 DEF Return, Fits
  <2>4. CASE Ring(t)
    BY <1>5, <2>2, <2>4 DEF Ring, Fits
  <2>5. CASE GuardFires(t)
    BY <1>1, <2>5, WokenByFall DEF GuardFires
  <2> QED
    BY <1>6, <2>3, <2>4, <2>5 DEF Leave
<1>7. ASSUME NEW t \in Task, NEW f \in Made, Suspend(t, f) PROVE WaitersAreWoken'
  <2>1. fut' = [fut EXCEPT ![f].waiter = t] /\ ~fut[f].done /\ fut[f] \in FutRecord
    BY <1>7 DEF Suspend, Pending, Settled, Awaited, Made
  <2>2. Made' = Made /\ \A g \in Made \ {f} : fut'[g] = fut[g]
    BY <2>1 DEF Made
  <2>3. fut'[f] = [fut[f] EXCEPT !.waiter = t]
    BY <2>1 DEF Made
  <2>4. ~fut'[f].done
    BY <2>1, <2>3 DEF FutRecord
  <2> QED
    BY <2>2, <2>4, WokenByChange
<1>8. CASE Loop
  <2>1. CASE Step
    BY <1>0, <2>1, WokenByFall DEF Step
  <2> QED
    BY <1>0, <1>1, <1>2, <1>8, <2>1 DEF Loop, DriveEnds, Stuck, SpreadFailure, Wait
<1>9. CASE End
  BY <1>1, <1>9 DEF End
<1>10. CASE Ends \/ WaitsForEver
  BY <1>0, <1>10 DEF Ends, WaitsForEver, vars
<1> QED
  BY <1>3, <1>4, <1>6, <1>7, <1>8, <1>9, <1>10 DEF Next

-----------------------------------------------------------------------------
(* The theorems. *)

\* A set with one element at most, as large as it is inhabited.
LEMMA OneAtMost ==
    ASSUME NEW A, \A x, y \in A : x = y
    PROVE  Cardinality(A) = IF A = {} THEN 0 ELSE 1
<1>1. CASE A = {}
  BY <1>1, FS_EmptySet
<1>2. CASE A # {}
  <2>1. PICK x \in A : A = {x}
    BY <1>2
  <2> QED
    BY <1>2, <2>1, FS_Singleton
<1> QED
  BY <1>1, <1>2

\* The places a task is in are the home it has.
LEMMA HomeIsThePlace ==
    ASSUME NEW h \in [Task -> Homes], Settled(h), NEW t \in Task
    PROVE  Places(t) = IF h[t] = "none" THEN 0 ELSE 1
<1> DEFINE q == {i \in DOMAIN queue : queue[i] = t}
           r == {i \in DOMAIN timers : timers[i].task = t}
           a == {s \in Fd : armed[s] = t}
           c == {i \in DOMAIN stack : stack[i].by = t}
           w == {f \in Made : fut[f].waiter = t}
<1>1. Cardinality(q) = IF h[t] = "queue" THEN 1 ELSE 0
  <2>1. (\A x, y \in q : x = y) /\ (q # {} <=> h[t] = "queue")
    BY DEF Settled, Queued
  <2> QED
    BY <2>1, OneAtMost
<1>2. Cardinality(r) = IF h[t] = "timer" THEN 1 ELSE 0
  <2>1. (\A x, y \in r : x = y) /\ (r # {} <=> h[t] = "timer")
    BY DEF Settled, Timed
  <2> QED
    BY <2>1, OneAtMost
<1>3. Cardinality(a) = IF h[t] = "socket" THEN 1 ELSE 0
  <2>1. (\A x, y \in a : x = y) /\ (a # {} <=> h[t] = "socket")
    BY TasksAssumption DEF Settled, Armed
  <2> QED
    BY <2>1, OneAtMost
<1>4. Cardinality(c) = IF h[t] = "stack" THEN 1 ELSE 0
  <2>1. (\A x, y \in c : x = y) /\ (c # {} <=> h[t] = "stack")
    BY DEF Settled, Stacked
  <2> QED
    BY <2>1, OneAtMost
<1>5. Cardinality(w) = IF h[t] = "future" THEN 1 ELSE 0
  <2>1. (\A x, y \in w : x = y) /\ (w # {} <=> h[t] = "future")
    BY TasksAssumption DEF Settled, Awaited
  <2> QED
    BY <2>1, OneAtMost
<1>6. Places(t) = Cardinality(q) + Cardinality(r) + Cardinality(a) + Cardinality(c) + Cardinality(w)
  BY DEF Places
<1> HIDE DEF q, r, a, c, w
<1>7. h[t] \in Homes
  OBVIOUS
<1> QED
  BY <1>1, <1>2, <1>3, <1>4, <1>5, <1>6, <1>7 DEF Homes

LEMMA HomeIsThePlaceNext ==
    ASSUME NEW h \in [Task -> Homes], NEW t \in Task
    PROVE  (Settled(h) => Places(t) = IF h[t] = "none" THEN 0 ELSE 1)'
<1>1. Settled(h) => Places(t) = IF h[t] = "none" THEN 0 ELSE 1
  BY HomeIsThePlace
<1> QED
  BY <1>1, PTL

LEMMA TaskInvStays ==
    ASSUME TaskInv, [Next]_vars
    PROVE  TaskInv'
<1>1. PICK h \in [Task -> Homes] : Settled(h)
  BY DEF TaskInv
<1>2. Moves(h)
  BY <1>1, EveryStepMoves DEF TaskInv
<1>3. \E home \in [Task -> Homes] : Settled(home)'
  BY <1>2 DEF Moves
<1>4. Bounded' /\ WaitersAreWoken'
  BY <1>1, BoundedStays, WokenStays DEF TaskInv
<1> QED
  BY <1>3, <1>4 DEF TaskInv

\* The inductive invariant: every task has a home, the one place that holds
\* it, and a future to complete; a waiter at a done future is cancelled.
THEOREM TaskInvHolds == Spec => []TaskInv
<1>1. Init => TaskInv
  <2> SUFFICES ASSUME Init PROVE TaskInv
    OBVIOUS
  <2>1. Bounded
    <3>1. 0 \in 0 .. MaxTime
      BY TasksAssumption
    <3> QED
      BY <3>1 DEF Init, Bounded
  <2>2. WaitersAreWoken
    BY DEF Init, WaitersAreWoken, Made
  <2> QED
    BY <2>1, <2>2, SettledAtFirst DEF TaskInv
<1>2. TaskInv /\ [Next]_vars => TaskInv'
  BY TaskInvStays
<1> QED
  BY <1>1, <1>2, PTL DEF Spec

\* The records of tasks, futures, timers and frames are well formed, and the
\* future a task names was made (struct EpTask, EpFuture, EpTimer).
THEOREM TasksAreTyped == Spec => []TypeOK
<1>1. TaskInv => TypeOK
  <2> SUFFICES ASSUME TaskInv PROVE TypeOK
    OBVIOUS
  <2>1. PICK h \in [Task -> Homes] : Settled(h)
    BY DEF TaskInv
  <2>2. sources \in Nat
    BY <2>1 DEF Settled, Armed
  <2> QED
    BY <2>1, <2>2 DEF TaskInv, TypeOK, Bounded, Settled, Queued, Timed, Armed, Stacked, Awaited, Alive
<1> QED
  BY <1>1, TaskInvHolds, PTL

\* No task is scheduled twice, and none after it is freed, whatever was
\* awaited, cancelled, timed out or waited for in groups meanwhile.
THEOREM EachTaskInOnePlace == Spec => []InOnePlace
<1>1. TaskInv => InOnePlace
  <2> SUFFICES ASSUME TaskInv, NEW t \in Task
               PROVE  Places(t) <= IF task[t] = None THEN 0 ELSE 1
    BY DEF InOnePlace
  <2>1. PICK h \in [Task -> Homes] : Settled(h)
    BY DEF TaskInv
  <2>2. Places(t) = IF h[t] = "none" THEN 0 ELSE 1
    BY <2>1, HomeIsThePlace
  <2>3. task[t] = None => h[t] = "none"
    BY <2>1, FreeIsHomeless DEF Settled
  <2> QED
    BY <2>2, <2>3
<1> QED
  BY <1>1, TaskInvHolds, PTL

\* Nobody waits at a future that was completed, except one that was cancelled
\* (Finished wakes the waiter; ep_cancel_task does not look for one).
THEOREM CompletionWakes == Spec => []WaitersAreWoken
<1>1. TaskInv => WaitersAreWoken
  BY DEF TaskInv
<1> QED
  BY <1>1, TaskInvHolds, PTL

\* A task leaves the scheduler without an end only where another one takes its
\* place, the one a future or a socket has for a waiter, or where the socket it
\* waits for is closed on this side (EpFuture.waiting_task, epoll_ctl, close).
THEOREM LostOnlyToOthers == Spec => OnlyOverwritten
<1> DEFINE Lost == \A t \in Task :
        task[t] # None /\ Places(t) = 1 /\ task'[t] # None /\ Places(t)' = 0 =>
            PlaceTaken(t)
<1>1. TaskInv /\ [Next]_vars => Lost
  <2> SUFFICES ASSUME TaskInv, [Next]_vars, NEW t \in Task,
                      Places(t) = 1, task'[t] # None, Places(t)' = 0
               PROVE  PlaceTaken(t)
    OBVIOUS
  <2>1. PICK h \in [Task -> Homes] : Settled(h)
    BY DEF TaskInv
  <2>2. PICK k \in [Task -> Homes] : Settled(k)' /\ Kept(h, k)
    BY <2>1, EveryStepMoves DEF TaskInv, Moves
  <2>3. h[t] # "none"
    BY <2>1, HomeIsThePlace
  <2>4. Places(t)' = IF k[t] = "none" THEN 0 ELSE 1
    BY <2>2, HomeIsThePlaceNext
  <2>5. k[t] = "none"
    BY <2>4
  <2> QED
    BY <2>2, <2>3, <2>5 DEF Kept
<1> QED
  BY <1>1, TaskInvHolds, PTL DEF Spec, OnlyOverwritten
=============================================================================
