--------------------------- MODULE ChannelProofs ---------------------------
(***************************************************************************)
(* Proofs about a channel, for every capacity, any finite sets of senders  *)
(* and receivers and any values.                                           *)
(***************************************************************************)
EXTENDS Channel, FiniteSetTheorems, TLAPS

-----------------------------------------------------------------------------
(* The ring. *)

\* Less than twice around, the remainder is the number or what is left of it.
LEMMA Around ==
    ASSUME NEW x \in Nat, x < 2 * Capacity
    PROVE  x % Capacity = IF x < Capacity THEN x ELSE x - Capacity
<1>1. Capacity \in Nat /\ Capacity > 0
  BY ChannelAssumption
<1>2. CASE x < Capacity
  BY <1>1, <1>2
<1>3. CASE x >= Capacity
  <2>1. x = 1 * Capacity + (x - Capacity) /\ x - Capacity \in 0 .. Capacity - 1
    BY <1>1, <1>3
  <2> QED
    BY <1>1, <1>3, <2>1
<1> QED
  BY <1>2, <1>3, <1>1

\* The i-th of the slots that are taken, counted from 0.
Slot(i) == (head + i) % Capacity

\* Where the slots lie.
LEMMA SlotsLie ==
    ASSUME head \in Slots, NEW i \in 0 .. Capacity
    PROVE  /\ Slot(i) = IF head + i < Capacity THEN head + i ELSE head + i - Capacity
           /\ Slot(i) \in Slots
<1>1. Capacity \in Nat \ {0} /\ head \in 0 .. Capacity - 1
  BY ChannelAssumption DEF Slots
<1>2. head + i \in Nat /\ head + i < 2 * Capacity
  BY <1>1
<1>3. Slot(i) = IF head + i < Capacity THEN head + i ELSE head + i - Capacity
  <2> DEFINE x == head + i
  <2>1. x % Capacity = IF x < Capacity THEN x ELSE x - Capacity
    <3> HIDE DEF x
    <3> SUFFICES ASSUME x \in Nat, x < 2 * Capacity
                 PROVE  x % Capacity = IF x < Capacity THEN x ELSE x - Capacity
      BY <1>2 DEF x
    <3> QED
      BY Around
  <2> QED
    BY <1>1, <1>2, <2>1 DEF Slot
<1> QED
  BY <1>1, <1>3 DEF Slots

\* Fewer than a ring of slots are all different.
LEMMA SlotsDiffer ==
    ASSUME head \in Slots, NEW i \in 0 .. Capacity - 1, NEW j \in 0 .. Capacity - 1, i # j
    PROVE  Slot(i) # Slot(j)
<1>1. Capacity \in Nat \ {0} /\ head \in 0 .. Capacity - 1
  BY ChannelAssumption DEF Slots
<1>2. i \in 0 .. Capacity /\ j \in 0 .. Capacity
  BY <1>1
<1> QED
  BY <1>1, <1>2, SlotsLie

\* Going one slot on.
LEMMA NextSlot ==
    ASSUME head \in Slots, NEW i \in 0 .. Capacity - 1
    PROVE  /\ (Slot(i) + 1) % Capacity = Slot(i + 1)
           /\ head' = (head + 1) % Capacity => head' \in Slots /\ Slot(i)' = Slot(i + 1)
<1>1. Capacity \in Nat \ {0} /\ head \in 0 .. Capacity - 1
  BY ChannelAssumption DEF Slots
<1>2. i \in 0 .. Capacity /\ i + 1 \in 0 .. Capacity /\ 1 \in 0 .. Capacity
  BY <1>1
<1>3. /\ Slot(i) = IF head + i < Capacity THEN head + i ELSE head + i - Capacity
      /\ Slot(i + 1) = IF head + i + 1 < Capacity THEN head + i + 1 ELSE head + i + 1 - Capacity
      /\ Slot(1) = IF head + 1 < Capacity THEN head + 1 ELSE head + 1 - Capacity
  BY <1>1, <1>2, SlotsLie
<1>4. (Slot(i) + 1) % Capacity = Slot(i + 1)
  <2>1. Slot(i) \in 0 .. Capacity - 1
    BY <1>1, <1>3
  <2>2. (Slot(i) + 1) % Capacity =
          IF Slot(i) + 1 < Capacity THEN Slot(i) + 1 ELSE Slot(i) + 1 - Capacity
    BY <1>1, <2>1, Around
  <2> QED
    BY <1>1, <1>3, <2>2
<1>5. ASSUME head' = (head + 1) % Capacity
      PROVE  head' \in Slots /\ Slot(i)' = Slot(i + 1)
  <2>1. head' = IF head + 1 < Capacity THEN head + 1 ELSE head + 1 - Capacity
    BY <1>3, <1>5 DEF Slot
  <2>2. head' \in Slots
    BY <1>1, <2>1 DEF Slots
  <2>3. Slot(i)' = IF head' + i < Capacity THEN head' + i ELSE head' + i - Capacity
    <3>1. head' + i \in Nat /\ head' + i < 2 * Capacity
      BY <1>1, <2>1
    <3>2. Slot(i)' = (head' + i) % Capacity
      BY DEF Slot
    <3> DEFINE x == head' + i
    <3>3. x % Capacity = IF x < Capacity THEN x ELSE x - Capacity
      <4> HIDE DEF x
      <4> SUFFICES ASSUME x \in Nat, x < 2 * Capacity
                   PROVE  x % Capacity = IF x < Capacity THEN x ELSE x - Capacity
        BY <3>1 DEF x
      <4> QED
        BY Around
    <3> QED
      BY <1>1, <2>1, <3>1, <3>2, <3>3
  <2> QED
    BY <1>1, <1>3, <2>1, <2>2, <2>3
<1> QED
  BY <1>4, <1>5

-----------------------------------------------------------------------------
\* The tail is where the taken slots end, what they hold was sent, and a
\* thread in a call carries a value.
RingInStep ==
    /\ tail = Slot(size)
    /\ \A i \in 0 .. size - 1 : data[Slot(i)] \in Values
    /\ \A t \in Senders : at[t] # "idle" => carried[t] \in Values

IInv == TypeOK /\ RingInStep

\* The values in the ring, by slot.
LEMMA QueueBySlot ==
    ASSUME IInv
    PROVE  /\ Queue = [i \in 1 .. size |-> data[Slot(i - 1)]]
           /\ Queue \in Seq(Values) /\ Len(Queue) = size
           /\ size \in Nat /\ size <= Capacity /\ Capacity \in Nat \ {0}
           /\ head \in Slots /\ tail \in Slots
           /\ data \in [Slots -> Values \cup {0}] /\ received \in Seq(Values)
<1>1. /\ Capacity \in Nat \ {0} /\ size \in 0 .. Capacity /\ head \in 0 .. Capacity - 1
      /\ head \in Slots /\ tail \in Slots
      /\ data \in [Slots -> Values \cup {0}] /\ received \in Seq(Values)
  BY ChannelAssumption DEF IInv, TypeOK, Slots
<1>2. \A i \in 1 .. size : (head + i - 1) % Capacity = Slot(i - 1)
  <2> TAKE i \in 1 .. size
  <2>1. head + i - 1 = head + (i - 1)
    BY <1>1
  <2> QED
    BY <2>1 DEF Slot
<1>3. Queue = [i \in 1 .. size |-> data[Slot(i - 1)]]
  BY <1>2 DEF Queue
<1>4. \A i \in 1 .. size : data[Slot(i - 1)] \in Values
  BY <1>1 DEF IInv, RingInStep
<1>5. Queue \in [1 .. size -> Values]
  BY <1>3, <1>4
<1>6. Queue \in Seq(Values) /\ Len(Queue) = size
  BY <1>1, <1>5
<1> QED
  BY <1>1, <1>3, <1>6

-----------------------------------------------------------------------------
\* A thread that leaves its call and wakes at most one of "waiting".
LEMMA LeavingKeepsTypes ==
    ASSUME TypeOK, NEW t \in Threads, NEW W \in SUBSET Threads, LeaveAndSignal(t, W)
    PROVE  /\ at' \in [Threads -> {"idle", "lock", "wait"}]
           /\ \A u \in Threads \ {t} : at[u] = "idle" => at'[u] = "idle"
           /\ t \notin W => at'[t] = "idle"
BY DEF LeaveAndSignal, TypeOK

\* An empty ring is in step.
LEMMA InitIInv == Init => IInv
<1> SUFFICES ASSUME Init PROVE IInv
  OBVIOUS
<1>1. Capacity \in Nat \ {0} /\ head = 0 /\ tail = 0 /\ size = 0
  BY ChannelAssumption DEF Init
<1>2. 0 \in Slots /\ 0 \in 0 .. Capacity
  BY <1>1 DEF Slots
<1>3. Slot(0) = 0
  BY <1>1, <1>2, SlotsLie
<1>4. TypeOK
  BY <1>1, <1>2 DEF Init, TypeOK, Slots
<1> QED
  BY <1>1, <1>3, <1>4 DEF IInv, RingInStep, Init, Threads

\* A send puts its value behind the taken slots.
LEMMA SendStep ==
    ASSUME IInv, NEW t \in Senders, Send(t)
    PROVE  IInv' /\ Abstract!Send(carried[t])
<1>1. /\ Queue = [i \in 1 .. size |-> data[Slot(i - 1)]]
      /\ Queue \in Seq(Values) /\ Len(Queue) = size
      /\ size \in Nat /\ size <= Capacity /\ Capacity \in Nat \ {0}
      /\ head \in Slots /\ tail \in Slots
      /\ data \in [Slots -> Values \cup {0}] /\ received \in Seq(Values)
  BY QueueBySlot
<1>2. /\ size < Capacity /\ size' = size + 1 /\ head' = head /\ received' = received
      /\ tail' = (tail + 1) % Capacity /\ data' = [data EXCEPT ![tail] = carried[t]]
      /\ carried' = [carried EXCEPT ![t] = 0]
      /\ carried[t] \in Values
  BY DEF Send, IInv, RingInStep
<1>3. tail = Slot(size) /\ \A i \in 0 .. size - 1 : Slot(i) # tail
  <2>1. tail = Slot(size)
    BY DEF IInv, RingInStep
  <2> SUFFICES ASSUME NEW i \in 0 .. size - 1 PROVE Slot(i) # Slot(size)
    BY <2>1
  <2> QED
    BY <1>1, <1>2, SlotsDiffer
<1>4. \A i : Slot(i)' = Slot(i)
  BY <1>2 DEF Slot
<1>5. \A i \in 0 .. size : Slot(i) \in Slots
  BY <1>1, SlotsLie
<1>6. \A i \in 0 .. size : data'[Slot(i)] = IF i = size THEN carried[t] ELSE data[Slot(i)]
  BY <1>1, <1>2, <1>3, <1>5
<1>8. TypeOK'
  <2>1. at' \in [Threads -> {"idle", "lock", "wait"}]
    BY LeavingKeepsTypes DEF Send, IInv, Threads
  <2>2. tail' \in Slots
    BY <1>1, <1>2, <1>3, NextSlot, SlotsLie
  <2>3. carried' \in [Senders -> Values \cup {0}]
    BY <1>2 DEF IInv, TypeOK
  <2>4. data' \in [Slots -> Values \cup {0}]
    BY <1>1, <1>2
  <2>5. size' \in 0 .. Capacity
    BY <1>1, <1>2
  <2> QED
    BY <1>1, <1>2, <2>1, <2>2, <2>3, <2>4, <2>5 DEF TypeOK
<1>9. RingInStep'
  <2>1. tail' = Slot(size)'
    <3>1. tail' = Slot(size + 1)
      BY <1>1, <1>2, <1>3, NextSlot
    <3> QED
      BY <1>2, <3>1 DEF Slot
  <2>2. \A i \in 0 .. size' - 1 : data'[Slot(i)'] \in Values
    <3>1. \A i \in 0 .. size - 1 : data[Slot(i)] \in Values
      BY DEF IInv, RingInStep
    <3> TAKE i \in 0 .. size' - 1
    <3>2. i \in 0 .. size
      BY <1>1, <1>2
    <3>3. data'[Slot(i)'] = data'[Slot(i)]
      BY <1>4
    <3>4. CASE i = size
      BY <1>2, <1>6, <3>2, <3>3, <3>4
    <3>5. CASE i # size
      <4>1. i \in 0 .. size - 1
        BY <1>1, <3>2, <3>5
      <4> QED
        BY <1>6, <3>1, <3>2, <3>3, <3>5, <4>1
    <3> QED
      BY <3>4, <3>5
  <2>3. \A u \in Senders : at'[u] # "idle" => carried'[u] \in Values
    <3> SUFFICES ASSUME NEW u \in Senders, at'[u] # "idle" PROVE carried'[u] \in Values
      OBVIOUS
    <3>1. t \notin Receivers
      BY ChannelAssumption
    <3>2. u # t /\ at[u] # "idle"
      BY <3>1, LeavingKeepsTypes DEF Send, IInv, Threads
    <3> QED
      BY <1>2, <3>2 DEF IInv, RingInStep, TypeOK
  <2> QED
    BY <2>1, <2>2, <2>3 DEF RingInStep
<1>10. Queue' = Append(Queue, carried[t])
  <2>1. Queue' = [i \in 1 .. size' |-> data'[Slot(i - 1)']]
    <3>1. head' \in Nat /\ size' \in Nat
      BY <1>1, <1>2 DEF Slots
    <3>2. \A i \in 1 .. size' : (head' + i - 1) % Capacity = Slot(i - 1)'
      <4> TAKE i \in 1 .. size'
      <4>1. head' + i - 1 = head' + (i - 1)
        BY <3>1
      <4> QED
        BY <4>1 DEF Slot
    <3> QED
      BY <3>2 DEF Queue
  <2>2. Queue' = [i \in 1 .. size + 1 |-> IF i = size + 1 THEN carried[t] ELSE data[Slot(i - 1)]]
    BY <1>1, <1>2, <1>4, <1>6, <2>1
  <2> QED
    BY <1>1, <1>2, <2>2
<1> QED
  BY <1>1, <1>2, <1>8, <1>9, <1>10 DEF IInv, Abstract!Send

\* A receive takes the value of the first taken slot.
LEMMA ReceiveStep ==
    ASSUME IInv, NEW t \in Receivers, Receive(t) \/ TryReceive(t)
    PROVE  IInv' /\ Abstract!Receive
<1>1. /\ Queue = [i \in 1 .. size |-> data[Slot(i - 1)]]
      /\ Queue \in Seq(Values) /\ Len(Queue) = size
      /\ size \in Nat /\ size <= Capacity /\ Capacity \in Nat \ {0}
      /\ head \in Slots /\ tail \in Slots
      /\ data \in [Slots -> Values \cup {0}] /\ received \in Seq(Values)
  BY QueueBySlot
<1>2. /\ size > 0 /\ size' = size - 1 /\ head' = (head + 1) % Capacity
      /\ received' = Append(received, data[head])
      /\ tail' = tail /\ data' = data /\ carried' = carried
      /\ LeaveAndSignal(t, Senders)
  BY DEF Receive, TryReceive
<1>3. head = Slot(0) /\ data[head] \in Values
  <2>1. Slot(0) = head
    BY <1>1, ChannelAssumption, SlotsLie DEF Slots
  <2> QED
    BY <1>1, <1>2, <2>1 DEF IInv, RingInStep
<1>4. head' \in Slots /\ \A i \in 0 .. Capacity - 1 : Slot(i)' = Slot(i + 1)
  BY <1>1, <1>2, NextSlot
<1>5. TypeOK'
  <2>1. at' \in [Threads -> {"idle", "lock", "wait"}]
    BY <1>2, LeavingKeepsTypes DEF IInv, Threads
  <2>2. received' \in Seq(Values) /\ size' \in 0 .. Capacity
    BY <1>1, <1>2, <1>3
  <2> QED
    BY <1>1, <1>2, <1>4, <2>1, <2>2 DEF TypeOK, IInv
<1>6. RingInStep'
  <2>1. tail' = Slot(size)'
    <3>1. tail' = Slot(size - 1 + 1)
      BY <1>1, <1>2 DEF IInv, RingInStep
    <3>2. \A i \in 0 .. Capacity - 1 : (head' + i) % Capacity = Slot(i + 1)
      BY <1>4 DEF Slot
    <3>3. (head' + (size - 1)) % Capacity = Slot(size - 1 + 1)
      BY <1>1, <1>2, <3>2
    <3> QED
      BY <1>2, <3>1, <3>3 DEF Slot
  <2>2. \A i \in 0 .. size' - 1 : data'[Slot(i)'] \in Values
    <3>1. \A i \in 0 .. size - 1 : data[Slot(i)] \in Values
      BY DEF IInv, RingInStep
    <3> TAKE i \in 0 .. size' - 1
    <3>2. i \in 0 .. Capacity - 1 /\ i + 1 \in 0 .. size - 1
      BY <1>1, <1>2
    <3>3. Slot(i)' = Slot(i + 1)
      BY <1>4, <3>2
    <3> QED
      BY <1>2, <3>1, <3>2, <3>3
  <2>3. \A u \in Senders : at'[u] # "idle" => carried'[u] \in Values
    <3> SUFFICES ASSUME NEW u \in Senders, at'[u] # "idle" PROVE carried'[u] \in Values
      OBVIOUS
    <3>1. u # t
      BY ChannelAssumption
    <3>2. at[u] # "idle"
      BY <1>2, <3>1, LeavingKeepsTypes DEF IInv, Threads
    <3> QED
      BY <1>2, <3>2 DEF IInv, RingInStep
  <2> QED
    BY <2>1, <2>2, <2>3 DEF RingInStep
<1>7. Queue' = Tail(Queue) /\ data[head] = Head(Queue) /\ Queue # <<>>
  <2>1. Queue' = [i \in 1 .. size' |-> data'[Slot(i - 1)']]
    <3>1. head' \in Nat /\ size' \in Nat
      BY <1>1, <1>2, <1>4 DEF Slots
    <3>2. \A i \in 1 .. size' : (head' + i - 1) % Capacity = Slot(i - 1)'
      <4> TAKE i \in 1 .. size'
      <4>1. head' + i - 1 = head' + (i - 1)
        BY <3>1
      <4> QED
        BY <4>1 DEF Slot
    <3> QED
      BY <3>2 DEF Queue
  <2>2. Queue' = [i \in 1 .. size - 1 |-> data[Slot(i)]]
    BY <1>1, <1>2, <1>4, <2>1
  <2>3. Tail(Queue) = [i \in 1 .. size - 1 |-> data[Slot(i)]]
    BY <1>1, <1>2
  <2>4. Queue # <<>> /\ Head(Queue) = Queue[1]
    <3>1. Queue \in Seq(Values) /\ Len(Queue) # 0
      BY <1>1, <1>2
    <3> QED
      BY <3>1
  <2>5. Queue[1] = data[Slot(0)]
    BY <1>1, <1>2
  <2> QED
    BY <1>3, <2>2, <2>3, <2>4, <2>5
<1> QED
  BY <1>2, <1>5, <1>6, <1>7 DEF IInv, Abstract!Receive

\* Calling, waiting and waking touch no slot.
LEMMA OtherStep ==
    ASSUME IInv,
           \/ \E t \in Senders : SendFull(t) \/ \E v \in Values : CallSend(t, v)
           \/ \E t \in Receivers : ReceiveEmpty(t) \/ CallReceive(t)
           \/ \E t \in Threads : WakeUp(t)
           \/ UNCHANGED vars
    PROVE  IInv' /\ UNCHANGED <<Queue, received>>
<1>1. UNCHANGED <<data, head, tail, size, received>>
  BY DEF SendFull, CallSend, ReceiveEmpty, CallReceive, WakeUp, Wait, vars
<1>2. /\ at' \in [Threads -> {"idle", "lock", "wait"}]
      /\ carried' \in [Senders -> Values \cup {0}]
  BY DEF SendFull, CallSend, ReceiveEmpty, CallReceive, WakeUp, Wait, vars, IInv, TypeOK, Threads
<1>3. \A u \in Senders : at'[u] # "idle" => carried'[u] \in Values
  BY ChannelAssumption
     DEF SendFull, CallSend, ReceiveEmpty, CallReceive, WakeUp, Wait, vars, IInv, TypeOK,
         RingInStep, Threads
<1>4. TypeOK'
  BY <1>1, <1>2 DEF IInv, TypeOK
<1>5. RingInStep'
  BY <1>1, <1>3 DEF IInv, RingInStep, Slot
<1> QED
  BY <1>1, <1>4, <1>5 DEF IInv, Queue

\* Every step keeps the invariant and is one of the queue or a stutter.
LEMMA StepIsFifo == IInv /\ [Next]_vars => IInv' /\ [Abstract!Next]_Abstract!vars
<1> SUFFICES ASSUME IInv, [Next]_vars PROVE IInv' /\ [Abstract!Next]_Abstract!vars
  OBVIOUS
<1>1. ASSUME NEW t \in Senders, Send(t)
      PROVE  IInv' /\ [Abstract!Next]_Abstract!vars
  <2>1. carried[t] \in Values
    BY <1>1 DEF Send, IInv, RingInStep
  <2> QED
    BY <1>1, <2>1, SendStep DEF Abstract!Next
<1>2. ASSUME NEW t \in Receivers, Receive(t) \/ TryReceive(t)
      PROVE  IInv' /\ [Abstract!Next]_Abstract!vars
  BY <1>2, ReceiveStep DEF Abstract!Next
<1>3. CASE \/ \E t \in Senders : SendFull(t) \/ \E v \in Values : CallSend(t, v)
           \/ \E t \in Receivers : ReceiveEmpty(t) \/ CallReceive(t)
           \/ \E t \in Threads : WakeUp(t)
           \/ UNCHANGED vars
  BY <1>3, OtherStep DEF Abstract!vars
<1> QED
  BY <1>1, <1>2, <1>3 DEF Next

\* The ring keeps its types, whatever is sent and received.
THEOREM TypeCorrect == Spec => []TypeOK
<1>1. IInv => TypeOK
  BY DEF IInv
<1> QED
  BY <1>1, InitIInv, StepIsFifo, PTL DEF Spec

\* The ring with its two condition variables is a first-in-first-out queue:
\* head, tail and size wrap around independently and always describe the
\* values that were sent and not received, in order.
THEOREM ChannelImplementsFifo == Spec => IsFifo
<1>1. Init => Abstract!Init
  BY DEF Init, Abstract!Init, Queue
<1> QED
  BY <1>1, InitIInv, StepIsFifo, PTL DEF Spec, IsFifo, Abstract!Spec

-----------------------------------------------------------------------------
(* No wake-up is lost. *)

Awake(S)  == {t \in S : at[t] = "lock"}
Asleep(S) == {t \in S : at[t] = "wait"}

\* One side of NoLostWakeUp: if one of S sleeps, n is no more than what those
\* of S who are awake will take.
Enough(S, n) == Asleep(S) # {} => n <= Cardinality(Awake(S))

LEMMA NoLostWakeUpBySide ==
    NoLostWakeUp <=> Enough(Receivers, size) /\ Enough(Senders, Capacity - size)
BY DEF NoLostWakeUp, Enough, Awake, Asleep

\* The numbers of those awake are numbers.
LEMMA AwakeIsFinite ==
    ASSUME NEW S \in {Senders, Receivers}
    PROVE  IsFiniteSet(Awake(S)) /\ Cardinality(Awake(S)) \in Nat
<1>1. IsFiniteSet(S) /\ Awake(S) \in SUBSET S
  BY ChannelAssumption DEF Awake
<1> QED
  BY <1>1, FS_Subset, FS_CardinalityType

\* One value more for S, by a thread of the other side, wakes one of S.
LEMMA OneMore ==
    ASSUME TypeOK, NEW S \in {Senders, Receivers}, NEW t \in Threads \ S, NEW n \in Int,
           Enough(S, n), LeaveAndSignal(t, S)
    PROVE  Enough(S, n + 1)'
<1>1. CASE Asleep(S) = {}
  <2>1. at' = [at EXCEPT ![t] = "idle"]
    BY <1>1 DEF LeaveAndSignal, Asleep
  <2>2. Asleep(S)' = {}
    BY <1>1, <2>1 DEF Asleep, TypeOK, Threads
  <2> QED
    BY <2>2 DEF Enough
<1>2. CASE Asleep(S) # {}
  <2>1. PICK w \in Asleep(S) : at' = [at EXCEPT ![t] = "idle", ![w] = "lock"]
    BY <1>2 DEF LeaveAndSignal, Asleep
  <2>2. Awake(S)' = Awake(S) \cup {w} /\ w \notin Awake(S)
    BY <2>1 DEF Awake, Asleep, TypeOK, Threads
  <2>3. Cardinality(Awake(S)') = Cardinality(Awake(S)) + 1
    BY <2>2, AwakeIsFinite, FS_AddElement
  <2> QED
    BY <1>2, <2>3, AwakeIsFinite DEF Enough
<1> QED
  BY <1>1, <1>2

\* A thread of S that takes one leaves one fewer awake.
LEMMA OneTaken ==
    ASSUME TypeOK, NEW S \in {Senders, Receivers}, NEW t \in S, NEW n \in Int,
           at[t] = "lock", Enough(S, n),
           NEW W \in SUBSET (Threads \ S), LeaveAndSignal(t, W)
    PROVE  Enough(S, n - 1)'
<1>1. Awake(S)' = Awake(S) \ {t} /\ t \in Awake(S) /\ Asleep(S)' = Asleep(S)
  BY DEF LeaveAndSignal, Awake, Asleep, TypeOK, Threads
<1>2. Cardinality(Awake(S)') = Cardinality(Awake(S)) - 1
  BY <1>1, AwakeIsFinite, FS_RemoveElement
<1> QED
  BY <1>1, <1>2, AwakeIsFinite DEF Enough

\* Whoever finds one without having waited takes it from those who sleep, but
\* not from more of them than are left with something to wait for.
LEMMA OneTakenAway ==
    ASSUME TypeOK, NEW S \in {Senders, Receivers}, NEW t \in S, NEW n \in Int,
           at[t] = "idle", Enough(S, n),
           NEW W \in SUBSET (Threads \ S), LeaveAndSignal(t, W)
    PROVE  Enough(S, n - 1)'
<1>1. Awake(S)' = Awake(S) /\ Asleep(S)' = Asleep(S)
  BY DEF LeaveAndSignal, Awake, Asleep, TypeOK, Threads
<1> QED
  BY <1>1, AwakeIsFinite DEF Enough

\* A call that begins, or a wait that ends, leaves more awake.
LEMMA OneAwake ==
    ASSUME TypeOK, NEW S \in {Senders, Receivers}, NEW t \in Threads, NEW n \in Int,
           at[t] # "lock", at' = [at EXCEPT ![t] = "lock"], Enough(S, n)
    PROVE  Enough(S, n)'
<1>1. /\ Awake(S)' = IF t \in S THEN Awake(S) \cup {t} ELSE Awake(S)
      /\ Asleep(S)' \subseteq Asleep(S) /\ t \notin Awake(S)
  BY DEF Awake, Asleep, TypeOK, Threads
<1>2. Cardinality(Awake(S)') >= Cardinality(Awake(S)) /\ Cardinality(Awake(S)') \in Nat
  <2>1. IsFiniteSet(Awake(S)) /\ Cardinality(Awake(S)) \in Nat
    BY AwakeIsFinite
  <2>2. Cardinality(Awake(S) \cup {t}) = Cardinality(Awake(S)) + 1
    BY <1>1, <2>1, FS_AddElement
  <2> QED
    BY <1>1, <2>1, <2>2
<1> QED
  BY <1>1, <1>2, AwakeIsFinite DEF Enough

\* A thread lies down only when there is nothing for it.
LEMMA OneAsleep ==
    ASSUME TypeOK, NEW S \in {Senders, Receivers}, NEW t \in Threads, NEW n \in Int,
           at' = [at EXCEPT ![t] = "wait"], t \in S => n <= 0, Enough(S, n)
    PROVE  Enough(S, n)'
<1>1. CASE t \in S
  <2>1. Awake(S)' \in SUBSET Awake(S)
    BY DEF Awake, TypeOK, Threads
  <2>2. Cardinality(Awake(S)') \in Nat
    BY <2>1, AwakeIsFinite, FS_Subset, FS_CardinalityType
  <2> QED
    BY <1>1, <2>2 DEF Enough
<1>2. CASE t \notin S
  <2>1. Awake(S)' = Awake(S) /\ Asleep(S)' = Asleep(S)
    BY <1>2 DEF Awake, Asleep, TypeOK, Threads
  <2> QED
    BY <2>1 DEF Enough
<1> QED
  BY <1>1, <1>2

\* Every step keeps both sides.
LEMMA StepLosesNone ==
    ASSUME IInv, IInv', NoLostWakeUp, [Next]_vars
    PROVE  NoLostWakeUp'
<1> PICK n \in Int, m \in Int : n = size /\ m = Capacity - size
  BY ChannelAssumption DEF IInv, TypeOK
<1>1. /\ TypeOK /\ Enough(Receivers, n) /\ Enough(Senders, m)
      /\ Senders = Threads \ Receivers /\ Receivers = Threads \ Senders
  BY ChannelAssumption, NoLostWakeUpBySide DEF IInv, Threads
<1>2. ASSUME Enough(Receivers, n)', Enough(Senders, m)', size' = size
      PROVE  NoLostWakeUp'
  BY <1>2 DEF NoLostWakeUp, Enough, Awake, Asleep
<1>3. ASSUME NEW t \in Senders, Send(t)
      PROVE  NoLostWakeUp'
  <2>1. size' = n + 1 /\ Capacity - size' = m - 1 /\ at[t] = "lock" /\ LeaveAndSignal(t, Receivers)
    BY ChannelAssumption, <1>3 DEF Send, IInv, TypeOK
  <2>2. Enough(Receivers, n + 1)'
    BY <1>1, <1>3, <2>1, OneMore
  <2>3. Enough(Senders, m - 1)'
    BY <1>1, <1>3, <2>1, OneTaken
  <2> QED
    BY <2>1, <2>2, <2>3 DEF NoLostWakeUp, Enough, Awake, Asleep
<1>4. ASSUME NEW t \in Receivers, Receive(t) \/ TryReceive(t)
      PROVE  NoLostWakeUp'
  <2>0. size' = size - 1 /\ at[t] \in {"lock", "idle"} /\ LeaveAndSignal(t, Senders)
    BY <1>4 DEF Receive, TryReceive
  <2>1. size' = n - 1 /\ Capacity - size' = m + 1
    BY ChannelAssumption, <2>0 DEF IInv, TypeOK
  <2>2. Enough(Senders, m + 1)'
    BY <1>1, <1>4, <2>0, OneMore
  <2>3. Enough(Receivers, n - 1)'
    BY <1>1, <1>4, <2>0, OneTaken, OneTakenAway
  <2> QED
    BY <2>1, <2>2, <2>3 DEF NoLostWakeUp, Enough, Awake, Asleep
<1>5. ASSUME NEW t \in Threads, at[t] # "lock", at' = [at EXCEPT ![t] = "lock"], size' = size
      PROVE  NoLostWakeUp'
  BY <1>1, <1>2, <1>5, OneAwake
<1>6. ASSUME NEW t \in Threads,
             \/ SendFull(t) /\ t \in Senders
             \/ ReceiveEmpty(t) /\ t \in Receivers
      PROVE  NoLostWakeUp'
  <2>1. size' = size /\ at' = [at EXCEPT ![t] = "wait"]
    BY <1>6 DEF SendFull, ReceiveEmpty, Wait
  <2>2. (t \in Receivers => n <= 0) /\ (t \in Senders => m <= 0)
    BY ChannelAssumption, <1>1, <1>6 DEF SendFull, ReceiveEmpty, IInv, TypeOK
  <2>3. Enough(Receivers, n)' /\ Enough(Senders, m)'
    BY <1>1, <2>1, <2>2, OneAsleep
  <2> QED
    BY <1>2, <2>1, <2>3
<1>7. CASE UNCHANGED vars
  BY <1>7 DEF NoLostWakeUp, vars
<1>8. ASSUME NEW t \in Senders, NEW v \in Values, CallSend(t, v)
      PROVE  NoLostWakeUp'
  <2>1. t \in Threads /\ at[t] # "lock" /\ at' = [at EXCEPT ![t] = "lock"] /\ size' = size
    BY <1>8 DEF CallSend, Threads
  <2> QED
    BY <1>5, <2>1
<1>9. ASSUME NEW t \in Receivers, CallReceive(t)
      PROVE  NoLostWakeUp'
  <2>1. t \in Threads /\ at[t] # "lock" /\ at' = [at EXCEPT ![t] = "lock"] /\ size' = size
    BY <1>9 DEF CallReceive, Threads
  <2> QED
    BY <1>5, <2>1
<1>10. ASSUME NEW t \in Threads, WakeUp(t)
       PROVE  NoLostWakeUp'
  <2>1. at[t] # "lock" /\ at' = [at EXCEPT ![t] = "lock"] /\ size' = size
    BY <1>10 DEF WakeUp
  <2> QED
    BY <1>5, <2>1
<1>11. ASSUME Next PROVE NoLostWakeUp'
  <2>1. Senders \subseteq Threads /\ Receivers \subseteq Threads
    BY DEF Threads
  <2>2. CASE \E t \in Senders : SendFull(t) \/ Send(t) \/ \E v \in Values : CallSend(t, v)
    BY <1>3, <1>6, <1>8, <2>1, <2>2
  <2>3. CASE \E t \in Receivers : ReceiveEmpty(t) \/ Receive(t) \/ CallReceive(t) \/ TryReceive(t)
    BY <1>4, <1>6, <1>9, <2>1, <2>3
  <2>4. CASE \E t \in Threads : WakeUp(t)
    BY <1>10, <2>4
  <2> QED
    BY <1>11, <2>2, <2>3, <2>4 DEF Next
<1> QED
  BY <1>7, <1>11

\* No wake-up is lost: one signal per transfer is enough, although a woken
\* thread may be overtaken, a wait may end by itself, and channel_try_recv
\* takes what others wait for.
THEOREM NoWakeUpIsLost == Spec => []NoLostWakeUp
<1>1. Init => NoLostWakeUp
  BY DEF Init, NoLostWakeUp, Threads
<1>2. IInv /\ NoLostWakeUp /\ [Next]_vars => (IInv /\ NoLostWakeUp)'
  BY StepIsFifo, StepLosesNone
<1> QED
  BY <1>1, <1>2, InitIInv, PTL DEF Spec
=============================================================================
