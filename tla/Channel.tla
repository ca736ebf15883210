------------------------------ MODULE Channel -------------------------------
(***************************************************************************)
(* A channel of the Ernos runtime (toolchain/epc_bootstrap.c, EpChannel):  *)
(* a ring buffer under one mutex with two condition variables.             *)
(*                                                                         *)
(* A thread that finds the ring full (or empty) waits on a condition       *)
(* variable and gives the mutex up; a signal moves one waiting thread back *)
(* to the mutex, where it has to look again, because another thread may    *)
(* have been faster.  A wait may also end without a signal.  Everything    *)
(* from taking the mutex to giving it up again is one step.                *)
(***************************************************************************)
EXTENDS Naturals, Sequences, FiniteSets

CONSTANTS
    Senders, Receivers, \* the threads that call send_channel, receive_channel
    Values,             \* what is sent
    Capacity,           \* the size of the ring; 1024 in create_channel
    MaxSends            \* bound: how many values are sent

ASSUME ChannelAssumption ==
    /\ Capacity \in Nat \ {0} /\ MaxSends \in Nat
    /\ IsFiniteSet(Senders) /\ IsFiniteSet(Receivers)
    /\ Senders \cap Receivers = {}
    /\ 0 \notin Values

VARIABLES
    data,       \* the ring: slots 0 .. Capacity - 1
    head,       \* the slot of the next value to receive
    tail,       \* the slot of the next value to send
    size,       \* how many slots are taken
    at,         \* at[t]: "idle", "lock" (in a call, at the mutex) or "wait"
    carried,    \* carried[t]: the value a sender is to send
    received    \* history: the values received, in order

vars == <<data, head, tail, size, at, carried, received>>

Threads == Senders \cup Receivers
Slots == 0 .. Capacity - 1

TypeOK ==
    /\ data \in [Slots -> Values \cup {0}]
    /\ head \in Slots /\ tail \in Slots
    /\ size \in 0 .. Capacity
    /\ at \in [Threads -> {"idle", "lock", "wait"}]
    /\ carried \in [Senders -> Values \cup {0}]
    /\ received \in Seq(Values)

Init ==
    /\ data = [i \in Slots |-> 0]
    /\ head = 0 /\ tail = 0 /\ size = 0
    /\ at = [t \in Threads |-> "idle"]
    /\ carried = [t \in Senders |-> 0]
    /\ received = <<>>

-----------------------------------------------------------------------------
Sends == Len(received) + size + Cardinality({t \in Senders : at[t] # "idle"})

CallSend(t, v) ==
    /\ at[t] = "idle"
    /\ Sends < MaxSends
    /\ at' = [at EXCEPT ![t] = "lock"]
    /\ carried' = [carried EXCEPT ![t] = v]
    /\ UNCHANGED <<data, head, tail, size, received>>

CallReceive(t) ==
    /\ at[t] = "idle"
    /\ at' = [at EXCEPT ![t] = "lock"]
    /\ UNCHANGED <<data, head, tail, size, carried, received>>

\* ep_cond_wait: the thread waits, and the mutex is free again.
Wait(t) ==
    /\ at' = [at EXCEPT ![t] = "wait"]
    /\ UNCHANGED <<data, head, tail, size, carried, received>>

\* Thread t leaves its call and ep_cond_signal wakes one of "waiting", if any.
LeaveAndSignal(t, waiting) ==
    LET asleep == {w \in waiting : at[w] = "wait"} IN
    IF asleep = {} THEN at' = [at EXCEPT ![t] = "idle"]
    ELSE \E w \in asleep : at' = [at EXCEPT ![t] = "idle", ![w] = "lock"]

SendFull(t) == at[t] = "lock" /\ size >= Capacity /\ Wait(t)

Send(t) ==
    /\ at[t] = "lock"
    /\ size < Capacity
    /\ data' = [data EXCEPT ![tail] = carried[t]]
    /\ tail' = (tail + 1) % Capacity
    /\ size' = size + 1
    /\ LeaveAndSignal(t, Receivers)
    /\ carried' = [carried EXCEPT ![t] = 0]
    /\ UNCHANGED <<head, received>>

ReceiveEmpty(t) == at[t] = "lock" /\ size <= 0 /\ Wait(t)

\* Mutant: the receiver signals the wrong condition variable.
ReceiveSignalsReceivers(t) ==
    /\ at[t] = "lock"
    /\ size > 0
    /\ received' = Append(received, data[head])
    /\ head' = (head + 1) % Capacity
    /\ size' = size - 1
    /\ LeaveAndSignal(t, Receivers)
    /\ UNCHANGED <<data, tail, carried>>

\* Mutant: the head moves before the value is read.
ReceiveTooFar(t) ==
    /\ at[t] = "lock"
    /\ size > 0
    /\ received' = Append(received, data[(head + 1) % Capacity])
    /\ head' = (head + 1) % Capacity
    /\ size' = size - 1
    /\ LeaveAndSignal(t, Senders)
    /\ UNCHANGED <<data, tail, carried>>

Receive(t) ==
    /\ at[t] = "lock"
    /\ size > 0
    /\ received' = Append(received, data[head])
    /\ head' = (head + 1) % Capacity
    /\ size' = size - 1
    /\ LeaveAndSignal(t, Senders)
    /\ UNCHANGED <<data, tail, carried>>

\* channel_try_recv: the same under the mutex, but it never waits.
TryReceive(t) ==
    /\ at[t] = "idle"
    /\ size > 0
    /\ received' = Append(received, data[head])
    /\ head' = (head + 1) % Capacity
    /\ size' = size - 1
    /\ LeaveAndSignal(t, Senders)
    /\ UNCHANGED <<data, tail, carried>>

\* A wait that ends without a signal.
WakeUp(t) ==
    /\ at[t] = "wait"
    /\ at' = [at EXCEPT ![t] = "lock"]
    /\ UNCHANGED <<data, head, tail, size, carried, received>>

Next ==
    \/ \E t \in Senders : SendFull(t) \/ Send(t) \/ \E v \in Values : CallSend(t, v)
    \/ \E t \in Receivers : ReceiveEmpty(t) \/ Receive(t) \/ CallReceive(t) \/ TryReceive(t)
    \/ \E t \in Threads : WakeUp(t)

Spec == Init /\ [][Next]_vars

-----------------------------------------------------------------------------
(* Properties *)

\* The values in the ring, oldest first.
Queue == [i \in 1 .. size |-> data[(head + i - 1) % Capacity]]

\* The ring with its two condition variables is a first-in-first-out queue.
Abstract == INSTANCE Fifo WITH queue <- Queue
IsFifo == Abstract!Spec

\* No wake-up is lost: a receiver does not sleep on while there are values for
\* every receiver awake, nor a sender while there is room for every sender awake.
NoLostWakeUp ==
    /\ (\E t \in Receivers : at[t] = "wait") =>
           size <= Cardinality({t \in Receivers : at[t] = "lock"})
    /\ (\E t \in Senders : at[t] = "wait") =>
           Capacity - size <= Cardinality({t \in Senders : at[t] = "lock"})
=============================================================================
