---------------------------- MODULE MemoryProofs ----------------------------
(***************************************************************************)
(* Proofs about the memory of a program: the collected heap, for any       *)
(* number of addresses, threads, channels and tasks and any limits, when   *)
(* no enum variant is allocated; stopping the world, for any finite set of *)
(* threads; and the allocator of the bare machine, for arenas and widths   *)
(* of any size, as long as nobody asks for more than the arena holds.      *)
(***************************************************************************)
EXTENDS Heap, GcWorld, BootHeap, FiniteSetTheorems, SequenceTheorems, TLAPS

-----------------------------------------------------------------------------
(* Facts about the operators. *)

\* Marking stays in its domain, takes in the start, and follows references.
LEMMA MarkedIsClosed ==
    ASSUME NEW start, NEW D
    PROVE  /\ Marked(start, D) \subseteq D
           /\ start \cap D \subseteq Marked(start, D)
           /\ \A c \in Marked(start, D) : Traced(c) \cap D \subseteq Marked(start, D)
<1>1. Marked(start, D) \subseteq D /\ start \cap D \subseteq Marked(start, D)
  BY DEF Marked
<1>2. ASSUME NEW c \in Marked(start, D), NEW x \in Traced(c) \cap D
      PROVE  x \in Marked(start, D)
  <2>1. SUFFICES ASSUME NEW C \in SUBSET D, start \cap D \subseteq C,
                        \A e \in C : Traced(e) \cap D \subseteq C
                 PROVE  x \in C
    BY DEF Marked
  <2>2. c \in C
    BY <2>1 DEF Marked
  <2> QED
    BY <2>1, <2>2
<1> QED
  BY <1>1, <1>2

\* What a push and a pop do to a stack, and to what is found on it.
LEMMA PushAndPop ==
    ASSUME NEW S, NEW s \in Seq(S), NEW v \in S
    PROVE  /\ Append(s, v) \in Seq(S)
           /\ \A i \in 1 .. Len(Append(s, v)) :
                 Append(s, v)[i] = v \/ \E j \in 1 .. Len(s) : Append(s, v)[i] = s[j]
           /\ s # <<>> =>
                /\ SubSeq(s, 1, Len(s) - 1) \in Seq(S)
                /\ Len(s) \in 1 .. Len(s)
                /\ \A i \in 1 .. Len(SubSeq(s, 1, Len(s) - 1)) :
                      \E j \in 1 .. Len(s) : SubSeq(s, 1, Len(s) - 1)[i] = s[j]
<1>1. Len(s) \in Nat /\ \A i \in 1 .. Len(s) : s[i] \in S
  OBVIOUS
<1>2. /\ Append(s, v) \in Seq(S) /\ Len(Append(s, v)) = Len(s) + 1
      /\ \A i \in 1 .. Len(s) + 1 :
            Append(s, v)[i] = IF i <= Len(s) THEN s[i] ELSE v
  BY <1>1
<1>3. ASSUME s # <<>>
      PROVE  /\ Len(s) \in 1 .. Len(s)
             /\ SubSeq(s, 1, Len(s) - 1) \in Seq(S)
             /\ Len(SubSeq(s, 1, Len(s) - 1)) = Len(s) - 1
             /\ \A i \in 1 .. Len(s) - 1 : SubSeq(s, 1, Len(s) - 1)[i] = s[i]
  <2>1. Len(s) - 1 \in Nat /\ Len(s) - 1 <= Len(s) /\ Len(s) \in 1 .. Len(s)
    BY <1>1, <1>3
  <2>2. Len(s) - 1 >= 0 /\ \A i \in 1 .. Len(s) - 1 : s[i] \in S
    BY <1>1, <2>1
  <2> DEFINE k == Len(s) - 1
  <2>3. k \in Nat /\ \A i \in 1 .. k : s[i] \in S
    BY <2>1, <2>2
  <2>4. /\ SubSeq(s, 1, k) \in Seq(S)
        /\ Len(SubSeq(s, 1, k)) = IF 1 <= k THEN k - 1 + 1 ELSE 0
        /\ \A i \in 1 .. k - 1 + 1 : SubSeq(s, 1, k)[i] = s[1 + i - 1]
    <3> HIDE DEF k
    <3> QED BY <2>3, SubSeqProperties
  <2>5. /\ Len(SubSeq(s, 1, k)) = k
        /\ \A i \in 1 .. k : SubSeq(s, 1, k)[i] = s[i]
    <3> HIDE DEF k
    <3> QED BY <2>3, <2>4
  <2> QED
    BY <2>1, <2>4, <2>5
<1> QED
  BY <1>1, <1>2, <1>3

-----------------------------------------------------------------------------
(* The invariant. *)

\* A string holds nothing.
LeavesHoldNothing == \A o \in Obj : refs[o] = {} \/ kind[o] # "leaf"

\* Both arguments of a store stay with its thread until its barrier.
StoresAreHeld ==
    \A t \in Threads : storing[t] # Idle =>
        storing[t][1] \in temps[t] /\ storing[t][2] \in temps[t]

\* What can be said until something was lost, when no enum value is allocated.
Kept ==
    \/ lost \/ "variant" \in Kinds
    \/ NoDangling /\ Held \subseteq alive /\ OldToYoungIsRemembered

HeapInv ==
    /\ TypeOK /\ CountsAreExact /\ RememberedIsYoung
    /\ LeavesHoldNothing /\ StoresAreHeld /\ Kept

\* The invariant holds in the beginning.
LEMMA InitHolds == Init => HeapInv
<1> SUFFICES ASSUME Init PROVE HeapInv
  OBVIOUS
<1> USE HeapAssumption
<1>1. NoKind \in Kinds
  BY DEF NoKind
<1>2. TypeOK
  <2>1. /\ [t \in Threads |-> <<>>] \in [Threads -> Seq(Obj)]
        /\ [t \in Threads |-> <<>>] \in [Threads -> Seq(SUBSET Obj)]
    OBVIOUS
  <2>2. shadow \in [Threads -> Seq(Obj)] /\ building \in [Threads -> Seq(SUBSET Obj)]
    BY <2>1 DEF Init
  <2>3. /\ temps \in [Threads -> SUBSET Obj] /\ storing \in [Threads -> {Idle} \cup (Obj \X Obj)]
        /\ inflight \in [Chans -> SUBSET Obj] /\ frame \in [Tasks -> SUBSET Obj]
    BY DEF Init
  <2>4. /\ kind \in [Obj -> Kinds] /\ gen \in [Obj -> {0, 1}]
        /\ refs \in [Obj -> SUBSET Obj]
    BY <1>1 DEF Init
  <2>5. alive \subseteq Obj /\ remembered \subseteq Obj /\ queued \subseteq Tasks
    BY DEF Init
  <2>6. nursery \in Nat /\ count \in Nat /\ threshold \in Nat /\ threshold >= ThresholdFloor
    BY DEF Init
  <2>7. lost \in BOOLEAN
    BY DEF Init
  <2> QED
    BY <2>2, <2>3, <2>4, <2>5, <2>6, <2>7 DEF TypeOK
<1>3. CountsAreExact
  BY FS_EmptySet DEF Init, CountsAreExact, Young
<1>4. Held = {}
  BY DEF Init, Held, InHand
<1> QED
  BY <1>2, <1>3, <1>4
     DEF Init, HeapInv, NoDangling, OldToYoungIsRemembered, RememberedIsYoung,
         LeavesHoldNothing, StoresAreHeld, Kept, Young

-----------------------------------------------------------------------------
(* Steps that leave the heap alone: only who holds what changes. *)

\* It is enough that what is held now was held before, or a live object
\* held it.
LEMMA HeldStep ==
    ASSUME HeapInv, TypeOK', UNCHANGED <<heapVars, storing, lost>>,
           NEW t \in Threads, Between(t),
           \A u \in Threads \ {t} : temps'[u] = temps[u],
           \A x \in Held' : x \in Held \/ \E h \in Held : x \in refs[h]
    PROVE  HeapInv'
<1> USE DEF heapVars
<1>1. CountsAreExact' /\ RememberedIsYoung' /\ LeavesHoldNothing'
  BY DEF HeapInv, CountsAreExact, RememberedIsYoung, LeavesHoldNothing, Young
<1>2. StoresAreHeld'
  BY DEF HeapInv, StoresAreHeld, Between
<1>3. Kept'
  <2>1. NoDangling => NoDangling'
    BY DEF NoDangling
  <2>2. OldToYoungIsRemembered => OldToYoungIsRemembered'
    BY DEF OldToYoungIsRemembered
  <2>3. NoDangling /\ Held \subseteq alive => Held' \subseteq alive'
    BY DEF NoDangling
  <2> QED
    BY <2>1, <2>2, <2>3 DEF HeapInv, Kept
<1> QED
  BY <1>1, <1>2, <1>3 DEF HeapInv

\* What a thread has in hand is held, and so is what it takes out of there.
LEMMA InHandIsHeld ==
    ASSUME HeapInv, NEW t \in Threads PROVE InHand(t) \subseteq Held
<1>1. shadow[t] \in Seq(Obj) /\ temps[t] \subseteq Obj
  BY DEF HeapInv, TypeOK
<1>2. \A i \in 1 .. Len(shadow[t]) : shadow[t][i] \in Obj
  BY <1>1
<1> QED
  BY <1>1, <1>2 DEF InHand, Held

\* Reading a value out of an object keeps the invariant.
LEMMA FetchKeeps ==
    ASSUME HeapInv, NEW t \in Threads, NEW h \in Obj, NEW v \in Obj, Fetch(t, h, v)
    PROVE  HeapInv'
<1>1. temps' = [temps EXCEPT ![t] = @ \cup {v}] /\ h \in InHand(t) /\ v \in refs[h]
  BY DEF Fetch
<1>2. TypeOK'
  BY <1>1 DEF HeapInv, TypeOK, Fetch, heapVars
<1>3. \A x \in Held' : x \in Held \/ x = v
  <2>1. \A u \in Threads : temps'[u] \subseteq temps[u] \cup {v}
    BY <1>1 DEF HeapInv, TypeOK
  <2>2. UNCHANGED <<shadow, building, inflight, frame>>
    BY DEF Fetch
  <2> QED
    BY <2>1, <2>2 DEF Held, InHand
<1>4. h \in Held
  BY <1>1, InHandIsHeld
<1> QED
  BY <1>1, <1>2, <1>3, <1>4, HeldStep DEF Fetch, HeapInv, TypeOK

\* So does letting go of what registers hold,
LEMMA ForgetKeeps ==
    ASSUME HeapInv, NEW t \in Threads, Forget(t)
    PROVE  HeapInv'
<1>1. temps' = [temps EXCEPT ![t] = {}]
  BY DEF Forget
<1>2. TypeOK'
  BY <1>1 DEF HeapInv, TypeOK, Forget, heapVars
<1>3. Held' \subseteq Held
  BY <1>1 DEF Forget, Held, InHand, HeapInv, TypeOK
<1> QED
  BY <1>1, <1>2, <1>3, HeldStep DEF Forget, HeapInv, TypeOK

\* putting a variable on the shadow stack,
LEMMA PushRootKeeps ==
    ASSUME HeapInv, NEW t \in Threads, NEW v \in Obj, PushRoot(t, v)
    PROVE  HeapInv'
<1>1. /\ shadow' = [shadow EXCEPT ![t] = Append(@, v)] /\ v \in InHand(t)
      /\ shadow \in [Threads -> Seq(Obj)]
  BY DEF PushRoot, HeapInv, TypeOK
<1>2. /\ Append(shadow[t], v) \in Seq(Obj)
      /\ \A i \in 1 .. Len(shadow'[t]) :
            shadow'[t][i] = v \/ \E j \in 1 .. Len(shadow[t]) : shadow'[t][i] = shadow[t][j]
  BY <1>1, PushAndPop
<1>3. TypeOK'
  BY <1>1, <1>2 DEF HeapInv, TypeOK, PushRoot, heapVars
<1>4. \A u \in Threads \ {t} : shadow'[u] = shadow[u]
  BY <1>1
<1>5. \A x \in Held' : x \in Held \/ x = v
  <2> SUFFICES ASSUME NEW x \in Held', x # v PROVE x \in Held
    OBVIOUS
  <2>1. UNCHANGED <<temps, building, inflight, frame>>
    BY DEF PushRoot
  <2>2. CASE \E u \in Threads : \E i \in 1 .. Len(shadow'[u]) : shadow'[u][i] = x
    <3>1. PICK u \in Threads : \E i \in 1 .. Len(shadow'[u]) : shadow'[u][i] = x
      BY <2>2
    <3>2. \E j \in 1 .. Len(shadow[u]) : shadow[u][j] = x
      BY <1>2, <1>4, <3>1
    <3> QED
      BY <3>2 DEF Held, InHand
  <2>3. CASE ~\E u \in Threads : \E i \in 1 .. Len(shadow'[u]) : shadow'[u][i] = x
    BY <2>1, <2>3 DEF Held, InHand
  <2> QED
    BY <2>2, <2>3
<1>6. v \in Held
  BY <1>1, InHandIsHeld
<1> QED
  BY <1>3, <1>5, <1>6, HeldStep DEF PushRoot

\* taking one off it,
LEMMA PopRootKeeps ==
    ASSUME HeapInv, NEW t \in Threads, PopRoot(t)
    PROVE  HeapInv'
<1>1. /\ shadow' = [shadow EXCEPT ![t] = SubSeq(@, 1, Len(@) - 1)]
      /\ shadow[t] # <<>> /\ shadow[t] \in Seq(Obj)
      /\ shadow \in [Threads -> Seq(Obj)]
  BY DEF PopRoot, HeapInv, TypeOK
<1>2. PICK v \in Obj : TRUE
  BY <1>1
<1>3. /\ SubSeq(shadow[t], 1, Len(shadow[t]) - 1) \in Seq(Obj)
      /\ \A i \in 1 .. Len(shadow'[t]) :
            \E j \in 1 .. Len(shadow[t]) : shadow'[t][i] = shadow[t][j]
  <2>1. shadow'[t] = SubSeq(shadow[t], 1, Len(shadow[t]) - 1)
    BY <1>1
  <2> QED
    BY <1>1, <1>2, <2>1, PushAndPop
<1>4. TypeOK'
  BY <1>1, <1>3 DEF HeapInv, TypeOK, PopRoot, heapVars
<1>5. \A u \in Threads \ {t} : shadow'[u] = shadow[u]
  BY <1>1
<1>6. Held' \subseteq Held
  <2> SUFFICES ASSUME NEW x \in Held' PROVE x \in Held
    OBVIOUS
  <2>1. UNCHANGED <<temps, building, inflight, frame>>
    BY DEF PopRoot
  <2>2. CASE \E u \in Threads : \E i \in 1 .. Len(shadow'[u]) : shadow'[u][i] = x
    <3>1. PICK u \in Threads : \E i \in 1 .. Len(shadow'[u]) : shadow'[u][i] = x
      BY <2>2
    <3>2. \E j \in 1 .. Len(shadow[u]) : shadow[u][j] = x
      BY <1>3, <1>5, <3>1
    <3> QED
      BY <3>2 DEF Held, InHand
  <2>3. CASE ~\E u \in Threads : \E i \in 1 .. Len(shadow'[u]) : shadow'[u][i] = x
    BY <2>1, <2>3 DEF Held, InHand
  <2> QED
    BY <2>2, <2>3
<1> QED
  BY <1>4, <1>6, HeldStep DEF PopRoot

\* starting a block,
LEMMA StartBlockKeeps ==
    ASSUME HeapInv, NEW t \in Threads, StartBlock(t)
    PROVE  HeapInv'
<1>1. /\ building' = [building EXCEPT ![t] = Append(@, {})]
      /\ building \in [Threads -> Seq(SUBSET Obj)] /\ {} \in SUBSET Obj
  BY DEF StartBlock, HeapInv, TypeOK
<1>2. /\ Append(building[t], {}) \in Seq(SUBSET Obj)
      /\ \A i \in 1 .. Len(building'[t]) :
            building'[t][i] = {} \/ \E j \in 1 .. Len(building[t]) : building'[t][i] = building[t][j]
  BY <1>1, PushAndPop
<1>3. TypeOK'
  BY <1>1, <1>2 DEF HeapInv, TypeOK, StartBlock, heapVars
<1>4. \A u \in Threads \ {t} : building'[u] = building[u]
  BY <1>1
<1>5. Held' \subseteq Held
  <2> SUFFICES ASSUME NEW x \in Held' PROVE x \in Held
    OBVIOUS
  <2>1. UNCHANGED <<temps, shadow, inflight, frame>>
    BY DEF StartBlock
  <2>2. CASE \E u \in Threads : \E i \in 1 .. Len(building'[u]) : x \in building'[u][i]
    <3>1. PICK u \in Threads : \E i \in 1 .. Len(building'[u]) : x \in building'[u][i]
      BY <2>2
    <3>2. \E j \in 1 .. Len(building[u]) : x \in building[u][j]
      BY <1>2, <1>4, <3>1
    <3> QED
      BY <3>2 DEF Held
  <2>3. CASE ~\E u \in Threads : \E i \in 1 .. Len(building'[u]) : x \in building'[u][i]
    BY <2>1, <2>3 DEF Held, InHand
  <2> QED
    BY <2>2, <2>3
<1> QED
  BY <1>3, <1>5, HeldStep DEF StartBlock

\* storing a field into it,
LEMMA FillKeeps ==
    ASSUME HeapInv, NEW t \in Threads, NEW v \in Obj, Fill(t, v)
    PROVE  HeapInv'
<1>1. /\ building' = [building EXCEPT ![t][Len(building[t])] = @ \cup {v}]
      /\ building[t] # <<>> /\ v \in InHand(t)
      /\ building \in [Threads -> Seq(SUBSET Obj)]
      /\ building[t] \in Seq(SUBSET Obj)
  BY DEF Fill, HeapInv, TypeOK
<1>2. PICK n \in 1 .. Len(building[t]) : n = Len(building[t])
  BY <1>1
<1>3. building'[t] = [building[t] EXCEPT ![n] = building[t][n] \cup {v}]
  BY <1>1, <1>2
<1>4. /\ building'[t] \in Seq(SUBSET Obj) /\ Len(building'[t]) = Len(building[t])
      /\ \A i \in 1 .. Len(building[t]) : building'[t][i] \subseteq building[t][i] \cup {v}
  BY <1>1, <1>2, <1>3
<1>5. \A u \in Threads \ {t} : building'[u] = building[u]
  BY <1>1
<1>6. TypeOK'
  <2>1. building' \in [Threads -> Seq(SUBSET Obj)]
    BY <1>1, <1>4, <1>5
  <2> QED
    BY <2>1 DEF HeapInv, TypeOK, Fill, heapVars
<1>7. \A x \in Held' : x \in Held \/ x = v
  <2> SUFFICES ASSUME NEW x \in Held', x # v PROVE x \in Held
    OBVIOUS
  <2>1. UNCHANGED <<temps, shadow, inflight, frame>>
    BY DEF Fill
  <2>2. CASE \E u \in Threads : \E i \in 1 .. Len(building'[u]) : x \in building'[u][i]
    <3>1. PICK u \in Threads : \E i \in 1 .. Len(building'[u]) : x \in building'[u][i]
      BY <2>2
    <3>2. \E j \in 1 .. Len(building[u]) : x \in building[u][j]
      BY <1>4, <1>5, <3>1
    <3> QED
      BY <3>2 DEF Held
  <2>3. CASE ~\E u \in Threads : \E i \in 1 .. Len(building'[u]) : x \in building'[u][i]
    BY <2>1, <2>3 DEF Held, InHand
  <2> QED
    BY <2>2, <2>3
<1>8. v \in Held
  BY <1>1, InHandIsHeld
<1> QED
  BY <1>6, <1>7, <1>8, HeldStep DEF Fill

\* sending a value into a channel,
LEMMA SendKeeps ==
    ASSUME HeapInv, NEW t \in Threads, NEW c \in Chans, NEW v \in Obj, Send(t, c, v)
    PROVE  HeapInv'
<1>1. inflight' = [inflight EXCEPT ![c] = @ \cup {v}] /\ v \in InHand(t)
  BY DEF Send
<1>2. TypeOK'
  BY <1>1 DEF HeapInv, TypeOK, Send, heapVars
<1>3. \A x \in Held' : x \in Held \/ x = v
  BY <1>1 DEF Send, Held, InHand, HeapInv, TypeOK
<1>4. v \in Held
  BY <1>1, InHandIsHeld
<1> QED
  BY <1>2, <1>3, <1>4, HeldStep DEF Send

\* receiving one,
LEMMA ReceiveKeeps ==
    ASSUME HeapInv, NEW t \in Threads, NEW c \in Chans, NEW v \in Obj, Receive(t, c, v)
    PROVE  HeapInv'
<1>1. /\ inflight' = [inflight EXCEPT ![c] = @ \ {v}] /\ v \in inflight[c]
      /\ temps' = [temps EXCEPT ![t] = @ \cup {v}]
  BY DEF Receive
<1>2. TypeOK'
  BY <1>1 DEF HeapInv, TypeOK, Receive, heapVars
<1>3. \A x \in Held' : x \in Held \/ x = v
  BY <1>1 DEF Receive, Held, InHand, HeapInv, TypeOK
<1>4. v \in Held
  BY <1>1 DEF Held
<1> QED
  BY <1>1, <1>2, <1>3, <1>4, HeldStep DEF Receive, HeapInv, TypeOK

\* what a thread puts into the block of a task,
LEMMA EnqueueKeeps ==
    ASSUME HeapInv, NEW t \in Threads, NEW k \in Tasks, NEW v \in Obj,
           Enqueue(t, k, v) \/ Keep(t, k, v)
    PROVE  HeapInv'
<1>1. /\ \/ frame' = [frame EXCEPT ![k] = {v}]
         \/ frame' = [frame EXCEPT ![k] = @ \cup {v}]
      /\ queued' = queued \cup {k} \/ queued' = queued
      /\ v \in InHand(t) /\ Between(t)
  BY DEF Enqueue, Keep
<1>2. UNCHANGED <<heapVars, shadow, temps, building, storing, inflight, lost>>
  BY DEF Enqueue, Keep
<1>3. \A j \in Tasks : frame'[j] \subseteq frame[j] \cup {v}
  <2>1. frame \in [Tasks -> SUBSET Obj]
    BY DEF HeapInv, TypeOK
  <2>2. CASE frame' = [frame EXCEPT ![k] = {v}]
    BY <2>1, <2>2
  <2>3. CASE frame' = [frame EXCEPT ![k] = @ \cup {v}]
    BY <2>1, <2>3
  <2> QED
    BY <1>1, <2>2, <2>3
<1>4. TypeOK'
  <2>1. frame' \in [Tasks -> SUBSET Obj]
    <3>1. frame \in [Tasks -> SUBSET Obj]
      BY DEF HeapInv, TypeOK
    <3>2. CASE frame' = [frame EXCEPT ![k] = {v}]
      BY <3>1, <3>2
    <3>3. CASE frame' = [frame EXCEPT ![k] = @ \cup {v}]
      BY <3>1, <3>3
    <3> QED
      BY <1>1, <3>2, <3>3
  <2>2. queued' \subseteq Tasks
    BY <1>1 DEF HeapInv, TypeOK
  <2> QED
    BY <1>2, <2>1, <2>2 DEF HeapInv, TypeOK, heapVars
<1>5. \A x \in Held' : x \in Held \/ x = v
  BY <1>2, <1>3 DEF Held, InHand
<1>6. v \in Held
  BY <1>1, InHandIsHeld
<1> QED
  BY <1>1, <1>2, <1>4, <1>5, <1>6, HeldStep

\* what it takes out of there,
LEMMA LoadKeeps ==
    ASSUME HeapInv, NEW t \in Threads, NEW k \in Tasks, NEW v \in Obj, Load(t, k, v)
    PROVE  HeapInv'
<1>1. temps' = [temps EXCEPT ![t] = @ \cup {v}] /\ v \in frame[k]
  BY DEF Load
<1>2. TypeOK'
  BY <1>1 DEF HeapInv, TypeOK, Load, heapVars
<1>3. \A x \in Held' : x \in Held \/ x = v
  BY <1>1 DEF Load, Held, InHand, HeapInv, TypeOK
<1>4. v \in Held
  BY <1>1 DEF Held
<1> QED
  BY <1>1, <1>2, <1>3, <1>4, HeldStep DEF Load, HeapInv, TypeOK

\* and what becomes of the task.
LEMMA TaskMovesKeep ==
    ASSUME HeapInv, NEW t \in Threads, NEW k \in Tasks,
           Dequeue(t, k) \/ Wake(t, k) \/ Finish(t, k)
    PROVE  HeapInv'
<1>1. UNCHANGED <<heapVars, shadow, temps, building, storing, inflight, lost>> /\ Between(t)
  BY DEF Dequeue, Wake, Finish
<1>2. /\ queued' \in SUBSET Tasks
      /\ frame' = frame \/ frame' = [frame EXCEPT ![k] = {}]
  BY DEF Dequeue, Wake, Finish, HeapInv, TypeOK
<1>3. \A j \in Tasks : frame'[j] \subseteq frame[j]
  BY <1>2 DEF HeapInv, TypeOK
<1>4. TypeOK'
  BY <1>1, <1>2 DEF HeapInv, TypeOK, heapVars
<1>5. Held' \subseteq Held
  BY <1>1, <1>3 DEF Held, InHand
<1> QED
  BY <1>1, <1>4, <1>5, HeldStep

-----------------------------------------------------------------------------
(* Steps of the program that change the heap. *)

\* The counters count finite sets.
LEMMA YoungIsFinite == ASSUME HeapInv PROVE IsFiniteSet(alive) /\ IsFiniteSet(Young)
<1>1. IsFiniteSet(alive)
  BY HeapAssumption, FS_Subset DEF HeapInv, TypeOK
<1> QED
  BY <1>1, FS_Subset DEF Young

\* A new object at a free address is young, held by its thread and counted.
LEMMA RegisteringKeeps ==
    ASSUME HeapInv, NEW t \in Threads, NEW o \in Obj, NEW k \in Kinds,
           NEW payload \in SUBSET Obj, k = "leaf" => payload = {},
           payload \subseteq Held, Between(t),
           building' \in [Threads -> Seq(SUBSET Obj)],
           \A u \in Threads : \A i \in 1 .. Len(building'[u]) :
              \A x \in building'[u][i] : \E j \in 1 .. Len(building[u]) : x \in building[u][j],
           GcRegister(t, o, k, payload)
    PROVE  HeapInv'
<1>1. /\ o \notin alive /\ alive' = alive \cup {o}
      /\ kind' = [kind EXCEPT ![o] = k] /\ gen' = [gen EXCEPT ![o] = 0]
      /\ refs' = [refs EXCEPT ![o] = payload]
      /\ nursery' = nursery + 1 /\ count' = count + 1
      /\ temps' = [temps EXCEPT ![t] = @ \cup {o}]
  BY DEF GcRegister
<1>2. UNCHANGED <<remembered, threshold, shadow, storing, inflight, frame, queued, lost>>
  BY DEF GcRegister
<1>3. TypeOK'
  BY <1>1, <1>2 DEF HeapInv, TypeOK
<1>4. Young' = Young \cup {o} /\ o \notin Young
  BY <1>1 DEF Young, HeapInv, TypeOK
<1>5. CountsAreExact'
  BY <1>1, <1>4, YoungIsFinite, FS_AddElement DEF HeapInv, CountsAreExact
<1>6. RememberedIsYoung' /\ LeavesHoldNothing'
  BY <1>1, <1>2, <1>4 DEF HeapInv, RememberedIsYoung, LeavesHoldNothing, TypeOK
<1>7. StoresAreHeld'
  BY <1>1, <1>2 DEF HeapInv, StoresAreHeld, TypeOK
<1>8. Kept'
  <2> SUFFICES ASSUME ~lost, "variant" \notin Kinds
               PROVE  (NoDangling /\ Held \subseteq alive /\ OldToYoungIsRemembered)'
    BY <1>2 DEF Kept
  <2>1. NoDangling /\ Held \subseteq alive /\ OldToYoungIsRemembered
    BY DEF HeapInv, Kept
  <2>2. NoDangling'
    BY <1>1, <2>1 DEF NoDangling, HeapInv, TypeOK
  <2>3. \A x \in Held' : x \in Held \/ x = o
    BY <1>1, <1>2 DEF Held, InHand, HeapInv, TypeOK
  <2>4. OldToYoungIsRemembered'
    <3> SUFFICES ASSUME NEW h \in alive', NEW v \in refs'[h],
                        kind'[h] # "future", gen'[h] = 1, gen'[v] = 0
                 PROVE  v \in remembered' \/ \E u \in Threads : storing'[u] = <<h, v>>
      BY DEF OldToYoungIsRemembered
    <3>1. h \in alive /\ h # o /\ v \in refs[h] /\ v \in alive
      BY <1>1, <2>1 DEF HeapInv, TypeOK, NoDangling
    <3>2. kind[h] # "future" /\ gen[h] = 1 /\ gen[v] = 0
      BY <1>1, <3>1 DEF HeapInv, TypeOK
    <3> QED
      BY <1>2, <2>1, <3>1, <3>2 DEF OldToYoungIsRemembered
  <2> QED
    BY <1>1, <2>1, <2>2, <2>3, <2>4
<1> QED
  BY <1>3, <1>5, <1>6, <1>7, <1>8 DEF HeapInv

\* An empty object,
LEMMA CreateKeeps ==
    ASSUME HeapInv, NEW t \in Threads, NEW o \in Obj, NEW k \in Kinds, Create(t, o, k)
    PROVE  HeapInv'
<1>1. building' = building /\ Between(t) /\ GcRegister(t, o, k, {})
  BY DEF Create
<1>2. building' \in [Threads -> Seq(SUBSET Obj)]
  BY <1>1 DEF HeapInv, TypeOK
<1> QED
  BY <1>1, <1>2, RegisteringKeeps

\* and a block that is complete.
LEMMA RegisterBlockKeeps ==
    ASSUME HeapInv, NEW t \in Threads, NEW o \in Obj, NEW k \in Kinds, RegisterBlock(t, o, k)
    PROVE  HeapInv'
<1>1. /\ building[t] # <<>> /\ building[t] \in Seq(SUBSET Obj)
      /\ building \in [Threads -> Seq(SUBSET Obj)]
      /\ building' = [building EXCEPT ![t] = SubSeq(@, 1, Len(@) - 1)]
      /\ k # "leaf" /\ Between(t)
  BY DEF RegisterBlock, HeapInv, TypeOK
<1>2. /\ SubSeq(building[t], 1, Len(building[t]) - 1) \in Seq(SUBSET Obj)
      /\ Len(building[t]) \in 1 .. Len(building[t])
      /\ \A i \in 1 .. Len(building'[t]) :
            \E j \in 1 .. Len(building[t]) : building'[t][i] = building[t][j]
  <2>1. {} \in SUBSET Obj /\ building'[t] = SubSeq(building[t], 1, Len(building[t]) - 1)
    BY <1>1
  <2> QED
    BY <1>1, <2>1, PushAndPop
<1>3. PICK payload \in SUBSET Obj : payload = building[t][Len(building[t])]
  BY <1>1, <1>2
<1>4. payload \subseteq Held
  BY <1>2, <1>3 DEF Held
<1>5. /\ building' \in [Threads -> Seq(SUBSET Obj)]
      /\ \A u \in Threads : \A i \in 1 .. Len(building'[u]) :
            \A x \in building'[u][i] : \E j \in 1 .. Len(building[u]) : x \in building[u][j]
  BY <1>1, <1>2
<1>6. GcRegister(t, o, k, payload)
  BY <1>3 DEF RegisterBlock
<1> QED
  BY <1>1, <1>4, <1>5, <1>6, RegisteringKeeps

\* Taking a value out of an object keeps the invariant.
LEMMA RemoveKeeps ==
    ASSUME HeapInv, NEW t \in Threads, NEW h \in Obj, NEW v \in Obj, Remove(t, h, v)
    PROVE  HeapInv'
<1>1. /\ refs' = [refs EXCEPT ![h] = @ \ {v}]
      /\ \A x \in Obj : refs'[x] \subseteq refs[x]
      /\ temps' = [temps EXCEPT ![t] = @ \cup {v}]
      /\ h \in InHand(t) /\ v \in refs[h]
  BY DEF Remove, HeapInv, TypeOK
<1>2. UNCHANGED <<alive, kind, gen, remembered, nursery, count, threshold,
                  shadow, building, storing, inflight, frame, queued, lost>>
  BY DEF Remove
<1>3. TypeOK'
  BY <1>1, <1>2 DEF HeapInv, TypeOK
<1>4. CountsAreExact' /\ RememberedIsYoung' /\ LeavesHoldNothing'
  BY <1>1, <1>2 DEF HeapInv, CountsAreExact, RememberedIsYoung, Young, LeavesHoldNothing
<1>5. StoresAreHeld'
  BY <1>1, <1>2 DEF HeapInv, StoresAreHeld, TypeOK
<1>6. Kept'
  <2> SUFFICES ASSUME ~lost, "variant" \notin Kinds
               PROVE  (NoDangling /\ Held \subseteq alive /\ OldToYoungIsRemembered)'
    BY <1>2 DEF Kept
  <2>1. NoDangling /\ Held \subseteq alive /\ OldToYoungIsRemembered
    BY DEF HeapInv, Kept
  <2>2. v \in alive
    BY <1>1, <2>1, InHandIsHeld DEF NoDangling
  <2>3. \A x \in Held' : x \in Held \/ x = v
    BY <1>1, <1>2 DEF Held, InHand, HeapInv, TypeOK
  <2>4. OldToYoungIsRemembered'
    <3> SUFFICES ASSUME NEW x \in alive, NEW y \in refs'[x],
                        kind[x] # "future", gen[x] = 1, gen[y] = 0
                 PROVE  y \in remembered \/ \E u \in Threads : storing[u] = <<x, y>>
      BY <1>2 DEF OldToYoungIsRemembered
    <3>1. y \in refs[x]
      BY <1>1 DEF HeapInv, TypeOK
    <3> QED
      BY <2>1, <3>1 DEF OldToYoungIsRemembered
  <2>5. NoDangling'
    BY <1>1, <1>2, <2>1 DEF HeapInv, TypeOK, NoDangling
  <2> QED
    BY <1>2, <2>1, <2>2, <2>3, <2>4, <2>5
<1> QED
  BY <1>3, <1>4, <1>5, <1>6 DEF HeapInv

\* A store is under way until its barrier.
LEMMA WriteKeeps ==
    ASSUME HeapInv, NEW t \in Threads, NEW h \in Obj, NEW v \in Obj, Write(t, h, v)
    PROVE  HeapInv'
<1>1. /\ refs' = [refs EXCEPT ![h] = @ \cup {v}]
      /\ storing' = [storing EXCEPT ![t] = <<h, v>>] /\ storing[t] = Idle
      /\ temps' = [temps EXCEPT ![t] = @ \cup {h, v}]
      /\ h \in InHand(t) /\ v \in InHand(t) /\ kind[h] = "list"
  BY DEF Write, Between
<1>2. UNCHANGED <<alive, kind, gen, remembered, nursery, count, threshold,
                  shadow, building, inflight, frame, queued, lost>>
  BY DEF Write
<1>3. TypeOK'
  BY <1>1, <1>2 DEF HeapInv, TypeOK
<1>4. CountsAreExact' /\ RememberedIsYoung' /\ LeavesHoldNothing'
  BY <1>1, <1>2
     DEF HeapInv, CountsAreExact, RememberedIsYoung, Young, LeavesHoldNothing, TypeOK
<1>5. StoresAreHeld'
  <2> SUFFICES ASSUME NEW u \in Threads, storing'[u] # Idle
               PROVE  storing'[u][1] \in temps'[u] /\ storing'[u][2] \in temps'[u]
    BY DEF StoresAreHeld
  <2>1. CASE u = t
    BY <1>1, <2>1 DEF HeapInv, TypeOK
  <2>2. CASE u # t
    BY <1>1, <2>2 DEF HeapInv, TypeOK, StoresAreHeld
  <2> QED
    BY <2>1, <2>2
<1>6. Kept'
  <2> SUFFICES ASSUME ~lost, "variant" \notin Kinds
               PROVE  (NoDangling /\ Held \subseteq alive /\ OldToYoungIsRemembered)'
    BY <1>2 DEF Kept
  <2>1. NoDangling /\ Held \subseteq alive /\ OldToYoungIsRemembered
    BY DEF HeapInv, Kept
  <2>2. h \in Held /\ v \in Held
    BY <1>1, InHandIsHeld
  <2>3. \A x \in Held' : x \in Held \/ x = h \/ x = v
    BY <1>1, <1>2 DEF Held, InHand, HeapInv, TypeOK
  <2>4. OldToYoungIsRemembered'
    <3> SUFFICES ASSUME NEW x \in alive, NEW y \in refs'[x],
                        kind[x] # "future", gen[x] = 1, gen[y] = 0
                 PROVE  y \in remembered \/ \E u \in Threads : storing'[u] = <<x, y>>
      BY <1>2 DEF OldToYoungIsRemembered
    <3>1. CASE y \in refs[x]
      <4>1. y \in remembered \/ \E u \in Threads : storing[u] = <<x, y>>
        BY <2>1, <3>1 DEF OldToYoungIsRemembered
      <4>2. \A u \in Threads : storing[u] = <<x, y>> => storing'[u] = storing[u]
        BY <1>1 DEF HeapInv, TypeOK, Idle
      <4> QED
        BY <4>1, <4>2
    <3>2. CASE x = h /\ y = v
      BY <1>1, <3>2 DEF HeapInv, TypeOK
    <3> QED
      BY <1>1, <3>1, <3>2 DEF HeapInv, TypeOK
  <2>5. NoDangling'
    BY <1>1, <1>2, <2>1, <2>2 DEF HeapInv, TypeOK, NoDangling
  <2> QED
    BY <1>2, <2>1, <2>2, <2>3, <2>4, <2>5
<1> QED
  BY <1>3, <1>4, <1>5, <1>6 DEF HeapInv

\* A future that gets its value holds it from now on.
LEMMA CompleteKeeps ==
    ASSUME HeapInv, NEW t \in Threads, NEW h \in Obj, NEW v \in Obj, Complete(t, h, v)
    PROVE  HeapInv'
<1>1. refs' = [refs EXCEPT ![h] = {v}] /\ v \in InHand(t) /\ kind[h] = "future"
  BY DEF Complete
<1>2. UNCHANGED <<alive, kind, gen, remembered, nursery, count, threshold, lost,
                  shadow, temps, building, storing, inflight, frame, queued>>
  BY DEF Complete, holders
<1>3. TypeOK'
  BY <1>1, <1>2 DEF HeapInv, TypeOK
<1>4. CountsAreExact' /\ RememberedIsYoung' /\ LeavesHoldNothing' /\ StoresAreHeld'
  BY <1>1, <1>2 DEF HeapInv, CountsAreExact, RememberedIsYoung, Young, LeavesHoldNothing,
                    StoresAreHeld, TypeOK
<1>5. Kept'
  <2> SUFFICES ASSUME ~lost, "variant" \notin Kinds
               PROVE  (NoDangling /\ Held \subseteq alive /\ OldToYoungIsRemembered)'
    BY <1>2 DEF Kept
  <2>1. NoDangling /\ Held \subseteq alive /\ OldToYoungIsRemembered
    BY DEF HeapInv, Kept
  <2>2. v \in Held
    BY <1>1, InHandIsHeld
  <2>3. Held' = Held
    BY <1>2 DEF Held, InHand
  <2>4. \A x \in alive : x = h \/ refs'[x] = refs[x]
    BY <1>1 DEF HeapInv, TypeOK
  <2>5. OldToYoungIsRemembered'
    BY <1>1, <1>2, <2>1, <2>4 DEF OldToYoungIsRemembered
  <2>6. NoDangling'
    BY <1>1, <1>2, <2>1, <2>2 DEF HeapInv, TypeOK, NoDangling
  <2> QED
    BY <1>2, <2>1, <2>3, <2>5, <2>6
<1> QED
  BY <1>3, <1>4, <1>5 DEF HeapInv

\* The barrier records what the store left open.
LEMMA BarrierKeeps ==
    ASSUME HeapInv, NEW t \in Threads, Barrier(t)
    PROVE  HeapInv'
<1> DEFINE h == storing[t][1]
           v == storing[t][2]
<1>1. storing[t] = <<h, v>> /\ h \in Obj /\ v \in Obj
  BY DEF Barrier, Between, HeapInv, TypeOK
<1>2. /\ storing' = [storing EXCEPT ![t] = Idle]
      /\ remembered' = IF {h, v} \subseteq alive /\ gen[h] = 1 /\ gen[v] = 0
                       THEN remembered \cup {v} ELSE remembered
  BY DEF Barrier
<1>3. UNCHANGED <<alive, kind, gen, refs, nursery, count, threshold,
                  shadow, temps, building, inflight, frame, queued, lost>>
  BY DEF Barrier
<1> HIDE DEF h, v
<1>4. TypeOK'
  BY <1>1, <1>2, <1>3 DEF HeapInv, TypeOK
<1>5. CountsAreExact' /\ LeavesHoldNothing'
  BY <1>3 DEF HeapInv, CountsAreExact, Young, LeavesHoldNothing
<1>6. RememberedIsYoung'
  BY <1>2, <1>3 DEF HeapInv, RememberedIsYoung, Young
<1>7. StoresAreHeld'
  BY <1>2, <1>3 DEF HeapInv, TypeOK, StoresAreHeld
<1>8. Kept'
  <2> SUFFICES ASSUME ~lost, "variant" \notin Kinds
               PROVE  (NoDangling /\ Held \subseteq alive /\ OldToYoungIsRemembered)'
    BY <1>3 DEF Kept
  <2>1. NoDangling /\ Held \subseteq alive /\ OldToYoungIsRemembered
    BY DEF HeapInv, Kept
  <2>2. NoDangling' /\ Held' \subseteq alive'
    BY <1>3, <2>1 DEF NoDangling, Held, InHand
  <2>3. OldToYoungIsRemembered'
    <3> SUFFICES ASSUME NEW x \in alive, NEW y \in refs[x],
                        kind[x] # "future", gen[x] = 1, gen[y] = 0
                 PROVE  y \in remembered' \/ \E u \in Threads : storing'[u] = <<x, y>>
      BY <1>3 DEF OldToYoungIsRemembered
    <3>1. CASE y \in remembered
      BY <1>2, <3>1
    <3>2. CASE \E u \in Threads : storing[u] = <<x, y>>
      <4>1. PICK u \in Threads : storing[u] = <<x, y>>
        BY <3>2
      <4>2. CASE u # t
        BY <1>2, <4>1, <4>2 DEF HeapInv, TypeOK
      <4>3. CASE u = t
        <5>1. h = x /\ v = y /\ y \in alive
          BY <1>1, <2>1, <4>1, <4>3 DEF NoDangling
        <5> QED
          BY <1>2, <5>1
      <4> QED
        BY <4>2, <4>3
    <3> QED
      BY <2>1, <3>1, <3>2 DEF OldToYoungIsRemembered
  <2> QED
    BY <2>2, <2>3
<1> QED
  BY <1>4, <1>5, <1>6, <1>7, <1>8 DEF HeapInv

\* free_list leaves nobody with the address: it is held nowhere else.
LEMMA FreeKeeps ==
    ASSUME HeapInv, NEW t \in Threads, NEW o \in Obj, Free(t, o)
    PROVE  HeapInv'
<1>1. /\ o \in alive /\ alive' = alive \ {o} /\ remembered' = remembered \ {o}
      /\ nursery' = (IF gen[o] = 0 THEN nursery - 1 ELSE nursery)
      /\ count' = count - 1
      /\ kind' = [kind EXCEPT ![o] = NoKind] /\ gen' = [gen EXCEPT ![o] = 0]
      /\ refs' = [refs EXCEPT ![o] = {}] /\ temps' = [temps EXCEPT ![t] = @ \ {o}]
      /\ ~HeldElsewhere(t, o) /\ Between(t)
  BY DEF Free
<1>2. UNCHANGED <<threshold, shadow, building, storing, inflight, frame, queued, lost>>
  BY DEF Free
<1>3. Young' = Young \ {o} /\ (gen[o] = 0 <=> o \in Young)
  BY <1>1 DEF Young, HeapInv, TypeOK
<1>4. /\ Cardinality(alive') = count - 1
      /\ Cardinality(Young') = nursery'
      /\ nursery' \in Nat /\ count' \in Nat
  <2>1. /\ count = Cardinality(alive) /\ nursery = Cardinality(Young)
        /\ IsFiniteSet(alive) /\ IsFiniteSet(Young)
    BY YoungIsFinite DEF HeapInv, CountsAreExact
  <2>2. Cardinality(alive \ {o}) = count - 1
    BY <1>1, <2>1, FS_RemoveElement
  <2>3. Cardinality(Young \ {o}) = IF o \in Young THEN nursery - 1 ELSE nursery
    BY <2>1, FS_RemoveElement
  <2>4. IsFiniteSet(alive \ {o}) /\ IsFiniteSet(Young \ {o})
    BY <2>1, FS_RemoveElement
  <2>5. Cardinality(alive \ {o}) \in Nat /\ Cardinality(Young \ {o}) \in Nat
    BY <2>4, FS_CardinalityType
  <2> QED
    BY <1>1, <1>3, <2>2, <2>3, <2>5
<1>5. TypeOK'
  <2>1. NoKind \in Kinds
    BY HeapAssumption DEF NoKind
  <2> QED
    BY <1>1, <1>2, <1>4, <2>1 DEF HeapInv, TypeOK
<1>6. CountsAreExact'
  BY <1>1, <1>4 DEF CountsAreExact
<1>7. RememberedIsYoung' /\ LeavesHoldNothing'
  BY <1>1, <1>3 DEF HeapInv, RememberedIsYoung, LeavesHoldNothing, TypeOK
<1>8. StoresAreHeld'
  BY <1>1, <1>2 DEF HeapInv, StoresAreHeld, TypeOK, Between
<1>9. Kept'
  <2> SUFFICES ASSUME ~lost, "variant" \notin Kinds
               PROVE  (NoDangling /\ Held \subseteq alive /\ OldToYoungIsRemembered)'
    BY <1>2 DEF Kept
  <2>1. NoDangling /\ Held \subseteq alive /\ OldToYoungIsRemembered
    BY DEF HeapInv, Kept
  <2>2. Held' \subseteq Held /\ o \notin Held'
    <3>1. /\ \A u \in Threads : temps'[u] \subseteq temps[u]
          /\ o \notin temps'[t] /\ \A u \in Threads \ {t} : temps'[u] = temps[u]
      BY <1>1 DEF HeapInv, TypeOK
    <3>2. Held' \subseteq Held
      BY <1>2, <3>1 DEF Held, InHand
    <3>3. \A u \in Threads : o \notin temps'[u]
      BY <1>1, <3>1 DEF HeldElsewhere
    <3>4. o \notin Held'
      BY <1>1, <1>2, <3>3 DEF Held, InHand, HeldElsewhere
    <3> QED
      BY <3>2, <3>4
  <2>3. OldToYoungIsRemembered'
    <3> SUFFICES ASSUME NEW h \in alive', NEW v \in refs'[h],
                        kind'[h] # "future", gen'[h] = 1, gen'[v] = 0
                 PROVE  v \in remembered' \/ \E u \in Threads : storing'[u] = <<h, v>>
      BY DEF OldToYoungIsRemembered
    <3>1. h \in alive /\ h # o /\ v \in refs[h] /\ v \in Obj /\ v # o
      BY <1>1 DEF HeapInv, TypeOK, HeldElsewhere
    <3>2. kind[h] # "future" /\ gen[h] = 1 /\ gen[v] = 0
      BY <1>1, <3>1 DEF HeapInv, TypeOK
    <3> QED
      BY <1>1, <1>2, <2>1, <3>1, <3>2 DEF OldToYoungIsRemembered
  <2>4. NoDangling'
    BY <1>1, <2>1 DEF NoDangling, HeapInv, TypeOK, HeldElsewhere
  <2> QED
    BY <1>1, <2>1, <2>2, <2>3, <2>4
<1> QED
  BY <1>5, <1>6, <1>7, <1>8, <1>9 DEF HeapInv

-----------------------------------------------------------------------------
(* Collections. *)

\* Marking goes through whatever holds something.
LEMMA HoldersAreTraced ==
    ASSUME HeapInv, "variant" \notin Kinds, NEW h \in Obj
    PROVE  refs[h] = {} \/ refs[h] = Traced(h)
<1>1. kind[h] \in Kinds /\ Kinds \subseteq {"list", "leaf", "future", "variant"}
  BY HeapAssumption DEF HeapInv, TypeOK
<1>2. refs[h] = {} \/ kind[h] \in {"list", "future"}
  BY <1>1 DEF HeapInv, LeavesHoldNothing
<1> QED
  BY <1>2 DEF Traced

\* What a collection starts from and where it does not look are together all
\* that is held.
LEMMA RootsOrUnseen ==
    ASSUME HeapInv, NEW t \in Threads
    PROVE  /\ Held \subseteq MajorRoots \cup Unseen
           /\ Held \subseteq MinorRoots(t) \cup UnseenByMinor(t)
<1> SUFFICES ASSUME NEW x \in Held
             PROVE  /\ x \in MajorRoots \cup Unseen
                    /\ x \in MinorRoots(t) \cup UnseenByMinor(t)
  OBVIOUS
<1>1. x \in Obj
  BY DEF Held
<1>2. CASE x \in Precise \/ x \in Unseen
  BY <1>2 DEF MajorRoots, MinorRoots, UnseenByMinor
<1>3. CASE \E u \in Threads : x \in temps[u]
  BY <1>1, <1>3 DEF MajorRoots, MinorRoots, UnseenByMinor
<1>4. CASE \E u \in Threads : \E i \in 1 .. Len(shadow[u]) : shadow[u][i] = x
  <2>0. PICK u \in Threads : \E i \in 1 .. Len(shadow[u]) : shadow[u][i] = x
    BY <1>4
  <2>1. PICK i \in 1 .. Len(shadow[u]) : shadow[u][i] = x
    BY <2>0
  <2>2. i \in Nat /\ MaxRoots \in Nat
    BY HeapAssumption
  <2>3. CASE i <= MaxRoots
    BY <1>1, <1>2, <2>1, <2>3 DEF Precise, Stored
  <2>4. CASE i > MaxRoots
    BY <1>1, <1>2, <2>1, <2>4 DEF Unseen
  <2> QED
    BY <2>2, <2>3, <2>4
<1>5. CASE \E c \in Chans : x \in inflight[c]
  BY <1>1, <1>2, <1>5 DEF Precise, Unseen
<1>6. CASE \E k \in Tasks : x \in frame[k]
  BY <1>1, <1>2, <1>6 DEF Precise, Unseen
<1>7. CASE \E u \in Threads : \E i \in 1 .. Len(building[u]) : x \in building[u][i]
  BY <1>1, <1>2, <1>7 DEF Unseen
<1> QED
  BY <1>3, <1>4, <1>5, <1>6, <1>7 DEF Held, InHand

\* The minor part leaves alive objects only, and what its thread's C stack
\* holds.
LEMMA MinorSparesItsOwn ==
    ASSUME NEW t \in Threads
    PROVE  /\ AfterMinor(t) \subseteq alive
           /\ MinorRoots(t) \cap alive \subseteq AfterMinor(t)
<1> DEFINE M == Marked(MinorRoots(t), Young)
<1>1. M \subseteq Young /\ MinorRoots(t) \cap Young \subseteq M
  BY MarkedIsClosed
<1> HIDE DEF M
<1>2. AfterMinor(t) = alive \/ AfterMinor(t) = (alive \ Young) \cup M
  BY DEF AfterMinor, M
<1> QED
  BY <1>1, <1>2 DEF Young

\* So does the whole collection.
LEMMA CollectionSparesItsOwn ==
    ASSUME TypeOK, NEW t \in Threads
    PROVE  /\ AfterMajor(t) \subseteq AfterMinor(t)
           /\ temps[t] \cap alive \subseteq AfterMajor(t)
<1>1. /\ AfterMinor(t) \subseteq alive
      /\ temps[t] \cap alive \subseteq AfterMinor(t)
  BY MinorSparesItsOwn DEF MinorRoots
<1>2. temps[t] \subseteq MajorRoots
  BY DEF MajorRoots, TypeOK
<1> DEFINE D == AfterMinor(t)
           M == Marked(MajorRoots, D)
<1>3. M \subseteq D /\ MajorRoots \cap D \subseteq M
  BY MarkedIsClosed
<1>4. AfterMajor(t) = D \/ AfterMajor(t) = M
  BY DEF AfterMajor
<1> HIDE DEF D, M
<1>5. D \subseteq alive /\ temps[t] \cap alive \subseteq D
  BY <1>1 DEF D
<1>6. AfterMajor(t) \subseteq D
  BY <1>3, <1>4
<1> QED
  BY <1>2, <1>3, <1>4, <1>5, <1>6 DEF D

\* Unless it takes something from where it does not look, the minor part
\* leaves all that is held, and nothing that points out of what it leaves.
LEMMA MinorLeavesClosed ==
    ASSUME HeapInv, NEW t \in Threads, Between(t), "variant" \notin Kinds,
           NoDangling, Held \subseteq alive, OldToYoungIsRemembered,
           UnseenByMinor(t) \cap (alive \ AfterMinor(t)) = {}
    PROVE  /\ \A h \in AfterMinor(t) : refs[h] \subseteq AfterMinor(t)
           /\ Held \subseteq AfterMinor(t)
<1>1. Held \subseteq AfterMinor(t)
  BY RootsOrUnseen, MinorSparesItsOwn
<1>2. CASE ~(nursery >= NurseryLimit)
  BY <1>1, <1>2 DEF AfterMinor, NoDangling
<1>3. CASE nursery >= NurseryLimit
  <2> DEFINE M == Marked(MinorRoots(t), Young)
  <2>1. AfterMinor(t) = (alive \ Young) \cup M
    BY <1>3 DEF AfterMinor
  <2>2. /\ M \subseteq Young
        /\ MinorRoots(t) \cap Young \subseteq M
        /\ \A c \in M : Traced(c) \cap Young \subseteq M
    BY MarkedIsClosed
  <2> HIDE DEF M
  <2>3. remembered \subseteq M
    BY <2>2 DEF MinorRoots, HeapInv, RememberedIsYoung
  <2>4. UnseenByMinor(t) \cap alive \subseteq AfterMinor(t)
    OBVIOUS
  <2>5. ASSUME NEW h \in alive \ Young, NEW v \in refs[h], v \in Young
        PROVE  v \in AfterMinor(t)
    <3>1. gen[h] = 1 /\ gen[v] = 0 /\ v \in alive /\ v \in Obj
      BY <2>5 DEF Young, HeapInv, TypeOK
    <3>2. CASE kind[h] = "future"
      BY <2>4, <3>1, <3>2 DEF UnseenByMinor
    <3>3. CASE v \in remembered
      BY <2>1, <2>3, <3>3
    <3>4. CASE \E u \in Threads : storing[u] = <<h, v>>
      <4>1. PICK u \in Threads : storing[u] = <<h, v>>
        BY <3>4
      <4>2. storing[u] # Idle /\ storing[u][2] = v
        <5>1. <<h, v>> # <<>>
          OBVIOUS
        <5> QED
          BY <4>1, <5>1 DEF Idle
      <4>3. v \in temps[u] /\ u # t
        BY <4>2 DEF HeapInv, StoresAreHeld, Between
      <4> QED
        BY <2>4, <3>1, <4>3 DEF UnseenByMinor
    <3> QED
      BY <3>1, <3>2, <3>3, <3>4 DEF OldToYoungIsRemembered
  <2>6. ASSUME NEW h \in M, NEW v \in refs[h], v \in Young
        PROVE  v \in M
    <3>1. v \in Traced(h)
      BY <2>2, <2>6, HoldersAreTraced DEF HeapInv, Young, TypeOK
    <3> QED
      BY <2>2, <2>6, <3>1
  <2>7. \A h \in AfterMinor(t) : refs[h] \subseteq alive
    BY <2>1, <2>2 DEF NoDangling, Young
  <2> QED
    BY <1>1, <2>1, <2>5, <2>6, <2>7 DEF Young
<1> QED
  BY <1>2, <1>3

\* So does the whole collection.
LEMMA CollectionLeavesClosed ==
    ASSUME HeapInv, NEW t \in Threads, Between(t), "variant" \notin Kinds,
           NoDangling, Held \subseteq alive, OldToYoungIsRemembered,
           UnseenByMinor(t) \cap (alive \ AfterMinor(t)) = {},
           Unseen \cap (AfterMinor(t) \ AfterMajor(t)) = {}
    PROVE  /\ \A h \in AfterMajor(t) : refs[h] \subseteq AfterMajor(t)
           /\ Held \subseteq AfterMajor(t)
<1>1. CASE ~MajorFollows(t)
  BY <1>1, MinorLeavesClosed DEF AfterMajor
<1>2. CASE MajorFollows(t)
  <2>1. PICK D : D = AfterMinor(t)
    OBVIOUS
  <2>2. PICK M : M = Marked(MajorRoots, D)
    OBVIOUS
  <2>3. AfterMajor(t) = M
    BY <1>2, <2>1, <2>2 DEF AfterMajor
  <2>4. /\ M \subseteq D /\ MajorRoots \cap D \subseteq M
        /\ \A c \in M : Traced(c) \cap D \subseteq M
    BY <2>2, MarkedIsClosed
  <2>5. (\A h \in D : refs[h] \subseteq D) /\ Held \subseteq D /\ D \subseteq alive
    BY <2>1, MinorLeavesClosed, MinorSparesItsOwn
  <2>6. ASSUME NEW h \in M PROVE refs[h] \subseteq M
    <3>1. h \in Obj /\ h \in D
      BY <2>4, <2>5 DEF HeapInv, TypeOK
    <3>2. refs[h] = Traced(h) \/ refs[h] = {}
      BY <3>1, HoldersAreTraced
    <3> QED
      BY <2>4, <2>5, <3>1, <3>2
  <2>7. Held \subseteq MajorRoots \cup Unseen
    BY RootsOrUnseen
  <2>8. Held \subseteq M
    BY <2>1, <2>3, <2>4, <2>5, <2>7
  <2> QED
    BY <2>3, <2>6, <2>8
<1> QED
  BY <1>1, <1>2

\* A collection keeps the invariant, whichever of its parts runs.
LEMMA CollectKeeps ==
    ASSUME HeapInv, NEW t \in Threads, Collect(t)
    PROVE  HeapInv'
<1>1. PICK left : left = AfterMajor(t)
  OBVIOUS
<1>2. left \subseteq alive /\ left \subseteq Obj
  BY <1>1, CollectionSparesItsOwn, MinorSparesItsOwn DEF HeapInv, TypeOK
<1>3. /\ alive' = left
      /\ gen' = [o \in Obj |-> IF o \in left THEN 1 ELSE 0]
      /\ kind' = [o \in Obj |-> IF o \in left THEN kind[o] ELSE NoKind]
      /\ refs' = [o \in Obj |-> IF o \in left THEN refs[o] ELSE {}]
      /\ count' = count - Cardinality(alive \ left)
      /\ nursery' = nursery - Cardinality(Young) /\ remembered' = {}
      /\ threshold' = IF ~MajorFollows(t) THEN threshold ELSE NewThreshold(count')
      /\ lost' = (\/ lost
                  \/ UnseenByMinor(t) \cap (alive \ AfterMinor(t)) # {}
                  \/ Unseen \cap (AfterMinor(t) \ left) # {})
      /\ Between(t)
  BY <1>1 DEF Collect
<1>4. UNCHANGED <<shadow, temps, building, storing, inflight, frame, queued>>
  BY DEF Collect, holders
<1>5. Young' = {}
  BY <1>2, <1>3 DEF Young
<1>6. count' = Cardinality(left) /\ count' \in Nat /\ nursery' = 0
  <2>1. /\ count = Cardinality(alive) /\ nursery = Cardinality(Young)
        /\ nursery \in Nat /\ IsFiniteSet(alive)
    BY YoungIsFinite DEF HeapInv, CountsAreExact, TypeOK
  <2>2. Cardinality(alive \ left) = Cardinality(alive) - Cardinality(alive \cap left)
    BY <2>1, FS_Difference
  <2>3. alive \cap left = left /\ IsFiniteSet(left)
    BY <1>2, <2>1, FS_Subset
  <2>4. Cardinality(left) \in Nat /\ Cardinality(alive) \in Nat
    BY <2>1, <2>3, FS_CardinalityType
  <2>5. count' = Cardinality(left)
    <3>1. Cardinality(alive \ left) = Cardinality(alive) - Cardinality(left)
      BY <2>2, <2>3
    <3> QED
      BY <1>3, <2>1, <2>4, <3>1
  <2>6. nursery' = 0
    BY <1>3, <2>1
  <2> QED
    BY <2>4, <2>5, <2>6
<1>7. TypeOK'
  <2>1. NoKind \in Kinds /\ ThresholdFloor \in Nat
    BY HeapAssumption DEF NoKind
  <2>2. threshold' \in Nat /\ threshold' >= ThresholdFloor
    BY <1>3, <1>6, <2>1 DEF NewThreshold, HeapInv, TypeOK
  <2>3. lost' \in BOOLEAN
    BY <1>3
  <2> QED
    BY <1>2, <1>3, <1>4, <1>6, <2>1, <2>2, <2>3 DEF HeapInv, TypeOK
<1>8. CountsAreExact'
  BY <1>3, <1>5, <1>6, FS_EmptySet DEF CountsAreExact
<1>9. RememberedIsYoung' /\ LeavesHoldNothing' /\ StoresAreHeld'
  BY <1>2, <1>3, <1>4
     DEF HeapInv, RememberedIsYoung, LeavesHoldNothing, StoresAreHeld
<1>10. Kept'
  <2> SUFFICES ASSUME ~lost', "variant" \notin Kinds
               PROVE  (NoDangling /\ Held \subseteq alive /\ OldToYoungIsRemembered)'
    BY DEF Kept
  <2>1. /\ ~lost /\ UnseenByMinor(t) \cap (alive \ AfterMinor(t)) = {}
        /\ Unseen \cap (AfterMinor(t) \ left) = {}
    BY <1>3
  <2>2. NoDangling /\ Held \subseteq alive /\ OldToYoungIsRemembered
    BY <2>1 DEF HeapInv, Kept
  <2>3. (\A h \in left : refs[h] \subseteq left) /\ Held \subseteq left
    BY <1>1, <1>3, <2>1, <2>2, CollectionLeavesClosed
  <2>4. Held' = Held
    BY <1>4 DEF Held, InHand
  <2>5. NoDangling'
    BY <1>2, <1>3, <2>3 DEF NoDangling
  <2>6. OldToYoungIsRemembered'
    BY <1>2, <1>3, <2>5 DEF OldToYoungIsRemembered, NoDangling
  <2> QED
    BY <1>3, <2>3, <2>4, <2>5, <2>6
<1> QED
  BY <1>7, <1>8, <1>9, <1>10 DEF HeapInv

-----------------------------------------------------------------------------
(* The results. *)

\* Every step of Heap keeps the invariant.
LEMMA StepsKeep ==
    ASSUME HeapInv, [Next]_vars
    PROVE  HeapInv'
<1>1. CASE UNCHANGED vars
  <2>1. UNCHANGED <<alive, kind, gen, refs, remembered, nursery, count, threshold, lost,
                    shadow, temps, building, storing, inflight, frame, queued>>
    BY <1>1 DEF vars, heapVars, holders
  <2>2. TypeOK'
    BY <2>1 DEF HeapInv, TypeOK
  <2>3. CountsAreExact' /\ RememberedIsYoung' /\ LeavesHoldNothing' /\ StoresAreHeld'
    BY <2>1 DEF HeapInv, CountsAreExact, RememberedIsYoung, Young, LeavesHoldNothing,
                StoresAreHeld
  <2>4. Kept'
    BY <2>1 DEF HeapInv, Kept, NoDangling, OldToYoungIsRemembered, Held, InHand
  <2> QED
    BY <2>2, <2>3, <2>4 DEF HeapInv
<1>2. CASE Next
  <2> SUFFICES ASSUME NEW t \in Threads,
          \/ \E o \in Obj, k \in Kinds : Create(t, o, k) \/ RegisterBlock(t, o, k)
          \/ \E h, v \in Obj :
              Fetch(t, h, v) \/ Remove(t, h, v) \/ Write(t, h, v) \/ Complete(t, h, v)
          \/ Barrier(t) \/ Forget(t) \/ PopRoot(t) \/ StartBlock(t) \/ Collect(t)
          \/ \E v \in Obj : PushRoot(t, v) \/ Fill(t, v) \/ Free(t, v)
          \/ \E v \in Obj, c \in Chans : Send(t, c, v) \/ Receive(t, c, v)
          \/ \E v \in Obj, k \in Tasks : Enqueue(t, k, v) \/ Load(t, k, v) \/ Keep(t, k, v)
          \/ \E k \in Tasks : Dequeue(t, k) \/ Wake(t, k) \/ Finish(t, k)
      PROVE HeapInv'
    BY <1>2 DEF Next
  <2> QED
    BY CreateKeeps, RegisterBlockKeeps, FetchKeeps, RemoveKeeps, WriteKeeps, CompleteKeeps,
       BarrierKeeps, ForgetKeeps, PopRootKeeps, StartBlockKeeps, CollectKeeps,
       PushRootKeeps, FillKeeps, FreeKeeps, SendKeeps, ReceiveKeeps,
       EnqueueKeeps, LoadKeeps, TaskMovesKeep
<1> QED
  BY <1>1, <1>2

\* The inductive invariant holds in every state of the heap.
THEOREM HeapIsInvariant == Spec => []HeapInv
<1>1. HeapInv /\ [Next]_vars => HeapInv'
  BY StepsKeep
<1> QED
  BY <1>1, InitHolds, PTL DEF Spec

\* The heap has its types, and the counters behind the thresholds are exact,
\* whatever the program does and the collections took.
THEOREM HeapTypesAndCounts == Spec => [](TypeOK /\ CountsAreExact)
BY HeapIsInvariant, PTL DEF HeapInv

\* A collection leaves what is held, wherever it is held, and leaves nobody
\* with a pointer to memory that is gone, whichever thread collects, unless
\* itself or one before took something from where it does not look.
THEOREM NothingInUseFreed ==
    "variant" \notin Kinds /\ Spec => []NothingInUseIsFreed
<1> SUFFICES ASSUME "variant" \notin Kinds PROVE Spec => []NothingInUseIsFreed
  OBVIOUS
<1>1. HeapInv => NothingInUseIsFreed
  BY DEF HeapInv, Kept, NothingInUseIsFreed
<1> QED
  BY <1>1, HeapIsInvariant, PTL

\* The remembered set lacks no young object an old one holds, but for a store
\* that is before its barrier, and holds no address that is not a young object.
THEOREM RememberedSetIsRight ==
    "variant" \notin Kinds /\ Spec => []RememberedAsNeeded
<1> SUFFICES ASSUME "variant" \notin Kinds PROVE Spec => []RememberedAsNeeded
  OBVIOUS
<1>1. HeapInv => RememberedAsNeeded
  BY DEF HeapInv, Kept, RememberedAsNeeded
<1> QED
  BY <1>1, HeapIsInvariant, PTL

\* A collection spares what only the collecting thread's C stack holds.
THEOREM CollectorSparesItsOwn == Spec => TemporariesSurvive
<1>1. HeapInv => \A t \in Threads :
          Collect(t) => \A v \in temps[t] \cap alive : v \in alive'
  <2> SUFFICES ASSUME HeapInv, NEW t \in Threads, Collect(t)
               PROVE  temps[t] \cap alive \subseteq alive'
    OBVIOUS
  <2>1. alive' = AfterMajor(t)
    BY DEF Collect
  <2> QED
    BY <2>1, CollectionSparesItsOwn DEF HeapInv
<1> QED
  BY <1>1, HeapIsInvariant, PTL DEF TemporariesSurvive, Spec

-----------------------------------------------------------------------------
(* Stopping the world: the invariant. *)

\* Only a thread that holds the mutex marks and sweeps.
SweeperHoldsTheMutex == sweeping # "no" => ~MutexFree

WorldInv ==
    /\ at \in [Threads -> Places]
    /\ stop \in BOOLEAN /\ enabled \in BOOLEAN
    /\ sweeping \in {"no", "quiet", "hasty"}
    /\ saved \in [Threads -> BOOLEAN]
    /\ ParkedCountIsExact
    /\ SweeperHoldsTheMutex
    /\ QuietWorld

Counted == In({"parked", "select"})

\* The places of a thread that moves, and of the others.
LEMMA MovesAlone ==
    ASSUME at \in [Threads -> Places], NEW t \in Threads, NEW p \in Places,
           at' = [at EXCEPT ![t] = p]
    PROVE  /\ at' \in [Threads -> Places]
           /\ \A S : In(S)' = IF p \in S THEN In(S) \cup {t} ELSE In(S) \ {t}
BY DEF In

\* The set of counted threads is finite, so its size is a number.
LEMMA CountedIsFinite ==
    /\ IsFiniteSet(Counted)
    /\ Cardinality(Counted) \in Nat
    /\ Cardinality(Counted) <= Cardinality(Threads)
    /\ Cardinality(Threads) \in Nat
<1>1. Counted \in SUBSET Threads
  BY DEF Counted, In
<1> QED
  BY <1>1, ThreadsAssumption, FS_Subset, FS_CardinalityType

\* A thread that is not counted and stays so leaves the count as it is.
LEMMA Uncounted ==
    ASSUME WorldInv, NEW t \in Threads, NEW p \in Places,
           at[t] \notin {"parked", "select"}, p \notin {"parked", "select"},
           at' = [at EXCEPT ![t] = p], parked' = parked
    PROVE  ParkedCountIsExact'
<1>1. In({"parked", "select"})' = In({"parked", "select"})
  BY DEF In, WorldInv
<1> QED
  BY <1>1 DEF ParkedCountIsExact, WorldInv

\* A thread that parks or enters a select is counted once,
LEMMA CountedOnce ==
    ASSUME WorldInv, NEW t \in Threads, NEW p \in {"parked", "select"},
           at[t] \notin {"parked", "select"},
           at' = [at EXCEPT ![t] = p], parked' = parked + 1
    PROVE  ParkedCountIsExact'
<1>1. Counted' = Counted \cup {t} /\ t \notin Counted
  BY DEF In, WorldInv, Counted
<1>2. Cardinality(Counted') = Cardinality(Counted) + 1
  BY <1>1, CountedIsFinite, FS_AddElement
<1> QED
  BY <1>2 DEF ParkedCountIsExact, WorldInv, Counted

\* and taken off the count once when it goes on.
LEMMA TakenOffOnce ==
    ASSUME WorldInv, NEW t \in Threads, at[t] \in {"parked", "select"},
           at' = [at EXCEPT ![t] = "running"], parked' = parked - 1
    PROVE  ParkedCountIsExact'
<1>1. Counted' = Counted \ {t} /\ t \in Counted
  BY DEF In, WorldInv, Counted
<1>2. Cardinality(Counted') = Cardinality(Counted) - 1
  BY <1>1, CountedIsFinite, FS_RemoveElement
<1> QED
  BY <1>2 DEF ParkedCountIsExact, WorldInv, Counted

-----------------------------------------------------------------------------
\* Nothing is registered in the beginning.
LEMMA WorldStartsRight == WorldInit => WorldInv
<1> SUFFICES ASSUME WorldInit PROVE WorldInv
  OBVIOUS
<1>1. at \in [Threads -> Places] /\ saved \in [Threads -> BOOLEAN]
  BY DEF WorldInit, Places
<1>2. In({"parked", "select"}) = {}
  BY DEF In, WorldInit
<1>3. ParkedCountIsExact
  BY <1>2, FS_EmptySet DEF ParkedCountIsExact, WorldInit
<1> QED
  BY <1>1, <1>3 DEF WorldInit, WorldInv, SweeperHoldsTheMutex, QuietWorld

\* A step that needs the free mutex comes while nobody sweeps: what it does to
\* the threads disturbs no quiet collection.
LEMMA NobodySweeps ==
    ASSUME WorldInv, MutexFree, sweeping' = sweeping
    PROVE  SweeperHoldsTheMutex' /\ QuietWorld'
BY DEF WorldInv, SweeperHoldsTheMutex, QuietWorld

\* A step of a thread that runs program code cannot fall into a quiet
\* collection, and it leaves the holder of the mutex where it is.
LEMMA MutatorStep ==
    ASSUME WorldInv, NEW t \in Mutating, sweeping' = sweeping,
           \A u \in Threads : at[u] = "collecting" => at'[u] = "collecting"
    PROVE  SweeperHoldsTheMutex' /\ QuietWorld'
<1>1. sweeping # "quiet"
  BY DEF WorldInv, QuietWorld
<1>2. MutexFree' => MutexFree
  BY DEF MutexFree, In
<1> QED
  BY <1>1, <1>2 DEF WorldInv, SweeperHoldsTheMutex, QuietWorld

\* Threads that come and go, park, and pass through a select.
LEMMA RegisterKeeps ==
    ASSUME WorldInv, NEW t \in Threads, Register(t) \/ Unregister(t)
    PROVE  WorldInv'
<1> PICK p \in {"running", "absent"} : at' = [at EXCEPT ![t] = p]
  BY DEF Register, Unregister, Move
<1>1. ParkedCountIsExact'
  BY Uncounted DEF Register, Unregister, Places
<1>2. SweeperHoldsTheMutex' /\ QuietWorld'
  BY NobodySweeps DEF Register, Unregister
<1> QED
  BY <1>1, <1>2, MovesAlone DEF Register, Unregister, WorldInv, Places

LEMMA ParkKeeps ==
    ASSUME WorldInv, NEW t \in Threads, Park(t) \/ EnterSelect(t)
    PROVE  WorldInv'
<1> PICK p \in {"parked", "select"} : at' = [at EXCEPT ![t] = p]
  BY DEF Park, EnterSelect, Move
<1>1. ParkedCountIsExact'
  BY CountedOnce DEF Park, EnterSelect
<1>2. SweeperHoldsTheMutex' /\ QuietWorld'
  BY NobodySweeps DEF Park, EnterSelect
<1> QED
  BY <1>1, <1>2, MovesAlone DEF Park, EnterSelect, WorldInv, Places

LEMMA UnparkKeeps ==
    ASSUME WorldInv, NEW t \in Threads, Unpark(t) \/ LeaveSelect(t)
    PROVE  WorldInv'
<1>0. at' = [at EXCEPT ![t] = "running"]
  BY DEF Unpark, LeaveSelect, Move
<1>1. ParkedCountIsExact'
  BY <1>0, TakenOffOnce DEF Unpark, LeaveSelect
<1>2. SweeperHoldsTheMutex' /\ QuietWorld'
  BY NobodySweeps DEF Unpark, LeaveSelect
<1> QED
  BY <1>0, <1>1, <1>2, MovesAlone DEF Unpark, LeaveSelect, WorldInv, Places

\* A collector that asks for the world to stop.
LEMMA StopKeeps ==
    ASSUME WorldInv, NEW t \in Threads, StopTheWorld(t)
    PROVE  WorldInv'
<1>1. at' = [at EXCEPT ![t] = "stopping"]
  BY DEF StopTheWorld, Move
<1>2. ParkedCountIsExact'
  BY <1>1, Uncounted DEF StopTheWorld, Places
<1>3. SweeperHoldsTheMutex' /\ QuietWorld'
  BY NobodySweeps DEF StopTheWorld
<1> QED
  BY <1>1, <1>2, <1>3, MovesAlone DEF StopTheWorld, WorldInv, Places

\* A collection begins quiet only when nobody runs, and its thread is not one
\* of those who do.
LEMMA BeginCollectionKeeps ==
    ASSUME WorldInv, NEW t \in Threads, BeginCollection(t)
    PROVE  WorldInv'
<1>1. at' = [at EXCEPT ![t] = "collecting"]
  BY DEF BeginCollection, Move
<1>2. ParkedCountIsExact'
  BY <1>1, Uncounted DEF BeginCollection, Places
<1>3. at' \in [Threads -> Places] /\ t \in In({"collecting"})'
  BY <1>1 DEF BeginCollection, WorldInv, In, Places
<1>4. SweeperHoldsTheMutex'
  BY <1>3 DEF SweeperHoldsTheMutex, MutexFree
<1>5. Mutating = {} => Mutating' = {}
  BY <1>1 DEF Mutating, In, WorldInv
<1>6. QuietWorld' /\ sweeping' \in {"no", "quiet", "hasty"}
  BY <1>5 DEF QuietWorld, BeginCollection, Sweep
<1> QED
  BY <1>2, <1>3, <1>4, <1>6 DEF BeginCollection, WorldInv

\* The end of a collection.
LEMMA StartKeeps ==
    ASSUME WorldInv, NEW t \in Threads, StartTheWorld(t)
    PROVE  WorldInv'
<1>1. at' = [at EXCEPT ![t] = "running"]
  BY DEF StartTheWorld, Move
<1>2. ParkedCountIsExact'
  BY <1>1, Uncounted DEF StartTheWorld, Places
<1> QED
  BY <1>1, <1>2, MovesAlone DEF StartTheWorld, WorldInv, Places, SweeperHoldsTheMutex, QuietWorld

\* A channel call moves its own thread and may wake one that waits in another
\* call: neither is counted, and neither runs during a quiet collection.
LEMMA ChannelCallKeeps ==
    ASSUME WorldInv, NEW t \in Threads, ChannelCall(t)
    PROVE  WorldInv'
<1>1. t \in Mutating
  BY DEF ChannelCall, SaveSwitch, ClearSwitch, Block, Transfer, RestoreSwitch, Mutating, In
<1>2. /\ sweeping' = sweeping /\ stop' = stop /\ parked' = parked
      /\ enabled' \in BOOLEAN /\ saved' \in [Threads -> BOOLEAN]
  BY DEF ChannelCall, SaveSwitch, ClearSwitch, Block, Transfer, RestoreSwitch, WorldInv
<1>3. \/ \E p \in {"running", "saved", "call", "blocked", "restore"} : at' = [at EXCEPT ![t] = p]
      \/ \E w \in In({"blocked"}) : at' = [at EXCEPT ![t] = "restore", ![w] = "call"]
  BY DEF ChannelCall, SaveSwitch, ClearSwitch, Block, Transfer, RestoreSwitch, Move
<1>4. /\ at' \in [Threads -> Places]
      /\ \A u \in Threads : at[u] \in {"parked", "select", "collecting"} <=>
                            at'[u] \in {"parked", "select", "collecting"}
      /\ \A u \in Threads : at[u] \in {"parked", "select", "collecting"} => at'[u] = at[u]
  <2>1. CASE \E p \in {"running", "saved", "call", "blocked", "restore"} : at' = [at EXCEPT ![t] = p]
    BY <1>1, <2>1 DEF WorldInv, Places, Mutating, In
  <2>2. CASE \E w \in In({"blocked"}) : at' = [at EXCEPT ![t] = "restore", ![w] = "call"]
    BY <1>1, <2>2 DEF WorldInv, Places, Mutating, In
  <2> QED
    BY <1>3, <2>1, <2>2
<1>5. In({"parked", "select"})' = In({"parked", "select"})
  BY <1>4 DEF In
<1>6. SweeperHoldsTheMutex' /\ QuietWorld'
  BY <1>1, <1>2, <1>4, MutatorStep
<1> QED
  BY <1>2, <1>4, <1>5, <1>6 DEF WorldInv, ParkedCountIsExact

\* Every step keeps the invariant.
LEMMA WorldStepKeeps == WorldInv /\ [WorldNext]_worldVars => WorldInv'
<1> SUFFICES ASSUME WorldInv, [WorldNext]_worldVars PROVE WorldInv'
  OBVIOUS
<1>1. CASE UNCHANGED worldVars
  BY <1>1 DEF worldVars, WorldInv, ParkedCountIsExact, SweeperHoldsTheMutex, QuietWorld, MutexFree,
              Mutating, In
<1>2. CASE \E t \in Threads : WorldStep(t)
  <2> PICK t \in Threads : WorldStep(t)
    BY <1>2
  <2> QED
    BY RegisterKeeps, ParkKeeps, UnparkKeeps, StopKeeps, BeginCollectionKeeps, StartKeeps,
       ChannelCallKeeps DEF WorldStep, Safepoint, Collector, Region
<1> QED
  BY <1>1, <1>2 DEF WorldNext

-----------------------------------------------------------------------------
\* The inductive invariant holds in every state of the protocol.
THEOREM WorldInvHolds == WorldSpec => []WorldInv
BY WorldStartsRight, WorldStepKeeps, PTL DEF WorldSpec

\* The count of parked threads is a number of threads, and all has its type.
THEOREM WorldTypesHold == WorldSpec => []WorldTypeOK
<1>1. WorldInv => WorldTypeOK
  <2> SUFFICES ASSUME WorldInv PROVE parked \in 0 .. Cardinality(Threads)
    BY DEF WorldInv, WorldTypeOK
  <2> QED
    BY CountedIsFinite DEF WorldInv, ParkedCountIsExact, Counted
<1> QED
  BY <1>1, WorldInvHolds, PTL

\* The count the collector waits on is the number of threads parked by
\* ep_gc_park_if_stopped or in the blocking region of a select.
THEOREM ParkedExactly == WorldSpec => []ParkedCountIsExact
BY WorldInvHolds, PTL DEF WorldInv

\* A collection that began with nobody running stays alone to its end.
THEOREM QuietStaysQuiet == WorldSpec => []QuietWorld
BY WorldInvHolds, PTL DEF WorldInv

-----------------------------------------------------------------------------
(* The bare machine: all that was handed out lies before the position. *)

ArenaInv ==
    /\ BootTypeOK
    /\ next <= HeapBytes /\ next % 16 = 0
    /\ \A b \in blocks : b.from % 16 = 0 /\ b.from + b.bytes <= next
    /\ \A b, c \in blocks : b # c => Bytes(b) \cap Bytes(c) = {}

\* Rounding up adds less than a unit, and does not leave the arena.
LEMMA RoundingUp ==
    ASSUME NEW x \in 0 .. HeapBytes
    PROVE  /\ Aligned(x) \in x .. HeapBytes /\ Aligned(x) % 16 = 0
           /\ Wrap(HeapBytes - Aligned(x)) = HeapBytes - Aligned(x)
<1>1. /\ HeapBytes \in Nat /\ HeapBytes % 16 = 0 /\ Modulus \in Nat
      /\ HeapBytes + 16 <= Modulus /\ x \in Nat /\ x <= HeapBytes
  BY SizesAssumption
<1>2. Wrap(x + 15) = x + 15
  BY <1>1 DEF Wrap
<1>3. Aligned(x) = x + 15 - ((x + 15) % 16)
  BY <1>2 DEF Aligned
<1>4. (x + 15) % 16 \in 0 .. 15
  BY <1>1
<1>5. x <= Aligned(x) /\ Aligned(x) <= x + 15 /\ Aligned(x) \in Nat
  BY <1>1, <1>3, <1>4
<1>6. Aligned(x) % 16 = 0
  BY <1>1, <1>3
<1>7. Aligned(x) <= HeapBytes
  BY <1>1, <1>3, <1>5, <1>6
<1>8. Wrap(HeapBytes - Aligned(x)) = HeapBytes - Aligned(x)
  BY <1>1, <1>5, <1>7 DEF Wrap
<1> QED
  BY <1>1, <1>5, <1>6, <1>7, <1>8

\* The fields of a block are numbers.
LEMMA BlocksHaveNumbers ==
    ASSUME BootTypeOK, NEW b \in blocks
    PROVE  b.from \in Nat /\ b.bytes \in Nat
<1>1. b \in [from : 0 .. Modulus - 1, bytes : Sizes]
  BY DEF BootTypeOK
<1>2. b.from \in 0 .. Modulus - 1 /\ b.bytes \in 0 .. Modulus - 1
  BY SizesAssumption, <1>1
<1> QED
  BY SizesAssumption, <1>2

\* A new block begins where the others end.
LEMMA AllocateKeeps ==
    ASSUME ArenaInv, Sizes \subseteq 0 .. HeapBytes, NEW bytes \in Sizes, Allocate(bytes)
    PROVE  ArenaInv'
<1> DEFINE new == [from |-> next, bytes |-> bytes]
<1>1. /\ HeapBytes \in Nat /\ Modulus \in Nat /\ HeapBytes + 16 <= Modulus
      /\ Sizes \subseteq 0 .. Modulus - 1
  BY SizesAssumption
<1>2. /\ Aligned(bytes) \in bytes .. HeapBytes /\ Aligned(bytes) % 16 = 0
      /\ Wrap(HeapBytes - Aligned(bytes)) = HeapBytes - Aligned(bytes)
      /\ bytes \in Nat /\ next \in Nat /\ next % 16 = 0
  BY <1>1, RoundingUp DEF ArenaInv, BootTypeOK
<1>3. next + Aligned(bytes) <= HeapBytes
  BY <1>1, <1>2 DEF Allocate, Fits
<1>4. next' = next + Aligned(bytes)
  BY <1>1, <1>2, <1>3 DEF Allocate, Wrap
<1>5. next' % 16 = 0
  BY <1>2, <1>4
<1>6. blocks' = blocks \cup {new} /\ new.from = next /\ new.bytes = bytes
  BY DEF Allocate
<1>7. BootTypeOK' /\ next' <= HeapBytes
  BY <1>1, <1>2, <1>3, <1>4, <1>6 DEF ArenaInv, BootTypeOK
<1>8. \A b \in blocks' : b.from % 16 = 0 /\ b.from + b.bytes <= next'
  <2> SUFFICES ASSUME NEW b \in blocks' PROVE b.from % 16 = 0 /\ b.from + b.bytes <= next'
    OBVIOUS
  <2>1. CASE b = new
    BY <1>2, <1>4, <1>6, <2>1
  <2>2. CASE b \in blocks
    <3>1. b.from \in Nat /\ b.bytes \in Nat
      BY <2>2, BlocksHaveNumbers DEF ArenaInv
    <3> QED
      BY <1>1, <1>2, <1>4, <2>2, <3>1 DEF ArenaInv
  <2> QED
    BY <1>6, <2>1, <2>2
<1>9. \A b \in blocks : Bytes(b) \cap Bytes(new) = {}
  <2> SUFFICES ASSUME NEW b \in blocks PROVE Bytes(b) \cap Bytes(new) = {}
    OBVIOUS
  <2>1. b.from \in Nat /\ b.bytes \in Nat /\ b.from + b.bytes <= next
    BY BlocksHaveNumbers DEF ArenaInv
  <2> QED
    BY <1>2, <1>6, <2>1 DEF Bytes
<1>10. \A b, c \in blocks' : b # c => Bytes(b) \cap Bytes(c) = {}
  BY <1>6, <1>9 DEF ArenaInv
<1> QED
  BY <1>5, <1>7, <1>8, <1>10 DEF ArenaInv

\* The invariant holds as long as nobody asks for more than the arena holds.
THEOREM ArenaInvHolds ==
    ASSUME Sizes \subseteq 0 .. HeapBytes
    PROVE  BootSpec => []ArenaInv
<1>1. BootInit => ArenaInv
  BY SizesAssumption DEF BootInit, ArenaInv, BootTypeOK
<1>2. ArenaInv /\ [BootNext]_bootVars => ArenaInv'
  <2> SUFFICES ASSUME ArenaInv, [BootNext]_bootVars PROVE ArenaInv'
    OBVIOUS
  <2>1. CASE Reset
    BY SizesAssumption, <2>1 DEF Reset, ArenaInv, BootTypeOK
  <2>2. ASSUME NEW bytes \in Sizes, Allocate(bytes) PROVE ArenaInv'
    BY <2>2, AllocateKeeps
  <2>3. CASE UNCHANGED bootVars
    BY <2>3 DEF bootVars, ArenaInv, BootTypeOK
  <2> QED
    BY <2>1, <2>2, <2>3 DEF BootNext
<1> QED
  BY <1>1, <1>2, PTL DEF BootSpec

\* Blocks that were handed out lie in the arena and do not overlap.
THEOREM BlocksStayApart ==
    ASSUME Sizes \subseteq 0 .. HeapBytes
    PROVE  BootSpec => []BlocksAreApart
<1>1. ArenaInv => BlocksAreApart
  <2> SUFFICES ASSUME ArenaInv, NEW b \in blocks PROVE Bytes(b) \subseteq 0 .. HeapBytes - 1
    BY DEF ArenaInv, BlocksAreApart
  <2>1. /\ b.from \in Nat /\ b.bytes \in Nat /\ b.from + b.bytes <= next
        /\ next \in Nat /\ next <= HeapBytes /\ HeapBytes \in Nat
    BY SizesAssumption, BlocksHaveNumbers DEF ArenaInv, BootTypeOK
  <2> QED
    BY <2>1 DEF Bytes
<1> QED
  BY <1>1, ArenaInvHolds, PTL

\* What the rest of the arena holds is never refused: the position and the end
\* of the arena are both whole numbers of units.
THEOREM RoomIsUsed ==
    ASSUME Sizes \subseteq 0 .. HeapBytes
    PROVE  BootSpec => []NoRoomIsWasted
<1>1. ArenaInv => NoRoomIsWasted
  <2> SUFFICES ASSUME ArenaInv, NEW bytes \in Sizes, bytes # 0, next + bytes <= HeapBytes
               PROVE  Fits(bytes)
    BY DEF NoRoomIsWasted
  <2>1. /\ next \in Nat /\ next % 16 = 0 /\ HeapBytes \in Nat /\ HeapBytes % 16 = 0
        /\ bytes \in Nat /\ bytes <= HeapBytes
    BY SizesAssumption DEF ArenaInv, BootTypeOK
  <2>2. /\ Aligned(bytes) \in bytes .. HeapBytes /\ Aligned(bytes) % 16 = 0
        /\ Wrap(HeapBytes - Aligned(bytes)) = HeapBytes - Aligned(bytes)
    BY <2>1, RoundingUp
  <2>3. Aligned(bytes) < bytes + 16
    <3>1. Wrap(bytes + 15) = bytes + 15
      BY SizesAssumption, <2>1 DEF Wrap
    <3>2. (bytes + 15) % 16 \in 0 .. 15
      BY <2>1
    <3> QED
      BY <2>1, <3>1, <3>2 DEF Aligned
  <2>4. next + Aligned(bytes) <= HeapBytes
    BY <2>1, <2>2, <2>3
  <2> QED
    BY <2>1, <2>2, <2>4 DEF Fits
<1> QED
  BY <1>1, ArenaInvHolds, PTL
=============================================================================
