-------------------------------- MODULE Heap --------------------------------
(***************************************************************************)
(* The generational mark-and-sweep heap of the Ernos runtime               *)
(* (toolchain/epc_bootstrap.c): registration, the shadow stacks of roots,  *)
(* the write barrier with its remembered set, minor and major collections, *)
(* and the explicit free of a list.  How the world is stopped around a     *)
(* collection is GcWorld; here a collection is one step.                   *)
(*                                                                         *)
(* An object is its address, so a freed object may come back as a new one. *)
(* A thread keeps a value in a variable whose address is on its shadow     *)
(* stack, in a register or on its C stack ("temps"), in a block it has not *)
(* registered yet, or in the argument block of a task.  The collector does *)
(* not look everywhere: what it takes from where it does not look is lost, *)
(* and "lost" records that, so that the properties can say of everything   *)
(* else that it is kept.                                                   *)
(***************************************************************************)
EXTENDS Naturals, Sequences, FiniteSets, GcThreads

CONSTANTS
    Obj,            \* addresses
    Tasks,          \* tasks of the scheduler: their frame may hold values
    Chans,          \* channels
    ScannedChans,   \* those that found a place in the registry of channels
    Kinds,          \* kinds of object a program allocates
    MaxRoots,       \* EP_GC_MAX_ROOTS
    NurseryLimit,   \* ep_gc_nursery_threshold
    ThresholdFloor  \* the least value of ep_gc_threshold

\* "list": a list, map or struct, whose contents are marked through it;
\* "leaf": a string; "future": marked through as well, but it gets its value
\* without a write barrier; "variant": an enum value, registered without a
\* number of fields, so that its payload is not marked through it.
ASSUME HeapAssumption ==
    /\ IsFiniteSet(Obj)
    /\ ScannedChans \subseteq Chans
    /\ Kinds # {} /\ Kinds \subseteq {"list", "leaf", "future", "variant"}
    /\ MaxRoots \in Nat /\ NurseryLimit \in Nat \ {0}
    /\ ThresholdFloor \in Nat

VARIABLES
    alive,      \* registered objects: the list ep_gc_head and the table
    kind,       \* kind of each object
    gen,        \* generation: 0 young, 1 old
    refs,       \* refs[o]: the objects o holds
    remembered, \* ep_gc_remembered_set
    nursery,    \* ep_gc_nursery_count
    count,      \* ep_gc_count
    threshold,  \* ep_gc_threshold
    shadow,     \* shadow[t]: what the variables on the shadow stack hold
    temps,      \* temps[t]: what only registers or the C stack hold
    building,   \* building[t]: the structs and variants t is filling
    storing,    \* storing[t]: <<host, value>> written, barrier still to come
    inflight,   \* inflight[c]: what the buffer of channel c holds
    frame,      \* frame[k]: what the argument block of task k holds
    queued,     \* tasks in the run queue or among the timers
    lost        \* a collection took what was held where it does not look

heapVars == <<alive, kind, gen, refs, remembered, nursery, count, threshold>>
holders == <<shadow, temps, building, storing, inflight, frame, queued>>
vars == <<heapVars, holders, lost>>

Idle == <<>>
NoKind == CHOOSE k \in Kinds : TRUE    \* of an address that is not in use
Young == {o \in alive : gen[o] = 0}

TypeOK ==
    /\ alive \subseteq Obj /\ remembered \subseteq Obj
    /\ kind \in [Obj -> Kinds]
    /\ gen \in [Obj -> {0, 1}]
    /\ refs \in [Obj -> SUBSET Obj]
    /\ nursery \in Nat /\ count \in Nat
    /\ threshold \in Nat /\ threshold >= ThresholdFloor
    /\ shadow \in [Threads -> Seq(Obj)]
    /\ temps \in [Threads -> SUBSET Obj]
    /\ building \in [Threads -> Seq(SUBSET Obj)]
    /\ storing \in [Threads -> {Idle} \cup (Obj \X Obj)]
    /\ inflight \in [Chans -> SUBSET Obj]
    /\ frame \in [Tasks -> SUBSET Obj]
    /\ queued \subseteq Tasks
    /\ lost \in BOOLEAN

Init ==
    /\ alive = {} /\ remembered = {}
    /\ kind = [o \in Obj |-> NoKind]
    /\ gen = [o \in Obj |-> 0]
    /\ refs = [o \in Obj |-> {}]
    /\ nursery = 0 /\ count = 0 /\ threshold = ThresholdFloor
    /\ shadow = [t \in Threads |-> <<>>]
    /\ temps = [t \in Threads |-> {}]
    /\ building = [t \in Threads |-> <<>>]
    /\ storing = [t \in Threads |-> Idle]
    /\ inflight = [c \in Chans |-> {}]
    /\ frame = [k \in Tasks |-> {}]
    /\ queued = {} /\ lost = FALSE

-----------------------------------------------------------------------------
(* What a collection starts from. *)

\* The roots of t that found a place: the depth counts on above MaxRoots,
\* but those variables are not looked at.
Stored(t) == {shadow[t][i] : i \in {j \in 1 .. Len(shadow[t]) : j <= MaxRoots}}

\* Everything the precise part of marking sees, from whatever thread.
Precise ==
    {o \in Obj : \/ \E t \in Threads : o \in Stored(t)
                 \/ \E c \in ScannedChans : o \in inflight[c]
                 \/ \E k \in queued : o \in frame[k]}

\* Mutants: a minor collection trusts the shadow stacks and forgets the
\* remembered set; or the own C stack.
MinorRootsUnremembered(t) == Precise \cup temps[t]
MinorRootsShadowOnly(t) == Precise \cup remembered

\* ep_gc_mark_minor, in thread t: also t's own C stack, and what old objects
\* were given since the last collection.
MinorRoots(t) == Precise \cup temps[t] \cup remembered

\* ep_gc_mark: also the C stacks of all threads.
MajorRoots == Precise \cup {o \in Obj : \E t \in Threads : o \in temps[t]}

\* What marking follows from an object.
Traced(o) == IF kind[o] \in {"list", "future"} THEN refs[o] ELSE {}

\* The objects of domain D that marking reaches from start: the least subset
\* of D with D's part of start that is closed under Traced.
Marked(start, D) ==
    {o \in D : \A C \in SUBSET D :
        (/\ start \cap D \subseteq C
         /\ \A c \in C : Traced(c) \cap D \subseteq C) => o \in C}

-----------------------------------------------------------------------------
(* Where no collection looks. *)

\* Variables above MaxRoots, blocks that are not registered yet, buffers of
\* channels outside the registry, and the blocks of tasks that are neither in
\* the run queue nor among the timers: suspended, or in a step, whose locals
\* are nowhere else.
Unseen ==
    {o \in Obj :
        \/ \E t \in Threads : \E i \in 1 .. Len(shadow[t]) : i > MaxRoots /\ shadow[t][i] = o
        \/ \E t \in Threads : \E i \in 1 .. Len(building[t]) : o \in building[t][i]
        \/ \E c \in Chans \ ScannedChans : o \in inflight[c]
        \/ \E k \in Tasks \ queued : o \in frame[k]}

\* A minor collection in t does not look at the C stacks of other threads
\* either, nor through an old future, whose value nobody remembers.
UnseenByMinor(t) ==
    Unseen \cup
    {o \in Obj : \/ \E u \in Threads \ {t} : o \in temps[u]
                 \/ \E h \in alive : kind[h] = "future" /\ gen[h] = 1 /\ o \in refs[h]}

-----------------------------------------------------------------------------
(* The program. *)

InHand(t) == temps[t] \cup {shadow[t][i] : i \in 1 .. Len(shadow[t])}

\* t is not inside a store.
Between(t) == storing[t] = Idle

\* ep_gc_register: a new young object at o, which holds payload.
GcRegister(t, o, k, payload) ==
    /\ o \notin alive
    /\ alive' = alive \cup {o}
    /\ kind' = [kind EXCEPT ![o] = k]
    /\ gen' = [gen EXCEPT ![o] = 0]
    /\ refs' = [refs EXCEPT ![o] = payload]
    /\ nursery' = nursery + 1
    /\ count' = count + 1
    /\ temps' = [temps EXCEPT ![t] = @ \cup {o}]
    /\ UNCHANGED <<remembered, threshold, shadow, storing, inflight, frame, queued, lost>>

\* A list, a map, a string or a future is empty when it is registered.
Create(t, o, k) ==
    /\ Between(t) /\ k # "variant"
    /\ GcRegister(t, o, k, {})
    /\ UNCHANGED building

\* A struct or a variant is a bare block first (also a closure's environment,
\* which stays one).  The value of a field may be a struct of its own.
StartBlock(t) ==
    /\ Between(t)
    /\ building' = [building EXCEPT ![t] = Append(@, {})]
    /\ UNCHANGED <<heapVars, shadow, temps, storing, inflight, frame, queued, lost>>

\* The value of one field is computed, and stored.
Fill(t, v) ==
    /\ Between(t)
    /\ building[t] # <<>> /\ v \in InHand(t)
    /\ building' = [building EXCEPT ![t][Len(building[t])] = @ \cup {v}]
    /\ UNCHANGED <<heapVars, shadow, temps, storing, inflight, frame, queued, lost>>

\* All fields are there: the block is registered, with its number of fields.
RegisterBlock(t, o, k) ==
    /\ Between(t) /\ k \in {"list", "variant"}
    /\ building[t] # <<>>
    /\ GcRegister(t, o, k, building[t][Len(building[t])])
    /\ building' = [building EXCEPT ![t] = SubSeq(@, 1, Len(@) - 1)]

\* get_list, a field or a map value: read into a register.
Fetch(t, h, v) ==
    /\ Between(t)
    /\ h \in InHand(t) /\ v \in refs[h]
    /\ temps' = [temps EXCEPT ![t] = @ \cup {v}]
    /\ UNCHANGED <<heapVars, shadow, building, storing, inflight, frame, queued, lost>>

\* pop_list, remove_list, or an overwritten place: h holds v no longer.
Remove(t, h, v) ==
    /\ Between(t)
    /\ h \in InHand(t) /\ v \in refs[h]
    /\ refs' = [refs EXCEPT ![h] = @ \ {v}]
    /\ temps' = [temps EXCEPT ![t] = @ \cup {v}]
    /\ UNCHANGED <<alive, kind, gen, remembered, nursery, count, threshold,
                   shadow, building, storing, inflight, frame, queued, lost>>

\* The expression is over: registers and stack are used for something else.
Forget(t) ==
    /\ Between(t)
    /\ temps[t] # {}
    /\ temps' = [temps EXCEPT ![t] = {}]
    /\ UNCHANGED <<heapVars, shadow, building, storing, inflight, frame, queued, lost>>

\* ep_gc_push_root of a variable that holds v.
PushRoot(t, v) ==
    /\ Between(t)
    /\ v \in InHand(t)
    /\ shadow' = [shadow EXCEPT ![t] = Append(@, v)]
    /\ UNCHANGED <<heapVars, temps, building, storing, inflight, frame, queued, lost>>

\* ep_gc_pop_roots.
PopRoot(t) ==
    /\ Between(t)
    /\ shadow[t] # <<>>
    /\ shadow' = [shadow EXCEPT ![t] = SubSeq(@, 1, Len(@) - 1)]
    /\ UNCHANGED <<heapVars, temps, building, storing, inflight, frame, queued, lost>>

\* append_list, set_list, map_insert or a field set, up to the barrier.  Both
\* are arguments of the call, in registers or on the C stack until it returns.
Write(t, h, v) ==
    /\ Between(t)
    /\ {h, v} \subseteq InHand(t)
    /\ kind[h] = "list"
    /\ refs' = [refs EXCEPT ![h] = @ \cup {v}]
    /\ storing' = [storing EXCEPT ![t] = <<h, v>>]
    /\ temps' = [temps EXCEPT ![t] = @ \cup {h, v}]
    /\ UNCHANGED <<alive, kind, gen, remembered, nursery, count, threshold,
                   shadow, building, inflight, frame, queued, lost>>

\* A future gets its value, at the end of a step.
Complete(t, h, v) ==
    /\ Between(t)
    /\ {h, v} \subseteq InHand(t)
    /\ kind[h] = "future" /\ refs[h] = {}
    /\ refs' = [refs EXCEPT ![h] = {v}]
    /\ UNCHANGED <<alive, kind, gen, remembered, nursery, count, threshold,
                   holders, lost>>

\* Mutant: the barrier looks at the generation of the value only after
\* asking for a young host.
BarrierYoungHost(t) ==
    /\ ~Between(t)
    /\ LET h == storing[t][1]
           v == storing[t][2]
       IN  remembered' = IF {h, v} \subseteq alive /\ gen[h] = 0 /\ gen[v] = 0
                         THEN remembered \cup {v} ELSE remembered
    /\ storing' = [storing EXCEPT ![t] = Idle]
    /\ UNCHANGED <<alive, kind, gen, refs, nursery, count, threshold,
                   shadow, temps, building, inflight, frame, queued, lost>>

\* ep_gc_write_barrier of the store that t is in.
Barrier(t) ==
    /\ ~Between(t)
    /\ LET h == storing[t][1]
           v == storing[t][2]
       IN  remembered' = IF {h, v} \subseteq alive /\ gen[h] = 1 /\ gen[v] = 0
                         THEN remembered \cup {v} ELSE remembered
    /\ storing' = [storing EXCEPT ![t] = Idle]
    /\ UNCHANGED <<alive, kind, gen, refs, nursery, count, threshold,
                   shadow, temps, building, inflight, frame, queued, lost>>

\* A value travels in the buffer of a channel.
Send(t, c, v) ==
    /\ Between(t)
    /\ v \in InHand(t)
    /\ inflight' = [inflight EXCEPT ![c] = @ \cup {v}]
    /\ UNCHANGED <<heapVars, shadow, temps, building, storing, frame, queued, lost>>

Receive(t, c, v) ==
    /\ Between(t)
    /\ v \in inflight[c]
    /\ inflight' = [inflight EXCEPT ![c] = @ \ {v}]
    /\ temps' = [temps EXCEPT ![t] = @ \cup {v}]
    /\ UNCHANGED <<heapVars, shadow, building, storing, frame, queued, lost>>

\* An async call: the arguments go into the block of the new task, which is
\* queued.
Enqueue(t, k, v) ==
    /\ Between(t)
    /\ k \notin queued /\ frame[k] = {}
    /\ v \in InHand(t)
    /\ frame' = [frame EXCEPT ![k] = {v}]
    /\ queued' = queued \cup {k}
    /\ UNCHANGED <<heapVars, shadow, temps, building, storing, inflight, lost>>

\* The task leaves its queue and is stepped; its block stays.
Dequeue(t, k) ==
    /\ Between(t)
    /\ k \in queued
    /\ queued' = queued \ {k}
    /\ UNCHANGED <<heapVars, shadow, temps, building, storing, inflight, frame, lost>>

\* A step reads its variables and sets them: they are in its block.
Load(t, k, v) ==
    /\ Between(t)
    /\ k \notin queued /\ v \in frame[k]
    /\ temps' = [temps EXCEPT ![t] = @ \cup {v}]
    /\ UNCHANGED <<heapVars, shadow, building, storing, inflight, frame, queued, lost>>

Keep(t, k, v) ==
    /\ Between(t)
    /\ k \notin queued /\ v \in InHand(t)
    /\ frame' = [frame EXCEPT ![k] = @ \cup {v}]
    /\ UNCHANGED <<heapVars, shadow, temps, building, storing, inflight, queued, lost>>

\* What a task that is suspended, or armed for a socket, waits for has come.
Wake(t, k) ==
    /\ Between(t)
    /\ k \notin queued /\ frame[k] # {}
    /\ queued' = queued \cup {k}
    /\ UNCHANGED <<heapVars, shadow, temps, building, storing, inflight, frame, lost>>

\* The last step is over: the block is freed.
Finish(t, k) ==
    /\ Between(t)
    /\ k \notin queued /\ frame[k] # {}
    /\ frame' = [frame EXCEPT ![k] = {}]
    /\ UNCHANGED <<heapVars, shadow, temps, building, storing, inflight, queued, lost>>

\* Where else than in t's registers the program could find o.
HeldElsewhere(t, o) ==
    \/ \E h \in alive : o \in refs[h]
    \/ \E u \in Threads : \/ \E i \in 1 .. Len(shadow[u]) : shadow[u][i] = o
                          \/ \E i \in 1 .. Len(building[u]) : o \in building[u][i]
                          \/ (u # t /\ o \in temps[u])
                          \/ (storing[u] # Idle /\ o \in {storing[u][1], storing[u][2]})
    \/ \E c \in Chans : o \in inflight[c]
    \/ \E k \in Tasks : o \in frame[k]

\* Mutant: the remembered set keeps the freed address.
FreeStillRemembered(t, o) ==
    /\ Between(t)
    /\ o \in temps[t] \cap alive /\ kind[o] = "list"
    /\ ~HeldElsewhere(t, o)
    /\ alive' = alive \ {o}
    /\ nursery' = IF gen[o] = 0 THEN nursery - 1 ELSE nursery
    /\ count' = count - 1
    /\ kind' = [kind EXCEPT ![o] = NoKind]
    /\ gen' = [gen EXCEPT ![o] = 0]
    /\ refs' = [refs EXCEPT ![o] = {}]
    /\ temps' = [temps EXCEPT ![t] = @ \ {o}]
    /\ UNCHANGED <<remembered, threshold, shadow, building, storing, inflight, frame,
                   queued, lost>>

\* free_list of a list the program holds nowhere else: ep_gc_unregister, then
\* free.  Of something that is not registered it does nothing.
Free(t, o) ==
    /\ Between(t)
    /\ o \in temps[t] \cap alive /\ kind[o] = "list"
    /\ ~HeldElsewhere(t, o)
    /\ remembered' = remembered \ {o}
    /\ alive' = alive \ {o}
    /\ nursery' = IF gen[o] = 0 THEN nursery - 1 ELSE nursery
    /\ count' = count - 1
    /\ kind' = [kind EXCEPT ![o] = NoKind]
    /\ gen' = [gen EXCEPT ![o] = 0]
    /\ refs' = [refs EXCEPT ![o] = {}]
    /\ temps' = [temps EXCEPT ![t] = @ \ {o}]
    /\ UNCHANGED <<threshold, shadow, building, storing, inflight, frame, queued, lost>>

-----------------------------------------------------------------------------
(* Collections. *)

\* What is left after the minor part of a collection in thread t: old objects
\* and the young ones reached.  It runs only when the nursery is full.
AfterMinor(t) ==
    IF nursery >= NurseryLimit
    THEN (alive \ Young) \cup Marked(MinorRoots(t), Young)
    ELSE alive

\* The major part follows when what the minor one left still is too much.
MajorFollows(t) ==
    count - Cardinality(alive \ AfterMinor(t)) >= threshold

AfterMajor(t) ==
    IF MajorFollows(t) THEN Marked(MajorRoots, AfterMinor(t)) ELSE AfterMinor(t)

\* The threshold after a major collection that left n objects.
NewThreshold(n) == IF 2 * n < ThresholdFloor THEN ThresholdFloor ELSE 2 * n

\* ep_gc_maybe_collect past its thresholds: mark and sweep; each sweep makes
\* every survivor old and empties the remembered set.
Collect(t) ==
    /\ Between(t)
    /\ nursery >= NurseryLimit \/ count >= threshold
    /\ LET left == AfterMajor(t)
       IN  /\ alive' = left
           /\ gen' = [o \in Obj |-> IF o \in left THEN 1 ELSE 0]
           /\ kind' = [o \in Obj |-> IF o \in left THEN kind[o] ELSE NoKind]
           /\ refs' = [o \in Obj |-> IF o \in left THEN refs[o] ELSE {}]
           /\ count' = count - Cardinality(alive \ left)
           /\ threshold' = IF ~MajorFollows(t) THEN threshold
                           ELSE NewThreshold(count')
           /\ lost' = (\/ lost
                       \/ UnseenByMinor(t) \cap (alive \ AfterMinor(t)) # {}
                       \/ Unseen \cap (AfterMinor(t) \ left) # {})
    /\ nursery' = nursery - Cardinality(Young)
    /\ remembered' = {}
    /\ UNCHANGED holders

Next ==
    \E t \in Threads :
        \/ \E o \in Obj, k \in Kinds : Create(t, o, k) \/ RegisterBlock(t, o, k)
        \/ \E h, v \in Obj :
            Fetch(t, h, v) \/ Remove(t, h, v) \/ Write(t, h, v) \/ Complete(t, h, v)
        \/ Barrier(t) \/ Forget(t) \/ PopRoot(t) \/ StartBlock(t) \/ Collect(t)
        \/ \E v \in Obj : PushRoot(t, v) \/ Fill(t, v) \/ Free(t, v)
        \/ \E v \in Obj, c \in Chans : Send(t, c, v) \/ Receive(t, c, v)
        \/ \E v \in Obj, k \in Tasks : Enqueue(t, k, v) \/ Load(t, k, v) \/ Keep(t, k, v)
        \/ \E k \in Tasks : Dequeue(t, k) \/ Wake(t, k) \/ Finish(t, k)

Spec == Init /\ [][Next]_vars

-----------------------------------------------------------------------------
(* Properties. *)

\* Whatever a registered object holds is registered: no collection and no
\* free leaves a list, map or struct with a pointer to memory that is gone.
NoDangling == \A h \in alive : refs[h] \subseteq alive

\* What threads, channels and tasks hold, wherever they hold it.
Held ==
    {o \in Obj :
        \/ \E t \in Threads : \/ o \in InHand(t)
                              \/ \E i \in 1 .. Len(building[t]) : o \in building[t][i]
        \/ \E c \in Chans : o \in inflight[c]
        \/ \E k \in Tasks : o \in frame[k]}

\* No collection and no free takes what is still in use, neither what a live
\* object holds nor what a variable, a register, a buffer or a block does, as
\* long as no collection took something from where it does not look.
NothingInUseIsFreed == lost \/ (NoDangling /\ Held \subseteq alive)

\* The remembered set is complete when it matters: a young object held by an
\* old one (not a future) is in it, or the store that put it there is before
\* its barrier.
OldToYoungIsRemembered ==
    \A h \in alive : \A v \in refs[h] :
        kind[h] # "future" /\ gen[h] = 1 /\ gen[v] = 0 =>
            v \in remembered \/ \E t \in Threads : storing[t] = <<h, v>>

\* The remembered set holds young registered objects only: nothing freed and
\* come back as another object is kept alive by an old entry.
RememberedIsYoung == remembered \subseteq Young

\* Minor collections can rely on the remembered set, in both directions.
RememberedAsNeeded == (lost \/ OldToYoungIsRemembered) /\ RememberedIsYoung

\* The counters the thresholds are compared with are exact.
CountsAreExact ==
    /\ count = Cardinality(alive)
    /\ nursery = Cardinality(Young)

\* A collection never frees what the collecting thread holds in a register or
\* on its C stack only.
TemporariesSurvive ==
    [][\A t \in Threads :
        Collect(t) => \A v \in temps[t] \cap alive : v \in alive']_vars
=============================================================================
