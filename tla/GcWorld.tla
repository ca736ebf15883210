------------------------------ MODULE GcWorld ------------------------------
(***************************************************************************)
(* How the Ernos runtime keeps its garbage collector away from running     *)
(* threads (toolchain/epc_bootstrap.c): the stop-the-world protocol under  *)
(* ep_gc_mutex, the blocking region of channel_select, and the global      *)
(* switch ep_gc_enabled that send_channel and receive_channel turn off.    *)
(*                                                                         *)
(* A thread runs program code between two safepoints, which are steps      *)
(* here.  The mutex is held for one step, except by a collecting thread.   *)
(* The collector waits a bounded time for the others (40 rounds) and then  *)
(* goes on, whatever they do; the model remembers whether some thread was  *)
(* still on its way to a safepoint at that moment.                         *)
(***************************************************************************)
EXTENDS Naturals, FiniteSets, GcThreads

ASSUME ThreadsAssumption == IsFiniteSet(Threads)

VARIABLES
    at,         \* at[t]: where thread t is
    stop,       \* ep_gc_stop_requested
    parked,     \* ep_gc_parked_count
    enabled,    \* ep_gc_enabled
    saved,      \* saved[t]: gc_was_enabled of its channel call
    sweeping    \* is the heap marked and swept: "no", "quiet", or "hasty",
                \* begun while a running thread had missed the 40 rounds

worldVars == <<at, stop, parked, enabled, saved, sweeping>>

Places == {"absent", "running", "stopping", "collecting", "parked", "select",
           "saved", "call", "blocked", "restore"}

WorldTypeOK ==
    /\ at \in [Threads -> Places]
    /\ stop \in BOOLEAN /\ enabled \in BOOLEAN
    /\ sweeping \in {"no", "quiet", "hasty"}
    /\ parked \in 0 .. Cardinality(Threads)
    /\ saved \in [Threads -> BOOLEAN]

WorldInit ==
    /\ at = [t \in Threads |-> "absent"]
    /\ stop = FALSE /\ parked = 0 /\ enabled = TRUE /\ sweeping = "no"
    /\ saved = [t \in Threads |-> FALSE]

In(places) == {t \in Threads : at[t] \in places}

\* ep_gc_mutex is free: nobody holds it through a collection.
MutexFree == In({"collecting"}) = {}

Move(t, place) == at' = [at EXCEPT ![t] = place]

-----------------------------------------------------------------------------
(* Threads come and go. *)

Register(t) ==
    /\ at[t] = "absent" /\ MutexFree
    /\ Move(t, "running")
    /\ UNCHANGED <<stop, parked, enabled, saved, sweeping>>

Unregister(t) ==
    /\ at[t] = "running" /\ MutexFree
    /\ Move(t, "absent")
    /\ UNCHANGED <<stop, parked, enabled, saved, sweeping>>

-----------------------------------------------------------------------------
(* Safepoints and collections. *)

\* ep_gc_park_if_stopped, at an allocation or in ep_gc_maybe_collect.
Park(t) ==
    /\ at[t] = "running" /\ MutexFree
    /\ stop
    /\ parked' = parked + 1
    /\ Move(t, "parked")
    /\ UNCHANGED <<stop, enabled, saved, sweeping>>

Unpark(t) ==
    /\ at[t] = "parked" /\ MutexFree
    /\ ~stop
    /\ parked' = parked - 1
    /\ Move(t, "running")
    /\ UNCHANGED <<stop, enabled, saved, sweeping>>

\* ep_gc_maybe_collect: over the threshold, nobody else collects.
StopTheWorld(t) ==
    /\ at[t] = "running" /\ MutexFree
    /\ enabled /\ ~stop
    /\ stop' = TRUE
    /\ Move(t, "stopping")
    /\ UNCHANGED <<parked, enabled, saved, sweeping>>

Others(t) == Threads \ ({t} \cup In({"absent"}))

\* The threads that run program code and have not reached a safepoint.
Mutating == In({"running", "saved", "call", "restore"})

\* The switch decides whether the collection takes place.
Sweep == sweeping' = IF ~enabled THEN "no" ELSE IF Mutating = {} THEN "quiet" ELSE "hasty"

\* Mutant: the collector waits for the others without the bound of 40 rounds.
BeginPatiently(t) ==
    /\ at[t] = "stopping" /\ MutexFree
    /\ parked >= Cardinality(Others(t))
    /\ Move(t, "collecting")
    /\ Sweep
    /\ UNCHANGED <<stop, parked, enabled, saved>>

\* The wait of ep_gc_stop_the_world is over: all others are parked, or the 40
\* rounds are.  That other threads are parked need not be asked for: the rounds
\* may be over at any moment.
BeginCollection(t) ==
    /\ at[t] = "stopping" /\ MutexFree
    /\ Move(t, "collecting")
    /\ Sweep
    /\ UNCHANGED <<stop, parked, enabled, saved>>

StartTheWorld(t) ==
    /\ at[t] = "collecting"
    /\ stop' = FALSE
    /\ sweeping' = "no"
    /\ Move(t, "running")
    /\ UNCHANGED <<parked, enabled, saved>>

-----------------------------------------------------------------------------
(* channel_select: a blocking region that counts as parked. *)

EnterSelect(t) ==
    /\ at[t] = "running" /\ MutexFree
    /\ parked' = parked + 1
    /\ Move(t, "select")
    /\ UNCHANGED <<stop, enabled, saved, sweeping>>

\* Mutant: channel_select returns without waiting for the collection to end.
LeaveSelectAtOnce(t) ==
    /\ at[t] = "select"
    /\ parked' = parked - 1
    /\ Move(t, "running")
    /\ UNCHANGED <<stop, enabled, saved, sweeping>>

LeaveSelect(t) ==
    /\ at[t] = "select" /\ MutexFree
    /\ ~stop
    /\ parked' = parked - 1
    /\ Move(t, "running")
    /\ UNCHANGED <<stop, enabled, saved, sweeping>>

-----------------------------------------------------------------------------
(* send_channel and receive_channel: no safepoint inside. *)

\* int gc_was_enabled = ep_gc_enabled;
SaveSwitch(t) ==
    /\ at[t] = "running"
    /\ saved' = [saved EXCEPT ![t] = enabled]
    /\ Move(t, "saved")
    /\ UNCHANGED <<stop, parked, enabled, sweeping>>

\* ep_gc_enabled = 0;
ClearSwitch(t) ==
    /\ at[t] = "saved"
    /\ enabled' = FALSE
    /\ Move(t, "call")
    /\ UNCHANGED <<stop, parked, saved, sweeping>>

\* The ring is full or empty: wait until another thread's call changes that.
Block(t) ==
    /\ at[t] = "call"
    /\ Move(t, "blocked")
    /\ UNCHANGED <<stop, parked, enabled, saved, sweeping>>

\* The call does its work on the ring, and may wake a thread that waits for it.
Transfer(t) ==
    /\ at[t] = "call"
    /\ \/ Move(t, "restore")
       \/ \E w \in In({"blocked"}) : at' = [at EXCEPT ![t] = "restore", ![w] = "call"]
    /\ UNCHANGED <<stop, parked, enabled, saved, sweeping>>

\* ep_gc_enabled = gc_was_enabled;
RestoreSwitch(t) ==
    /\ at[t] = "restore"
    /\ enabled' = saved[t]
    /\ saved' = [saved EXCEPT ![t] = FALSE]
    /\ Move(t, "running")
    /\ UNCHANGED <<stop, parked, sweeping>>

-----------------------------------------------------------------------------
Collector(t) == BeginCollection(t) \/ StartTheWorld(t)
ChannelCall(t) == SaveSwitch(t) \/ ClearSwitch(t) \/ Block(t) \/ Transfer(t) \/ RestoreSwitch(t)
Safepoint(t) == Park(t) \/ Unpark(t) \/ StopTheWorld(t)
Region(t) == EnterSelect(t) \/ LeaveSelect(t)

WorldStep(t) ==
    Register(t) \/ Unregister(t) \/ Safepoint(t) \/ Collector(t) \/ Region(t) \/ ChannelCall(t)

WorldNext == \E t \in Threads : WorldStep(t)

WorldSpec == WorldInit /\ [][WorldNext]_worldVars

\* A stopping thread counts its 40 rounds and goes on, and a collection ends.
FairWorldSpec == WorldSpec /\ \A t \in Threads : WF_worldVars(Collector(t))

-----------------------------------------------------------------------------
(* Properties *)

\* The count the collector waits on is the number of threads that are stopped:
\* no thread is counted twice or forgotten on any way in or out.
ParkedCountIsExact == parked = Cardinality(In({"parked", "select"}))

\* "Mark/sweep never runs concurrently with a mutator": a collection that began
\* with every thread parked, in a select or waiting in a channel call stays
\* alone to its end.  A thread that waits in a channel call is not stopped by
\* the collector; it stays out because nobody is left to wake it.
QuietWorld == sweeping = "quiet" => Mutating = {}

\* A stop of the world ends, although a thread that waits in a channel call
\* never reaches a safepoint.
StopEnds == stop ~> ~stop

\* "Suppress GC during channel operations", and only then: the switch is on
\* again when no channel call is under way.  It does not hold: of two calls
\* that overlap, the one that began later may end later, and it saved "off".
SwitchComesBack == In({"saved", "call", "blocked", "restore"}) = {} => enabled
=============================================================================
