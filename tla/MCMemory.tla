------------------------------ MODULE MCMemory ------------------------------
(***************************************************************************)
(* The memory of a program, for TLC.  The target it is compiled for says   *)
(* which runtime it is linked with: the collected heap of a host, or the   *)
(* arena of the bare machine.  A program on a host has threads, rooted     *)
(* variables and channels, or one thread with structs and asynchronous     *)
(* tasks, whose variables are not rooted.                                  *)
(***************************************************************************)
EXTENDS MCHeap, BootHeap

VARIABLE target

MemoryInit == target \in {"threads", "tasks", "bare"} /\ Init /\ BootInit

\* At most one thread holds anything.
Holds(t) == temps[t] # {} \/ building[t] # <<>>
OneThread == \A t, u \in Threads : Holds(t) /\ Holds(u) => t = u

ThreadsNext ==
    /\ Next /\ UNCHANGED <<building, frame, queued>>
    /\ \A o \in alive' : kind'[o] # "future"

TasksNext == Next /\ UNCHANGED <<shadow, inflight>> /\ OneThread'

MemoryNext ==
    /\ UNCHANGED target
    /\ \/ target = "threads" /\ ThreadsNext /\ UNCHANGED bootVars
       \/ target = "tasks" /\ TasksNext /\ UNCHANGED bootVars
       \/ target = "bare" /\ BootNext /\ UNCHANGED vars

MemorySpec == MemoryInit /\ [][MemoryNext]_<<target, vars, bootVars>>
=============================================================================
