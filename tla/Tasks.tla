------------------------------- MODULE Tasks --------------------------------
(***************************************************************************)
(* The scheduler of asynchronous functions (toolchain/epc_bootstrap.c):    *)
(* the run queue, the timers, the readiness of sockets, futures with their *)
(* one waiting task, task groups, timeouts and cancellation.               *)
(*                                                                         *)
(* One thread runs all of it.  The bottom of "stack" is the main program;  *)
(* whoever waits without suspending (await outside an async function, a    *)
(* group, a timeout) drives the scheduler itself, and the tasks it steps   *)
(* run on top of it.  What a program does in its functions is free.        *)
(***************************************************************************)
EXTENDS Naturals, Sequences, FiniteSets, SequencesExt

CONSTANTS
    Task,       \* addresses of tasks: a freed one is used again
    MaxFut,     \* bound on the number of futures made
    Fd,         \* sockets
    Delays,     \* what a program sleeps or waits for at most
    MaxTime,    \* bound of the clock
    MaxDepth,   \* bound on how deep drives are nested
    Results,    \* what async functions return
    Main, None

ASSUME TasksAssumption ==
    /\ Main \notin Task /\ None \notin Task
    /\ MaxFut \in Nat
    /\ Delays \subseteq Nat /\ MaxTime \in Nat
    /\ Results \subseteq {0, 1, 9}
    /\ IsFiniteSet(Fd)

\* Futures, in the order in which they are made.
Fut == 1 .. MaxFut
NoFut == 0

VARIABLES
    task,       \* task[t]: its record, None when t is free
    fut,        \* the records of the futures made so far
    queue,      \* ep_run_queue_head .. ep_run_queue_tail
    timers,     \* ep_timers_head: records of a moment and a task
    armed,      \* armed[s]: the task the event loop wakes for socket s
    sources,    \* ep_active_io_sources
    now,        \* ep_time_now_ms
    group,      \* the futures of the task group
    stack,      \* who runs, and what each below it drives the scheduler for
    failing,    \* the group at the top has yet to look for failures
    over        \* the process has ended

vars == <<task, fut, queue, timers, armed, sources, now, group, stack, failing, over>>

Failed == 9         \* the value -1, which stands for a failure as well
Values == {0, 1, Failed}

\* What a frame of the stack waits for: nothing (it runs), a future, the
\* group, or a future with a timeout.
NotDriving == <<"runs">>
Drives == {NotDriving, <<"group">>} \cup ({"await", "timeout"} \X Fut)

TaskRecord == [kind : {"body", "alarm", "ready", "guard"}, fut : 0 .. MaxFut,
               target : 0 .. MaxFut, parent : Task \cup {None},
               cancelled : BOOLEAN]
FutRecord == [done : BOOLEAN, value : Values, waiter : Task \cup {None}]
TimerRecord == [at : 0 .. MaxTime, task : Task]
FrameRecord == [by : Task \cup {Main}, drive : Drives]

\* NULL is no task.
ASSUME NoneAssumption == None \notin TaskRecord

TypeOK ==
    /\ task \in [Task -> TaskRecord \cup {None}]
    /\ fut \in Seq(FutRecord) /\ Len(fut) <= MaxFut
    /\ queue \in Seq(Task)
    /\ timers \in Seq(TimerRecord)
    /\ armed \in [Fd -> Task \cup {None}]
    /\ sources \in Nat /\ now \in 0 .. MaxTime
    /\ group \in SUBSET Fut
    /\ stack \in Seq(FrameRecord)
    /\ failing \in BOOLEAN /\ over \in BOOLEAN

NoTasks == [t \in Task |-> None]
NoneArmed == [s \in Fd |-> None]
Bottom == <<[by |-> Main, drive |-> NotDriving]>>

Init ==
    /\ task = NoTasks /\ fut = <<>>
    /\ queue = <<>> /\ timers = <<>>
    /\ armed = NoneArmed /\ sources = 0
    /\ now = 0 /\ group = {} /\ stack = Bottom
    /\ failing = FALSE /\ over = FALSE

\* The process ends; nothing of its memory is left.
Exit ==
    /\ task' = NoTasks /\ fut' = <<>>
    /\ queue' = <<>> /\ timers' = <<>>
    /\ armed' = NoneArmed /\ sources' = 0
    /\ now' = 0 /\ group' = {} /\ stack' = Bottom
    /\ failing' = FALSE /\ over' = TRUE

Live == {t \in Task : task[t] # None}
Made == DOMAIN fut
NextFut == Len(fut) + 1
Pending == {f \in Made : ~fut[f].done}
TimerTasks == {timers[i].task : i \in DOMAIN timers}

Top == stack[Len(stack)]
Runs(w) == ~over /\ stack # <<>> /\ Top = [by |-> w, drive |-> NotDriving]
MayDrive == Len(stack) < MaxDepth
Drive(d) == [stack EXCEPT ![Len(stack)].drive = d]

\* ep_current_task, as the parent of what w starts.
AsParent(w) == IF w = Main THEN None ELSE w

NewFut == [done |-> FALSE, value |-> 0, waiter |-> None]
NewTask(kind, own, target, parent) ==
    [kind |-> kind, fut |-> own, target |-> target, parent |-> parent,
     cancelled |-> FALSE]

\* How many timers at the front of the list expire no later than moment.
Due(moment) ==
    CHOOSE k \in 0 .. Len(timers) :
        /\ \A i \in 1 .. k : timers[i].at <= moment
        /\ k < Len(timers) => timers[k + 1].at > moment

\* ep_async_register_timer: behind those that expire no later.
WithTimer(at, t) ==
    SubSeq(timers, 1, Due(at))
      \o <<[at |-> at, task |-> t]>>
      \o SubSeq(timers, Due(at) + 1, Len(timers))

-----------------------------------------------------------------------------
(* What a running function calls. *)

\* An async function: its task waits in the run queue.
Call(w, t) ==
    /\ Runs(w)
    /\ task[t] = None /\ NextFut \in Fut
    /\ task' = [task EXCEPT ![t] = NewTask("body", NextFut, NoFut, AsParent(w))]
    /\ fut' = Append(fut, NewFut)
    /\ queue' = Append(queue, t)
    /\ UNCHANGED <<timers, armed, sources, now, group, stack, failing, over>>

\* sleep_ms.  The main program sleeps at once, and its future is done.
Sleep(w, t, ms) ==
    /\ Runs(w)
    /\ NextFut \in Fut /\ now + ms <= MaxTime
    /\ IF w = Main
       THEN /\ now' = now + ms
            /\ fut' = Append(fut, [NewFut EXCEPT !.done = TRUE])
            /\ UNCHANGED <<task, timers>>
       ELSE /\ task[t] = None
            /\ task' = [task EXCEPT ![t] = NewTask("alarm", NoFut, NextFut, w)]
            /\ fut' = Append(fut, NewFut)
            /\ timers' = WithTimer(now + ms, t)
            /\ UNCHANGED now
    /\ UNCHANGED <<queue, armed, sources, group, stack, failing, over>>

\* async_wait_readable.  The event loop knows one task for a socket: whoever
\* waited for s before is forgotten, and still counted as a source.
WaitReadable(w, t, s) ==
    /\ Runs(w)
    /\ task[t] = None /\ NextFut \in Fut
    /\ task' = [task EXCEPT ![t] = NewTask("ready", NoFut, NextFut, AsParent(w))]
    /\ fut' = Append(fut, NewFut)
    /\ armed' = [armed EXCEPT ![s] = t]
    /\ sources' = sources + 1
    /\ UNCHANGED <<queue, timers, now, group, stack, failing, over>>

\* ep_net_close of a socket that is waited for: the event loop forgets it, and
\* nobody takes its source off the count.
Close(w, s) ==
    /\ Runs(w)
    /\ armed[s] # None
    /\ armed' = [armed EXCEPT ![s] = None]
    /\ UNCHANGED <<task, fut, queue, timers, sources, now, group, stack, failing, over>>

\* await in an async function, of a future that is not done: the task is the
\* one that the future wakes, and its step is over.
Suspend(t, f) ==
    /\ Runs(t) /\ task[t].kind = "body"
    /\ f \in Pending
    /\ fut' = [fut EXCEPT ![f].waiter = t]
    /\ stack' = Front(stack)
    /\ failing' = (stack[Len(stack) - 1].drive = <<"group">>)
    /\ UNCHANGED <<task, queue, timers, armed, sources, now, group, over>>

\* Await outside an async function: ep_await_future.
Await(w, f) ==
    /\ Runs(w) /\ MayDrive
    /\ f \in Pending
    /\ stack' = Drive(<<"await", f>>)
    /\ UNCHANGED <<task, fut, queue, timers, armed, sources, now, group, failing, over>>

\* The task of future f where ep_find_task_by_future looks for it: in the
\* run queue and among the timers, not suspended and not running.
Found(f) == {t \in Range(queue) \cup TimerTasks : task[t].fut = f}

\* add_task_group.
AddToGroup(w, f) ==
    /\ Runs(w)
    /\ f \in Made \ group
    /\ group' = group \cup {f}
    /\ task' = [t \in Task |-> IF t \in Found(f)
                               THEN [task[t] EXCEPT !.parent = AsParent(w)] ELSE task[t]]
    /\ UNCHANGED <<fut, queue, timers, armed, sources, now, stack, failing, over>>

\* wait_task_group.
WaitGroup(w) ==
    /\ Runs(w) /\ MayDrive
    /\ group \cap Pending # {}
    /\ \A i \in DOMAIN stack : stack[i].drive # <<"group">>
    /\ stack' = Drive(<<"group">>)
    /\ UNCHANGED <<task, fut, queue, timers, armed, sources, now, group, failing, over>>

\* async_timeout of a future that is not done: a guard among the timers.
Timeout(w, t, f, ms) ==
    /\ Runs(w) /\ MayDrive
    /\ f \in Pending /\ task[t] = None /\ now + ms <= MaxTime
    /\ task' = [task EXCEPT ![t] = NewTask("guard", NoFut, f, None)]
    /\ timers' = WithTimer(now + ms, t)
    /\ stack' = Drive(<<"timeout", f>>)
    /\ UNCHANGED <<fut, queue, armed, sources, now, group, failing, over>>

-----------------------------------------------------------------------------
(* Cancellation. *)

\* ep_cancel_task takes the task and, as far as it finds them queued or among
\* the timers, the tasks that name it as their parent: the least set with S
\* and with what it finds below.
Fallen(S) ==
    {t \in Task : \A T \in SUBSET Task :
        (/\ S \subseteq T
         /\ \A c \in Range(queue) \cup TimerTasks : task[c].parent \in T => c \in T) => t \in T}

\* Two tasks that are each other's ancestors: ep_cancel_task would call itself
\* for ever, and the process ends without stack.
EndlessCancel(S) ==
    \E t \in Fallen(S) : t \in Fallen({u \in Range(queue) \cup TimerTasks : task[u].parent = t})

\* The tasks S and the futures F fail.
TasksAfterFall(S) ==
    [t \in Task |-> IF t \in Fallen(S) THEN [task[t] EXCEPT !.cancelled = TRUE]
                    ELSE task[t]]
FutsAfterFall(S, F) ==
    [f \in Made |-> IF f \in F \cup {task[t].fut : t \in Fallen(S)}
                   THEN [fut[f] EXCEPT !.done = TRUE, !.value = Failed]
                   ELSE fut[f]]

\* Futures F are cancelled: their tasks where they are found, else only the
\* future itself.
Fail(F) ==
    LET S == UNION {Found(f) : f \in F} IN
    IF EndlessCancel(S)
    THEN Exit
    ELSE /\ task' = TasksAfterFall(S)
         /\ fut' = FutsAfterFall(S, F)
         /\ failing' = FALSE
         /\ UNCHANGED <<queue, timers, armed, sources, now, group, stack, over>>

\* cancel_task of future f.
CancelTask(w, f) ==
    /\ Runs(w)
    /\ f \in Made
    /\ Fail({f})

-----------------------------------------------------------------------------
(* The end of a step. *)

\* Mutants: whoever waits is left where it is; or is still waiting when it is
\* in the run queue.
FinishedUnwoken(f, v) ==
    /\ fut' = [fut EXCEPT ![f].done = TRUE, ![f].value = v]
    /\ UNCHANGED queue

FinishedStillWaiting(f, v) ==
    /\ fut' = [fut EXCEPT ![f].done = TRUE, ![f].value = v]
    /\ queue' = IF fut[f].waiter = None THEN queue ELSE Append(queue, fut[f].waiter)

\* Future f is done with v: whoever waits for it goes to the run queue.
Finished(f, v) ==
    /\ fut' = [fut EXCEPT ![f] = [done |-> TRUE, value |-> v, waiter |-> None]]
    /\ queue' = IF fut[f].waiter = None THEN queue ELSE Append(queue, fut[f].waiter)

\* The step of t is over for good: task and arguments are freed.
Gone(t) ==
    /\ task' = [task EXCEPT ![t] = None]
    /\ stack' = Front(stack)
    /\ failing' = (stack[Len(stack) - 1].drive = <<"group">>)

\* A body returns v.
Return(t, v) ==
    /\ Runs(t) /\ task[t].kind = "body"
    /\ Finished(task[t].fut, v)
    /\ Gone(t)
    /\ UNCHANGED <<timers, armed, sources, now, group, over>>

\* ep_sleep_timer_step and ep_read_ready_step.
Ring(t) ==
    /\ Runs(t) /\ task[t].kind \in {"alarm", "ready"}
    /\ Finished(task[t].target, IF task[t].kind = "ready" THEN 1 ELSE 0)
    /\ Gone(t)
    /\ UNCHANGED <<timers, armed, sources, now, group, over>>

\* ep_timeout_timer_step.
GuardFires(t) ==
    /\ Runs(t) /\ task[t].kind = "guard"
    /\ LET f == task[t].target
           S == IF f \in Pending THEN Found(f) ELSE {}
       IN  IF EndlessCancel(S)
           THEN Exit
           ELSE /\ task' = [TasksAfterFall(S) EXCEPT ![t] = None]
                /\ fut' = FutsAfterFall(S, {f} \cap Pending)
                /\ stack' = Front(stack)
                /\ failing' = (stack[Len(stack) - 1].drive = <<"group">>)
                /\ UNCHANGED <<queue, timers, armed, sources, now, group, over>>

\* The main program returns: what is still queued is never run.
End == Runs(Main) /\ Exit

-----------------------------------------------------------------------------
(* Driving: the loops of ep_await_future, wait_task_group and async_timeout. *)

Satisfied(d) ==
    IF d = <<"group">> THEN group \cap Pending = {} ELSE d[2] \notin Pending

InLoop == ~over /\ stack # <<>> /\ Top.drive # NotDriving /\ ~failing

\* The loop ends.
DriveEnds ==
    /\ InLoop /\ Satisfied(Top.drive)
    /\ stack' = Drive(NotDriving)
    /\ UNCHANGED <<task, fut, queue, timers, armed, sources, now, group, failing, over>>

\* The next task of the run queue is stepped, or dropped if it is cancelled:
\* its future fails, and whoever waits for that future is not woken.
Step ==
    /\ InLoop /\ ~Satisfied(Top.drive)
    /\ queue # <<>>
    /\ queue' = Tail(queue)
    /\ LET t == Head(queue) IN
       IF task[t].cancelled
       THEN /\ task' = [task EXCEPT ![t] = None]
            /\ fut' = FutsAfterFall({}, {task[t].fut} \cap Fut)
            /\ failing' = (Top.drive = <<"group">>)
            /\ UNCHANGED stack
       ELSE /\ stack' = Append(stack, [by |-> t, drive |-> NotDriving])
            /\ UNCHANGED <<task, fut, failing>>
    /\ UNCHANGED <<timers, armed, sources, now, group, over>>

\* Mutant: of those that expire together only the first is queued.
ExpiredFirst(moment) ==
    SubSeq(timers, 1, IF timers # <<>> /\ timers[1].at <= moment THEN 1 ELSE 0)

\* ep_process_expired_timers.
Expired(moment) == SubSeq(timers, 1, Due(moment))
Rest(moment) == SubSeq(timers, Due(moment) + 1, Len(timers))

\* Nothing can run: wait until the sockets S are ready, which the host names in
\* any order, or the next timer expires, whatever is first (ep_async_wait_step).
Wait(S) ==
    /\ InLoop /\ ~Satisfied(Top.drive)
    /\ queue = <<>>
    /\ timers # <<>> \/ sources > 0
    /\ S \subseteq {s \in Fd : armed[s] # None}
    /\ S # {} \/ timers # <<>>
    /\ now' = IF S = {} /\ now < timers[1].at THEN timers[1].at ELSE now
    /\ \E ready \in SetToSeqs({armed[s] : s \in S}) :
          queue' = ready \o [i \in DOMAIN Expired(now') |-> Expired(now')[i].task]
    /\ timers' = Rest(now')
    /\ armed' = [s \in Fd |-> IF s \in S THEN None ELSE armed[s]]
    /\ sources' = sources - Cardinality(S)
    /\ failing' = (Top.drive = <<"group">>)
    /\ UNCHANGED <<task, fut, group, stack, over>>

\* Mutant: an await or a group looks again and again.
StuckSpins ==
    /\ InLoop /\ ~Satisfied(Top.drive)
    /\ queue = <<>> /\ timers = <<>> /\ sources = 0
    /\ UNCHANGED vars

\* Nothing can run and nothing will: an await or a group ends the process
\* ("Deadlock detected"), a timeout gives up waiting.
Stuck ==
    /\ InLoop /\ ~Satisfied(Top.drive)
    /\ queue = <<>> /\ timers = <<>> /\ sources = 0
    /\ IF Top.drive[1] = "timeout"
       THEN /\ stack' = Drive(NotDriving)
            /\ UNCHANGED <<task, fut, queue, timers, armed, sources, now, group, failing, over>>
       ELSE Exit

\* Sources are counted, and no socket is left that could be ready: the process
\* waits in epoll_wait for ever.
WaitsForEver ==
    /\ InLoop /\ ~Satisfied(Top.drive)
    /\ queue = <<>> /\ timers = <<>> /\ sources > 0 /\ armed = NoneArmed
    /\ UNCHANGED vars

\* After each round of wait_task_group: when one of the group has failed, the
\* others are cancelled.
SpreadFailure ==
    /\ ~over /\ failing
    /\ IF \E f \in group \ Pending : fut[f].value = Failed
       THEN Fail(group \cap Pending)
       ELSE failing' = FALSE /\ UNCHANGED <<task, fut, queue, timers, armed,
                                             sources, now, group, stack, over>>

Ends == over /\ UNCHANGED vars

-----------------------------------------------------------------------------
Body(w) ==
    \/ \E t \in Task :
        \/ Call(w, t)
        \/ \E s \in Fd : WaitReadable(w, t, s)
        \/ \E ms \in Delays :
            Sleep(w, t, ms) \/ \E f \in Made : Timeout(w, t, f, ms)
    \/ \E f \in Made :
        \/ Await(w, f) \/ AddToGroup(w, f) \/ CancelTask(w, f)
    \/ WaitGroup(w)
    \/ \E s \in Fd : Close(w, s)

\* What leaves a step: nothing else in it goes on for ever.
Leave(t) ==
    \/ \E v \in Results : Return(t, v)
    \/ Ring(t) \/ GuardFires(t)

Loop == DriveEnds \/ Step \/ (\E S \in SUBSET Fd : Wait(S)) \/ Stuck \/ SpreadFailure

Next ==
    \/ \E w \in Task \cup {Main} : Body(w)
    \/ \E t \in Task : Leave(t) \/ \E f \in Made : Suspend(t, f)
    \/ Loop \/ End \/ Ends \/ WaitsForEver

\* The one thread runs on, no function goes on for ever, and the other side of
\* a socket that is waited for sends something or closes it some time.
Fairness == WF_vars(Loop \/ \E t \in Task : Leave(t))

Spec == Init /\ [][Next]_vars /\ Fairness

-----------------------------------------------------------------------------
(* Properties. *)

\* The places t is in: how often it will be stepped or is being stepped.
Places(t) ==
    Cardinality({i \in DOMAIN queue : queue[i] = t})
      + Cardinality({i \in DOMAIN timers : timers[i].task = t})
      + Cardinality({s \in Fd : armed[s] = t})
      + Cardinality({i \in DOMAIN stack : stack[i].by = t})
      + Cardinality({f \in Made : fut[f].waiter = t})

\* No task is stepped after it is freed or scheduled a second time: it is in
\* one place at most, and a freed one in none, whatever was awaited,
\* cancelled, timed out or waited for in groups meanwhile.
InOnePlace == \A t \in Task : Places(t) <= IF task[t] = None THEN 0 ELSE 1

\* Nobody waits at a future that was completed, except one that was cancelled.
WaitersAreWoken ==
    \A f \in Made : fut[f].done /\ fut[f].waiter # None => fut[f].value = Failed

\* How many sockets the event loop may still report.
ArmedSockets == Cardinality({s \in Fd : armed[s] # None})

\* A step of the program takes the one place that a future or a socket has for
\* a waiter away from t: another task gets it, or the socket is closed.
PlaceTaken(t) ==
    \/ \E f \in Made : fut[f].waiter = t /\ fut'[f].waiter \notin {t, None}
    \/ \E s \in Fd : armed[s] = t /\ armed'[s] \notin {t, None}
    \/ \E s \in Fd, w \in Task \cup {Main} : armed[s] = t /\ Close(w, s)

\* A task leaves the scheduler without an end only where another one takes its
\* place at a future or a socket, or where the socket it waits for is closed.
OnlyOverwritten ==
    [][\A t \in Task :
        task[t] # None /\ Places(t) = 1 /\ task'[t] # None /\ Places(t)' = 0 =>
            PlaceTaken(t)]_vars

\* Whoever drives the scheduler comes back from it, or the process ends: by
\* a result, a timeout, a failure of the group or "Deadlock detected".  Where
\* more sources are counted than sockets are waited for, a socket having been
\* waited for twice or closed, the code may wait for ever: that is left out.
DrivesEnd ==
    stack[1].drive # NotDriving ~>
        (stack[1].drive = NotDriving \/ over \/ sources > ArmedSockets)

\* What the loops are for: nobody who awaits is left behind at a future that
\* is done.  ep_cancel_task and the loops complete a cancelled task's future
\* without a look at who waits for it.
NobodyIsLeftBehind == \A f \in Made : fut[f].done => fut[f].waiter = None

\* A new task has no children yet.  A freed task stays the parent of those it
\* started, and its address is used again.
NewTasksAreChildless ==
    [][\A t \in Task : task[t] = None /\ task'[t] # None =>
        \A c \in Live : task[c].parent # t]_vars
=============================================================================
