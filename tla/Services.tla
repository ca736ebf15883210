------------------------------ MODULE Services ------------------------------
(***************************************************************************)
(* The background services of Ern-OS (system/kernel/services.ep) and the   *)
(* message board they are spoken to through (system/kernel/messages.ep).   *)
(*                                                                         *)
(* The main thread starts, asks and stops the heartbeat; every start       *)
(* spawns a new heartbeat thread with two channels of its own.  A channel  *)
(* is a bounded FIFO queue (module Channel shows that of the runtime is).  *)
(* Both sides wait with a time limit: the main thread 2000 ms for a reply, *)
(* the heartbeat 1000 ms for an order.  A limit may pass at any moment of  *)
(* the wait, because nothing bounds how late a thread is scheduled.        *)
(***************************************************************************)
EXTENDS Naturals, Sequences, FiniteSets

CONSTANTS
    Capacity,       \* what a channel holds; 1024 in the runtime
    MaxStarts,      \* bound: how often the service is started
    MaxRequests,    \* bound: how many orders are sent
    MaxBeats        \* bound: how far a heartbeat counts

ASSUME BoundsAssumption ==
    Capacity \in Nat \ {0} /\ {MaxStarts, MaxRequests, MaxBeats} \subseteq Nat

VARIABLES
    control,    \* control[t]: the orders channel of heartbeat thread t
    answers,    \* answers[t]: its answers channel
    heart,      \* heart[t]: where thread t is, and its beat count
    post,       \* whose channels are on the message board; 0 for nobody's
    running,    \* the service record: "none", "stopped" or "running"
    main,       \* what the main thread is doing
    sent,       \* how many orders were sent so far (numbers the orders)
    missed,     \* missed[t]: requests to t that ran into their time limit
    heard       \* the last beat count heard from the thread on the board

vars == <<control, answers, heart, post, running, main, sent, missed, heard>>

Threads == 1 .. MaxStarts
Order(what) == [what |-> what, number |-> sent + 1]
Answer(t) ==
    IF heart[t].at = "reply"
    THEN [what |-> "beats", value |-> heart[t].beats, number |-> heart[t].number]
    ELSE [what |-> "goodbye", value |-> 99, number |-> heart[t].number]

Orders == [what : {"stop", "ask"}, number : 1 .. MaxRequests]
Replies == [what : {"beats", "goodbye"}, value : 0 .. (MaxBeats + 99), number : 1 .. MaxRequests]

Idle == [at |-> "idle", what |-> "none", number |-> 0]

TypeOK ==
    /\ control \in [Threads -> Seq(Orders)]
    /\ answers \in [Threads -> Seq(Replies)]
    /\ \A t \in Threads : Len(control[t]) <= Capacity /\ Len(answers[t]) <= Capacity
    /\ heart \in [Threads -> [at : {"unborn", "select", "reply", "goodbye", "gone"},
                              beats : 0 .. MaxBeats, number : 0 .. MaxRequests]]
    /\ post \in 0 .. MaxStarts
    /\ running \in {"none", "stopped", "running"}
    /\ main \in [at : {"idle", "send", "wait"}, what : {"none", "stop", "ask"},
                 number : 0 .. MaxRequests]
    /\ sent \in 0 .. MaxRequests
    /\ missed \in [Threads -> 0 .. MaxRequests]
    /\ heard \in 0 .. MaxBeats + 99

Init ==
    /\ control = [t \in Threads |-> <<>>]
    /\ answers = [t \in Threads |-> <<>>]
    /\ heart = [t \in Threads |-> [at |-> "unborn", beats |-> 0, number |-> 0]]
    /\ post = 0
    /\ running = "none"
    /\ main = Idle
    /\ sent = 0
    /\ missed = [t \in Threads |-> 0]
    /\ heard = 0

-----------------------------------------------------------------------------
(* The main thread *)

\* Mutant: service_start without the check of the record.
StartTwice(t) ==
    /\ main.at = "idle"
    /\ heart[t].at = "unborn" /\ \A s \in Threads : s < t => heart[s].at # "unborn"
    /\ heart' = [heart EXCEPT ![t].at = "select"]
    /\ post' = t
    /\ running' = "running"
    /\ heard' = 0
    /\ UNCHANGED <<control, answers, main, sent, missed>>

\* service_start: a record that says "running" refuses; otherwise a new thread
\* with fresh channels takes over the names on the board.
Start(t) ==
    /\ main.at = "idle"
    /\ running # "running"
    /\ heart[t].at = "unborn" /\ \A s \in Threads : s < t => heart[s].at # "unborn"
    /\ heart' = [heart EXCEPT ![t].at = "select"]
    /\ post' = t
    /\ running' = "running"
    /\ heard' = 0
    /\ UNCHANGED <<control, answers, main, sent, missed>>

\* service_ask and service_stop refuse unless the record says "running".
Request(what) ==
    /\ main.at = "idle"
    /\ running = "running"
    /\ sent < MaxRequests
    /\ main' = [at |-> "send", what |-> what, number |-> sent + 1]
    /\ UNCHANGED <<control, answers, heart, post, running, sent, missed, heard>>

\* board_ask: the send waits for room in the channel, without a time limit.
Send ==
    /\ main.at = "send"
    /\ Len(control[post]) < Capacity
    /\ control' = [control EXCEPT ![post] = Append(@, Order(main.what))]
    /\ sent' = sent + 1
    /\ main' = [main EXCEPT !.at = "wait"]
    /\ UNCHANGED <<answers, heart, post, running, missed, heard>>

\* What the main thread does when board_ask is over: service_stop marks the
\* service stopped, whatever board_ask gave back.
Finish ==
    /\ main' = Idle
    /\ running' = IF main.what = "stop" THEN "stopped" ELSE running
    /\ UNCHANGED <<control, heart, post, sent>>

\* Mutant: board_ask looks at the reply and leaves it in the channel.
HearWithoutTaking ==
    /\ main.at = "wait"
    /\ answers[post] # <<>>
    /\ heard' = IF main.what = "ask" THEN Head(answers[post]).value ELSE heard
    /\ Finish
    /\ UNCHANGED <<answers, missed>>

\* board_ask: something is on the answers channel, and is taken for the reply.
Hear ==
    /\ main.at = "wait"
    /\ answers[post] # <<>>
    /\ answers' = [answers EXCEPT ![post] = Tail(@)]
    /\ heard' = IF main.what = "ask" THEN Head(answers[post]).value ELSE heard
    /\ Finish
    /\ UNCHANGED missed

\* board_ask: the time limit passed first.
GiveUp ==
    /\ main.at = "wait"
    /\ missed' = [missed EXCEPT ![post] = @ + 1]
    /\ Finish
    /\ UNCHANGED <<answers, heard>>

-----------------------------------------------------------------------------
(* A heartbeat thread *)

UnchangedForMain == UNCHANGED <<post, running, main, sent, missed, heard>>

\* One second without an order.
Beat(t) ==
    /\ heart[t].at = "select"
    /\ heart[t].beats < MaxBeats
    /\ heart' = [heart EXCEPT ![t].beats = @ + 1]
    /\ UNCHANGED <<control, answers>>
    /\ UnchangedForMain

\* Mutant: the order is answered and stays in the channel.
TakeOrderTwice(t) ==
    /\ heart[t].at = "select"
    /\ control[t] # <<>>
    /\ control' = control
    /\ heart' = [heart EXCEPT ![t].at = IF Head(control[t]).what = "stop" THEN "goodbye" ELSE "reply",
                              ![t].number = Head(control[t]).number]
    /\ UNCHANGED answers
    /\ UnchangedForMain

\* Mutant: the loop does not look at its stop flag.
TakeOrderAndStay(t) ==
    /\ heart[t].at = "select"
    /\ control[t] # <<>>
    /\ control' = [control EXCEPT ![t] = Tail(@)]
    /\ heart' = [heart EXCEPT ![t].at = "reply",
                              ![t].number = Head(control[t]).number]
    /\ UNCHANGED answers
    /\ UnchangedForMain

\* An order arrived: "ask" is answered at once, "stop" ends the loop.
TakeOrder(t) ==
    /\ heart[t].at = "select"
    /\ control[t] # <<>>
    /\ control' = [control EXCEPT ![t] = Tail(@)]
    /\ heart' = [heart EXCEPT ![t].at = IF Head(control[t]).what = "stop"
                                        THEN "goodbye" ELSE "reply",
                              ![t].number = Head(control[t]).number]
    /\ UNCHANGED answers
    /\ UnchangedForMain

SendReply(t) ==
    /\ heart[t].at \in {"reply", "goodbye"}
    /\ Len(answers[t]) < Capacity
    /\ answers' = [answers EXCEPT ![t] =
                      Append(@, Answer(t))]
    /\ heart' = [heart EXCEPT ![t].at = IF @ = "reply" THEN "select" ELSE "gone"]
    /\ UNCHANGED control
    /\ UnchangedForMain

Heartbeat(t) == Beat(t) \/ TakeOrder(t) \/ SendReply(t)

Main ==
    \/ \E t \in Threads : Start(t)
    \/ \E what \in {"stop", "ask"} : Request(what)
    \/ Send \/ Hear \/ GiveUp

Next == Main \/ \E t \in Threads : Heartbeat(t)

Spec == Init /\ [][Next]_vars

\* Threads keep running, and the wait of board_ask ends at its time limit.
FairSpec ==
    /\ Spec
    /\ WF_vars(Send) /\ WF_vars(Hear \/ GiveUp)
    /\ \A t \in Threads : WF_vars(TakeOrder(t) \/ SendReply(t))

-----------------------------------------------------------------------------
(* Properties *)

Alive(t) == heart[t].at \in {"select", "reply"}

\* A service can be restarted while the thread of its last run is still alive,
\* because service_stop does not insist on the goodbye.  But such a thread is
\* under orders to stop: only the thread on the board may beat on for ever.
OnlyOneBeatsForEver ==
    \A t \in Threads :
        Alive(t) /\ ~(t = post /\ running = "running")
            => \E i \in DOMAIN control[t] : control[t][i].what = "stop"

\* What was asked of thread t and has not been picked up by the main thread.
Unanswered(t) ==
    Len(control[t]) + Len(answers[t])
        + (IF heart[t].at \in {"reply", "goodbye"} THEN 1 ELSE 0)

\* Every request that is not being waited for has run into its time limit.
LeftoversAreMissed ==
    \A t \in Threads :
        Unanswered(t) <= missed[t] + (IF main.at = "wait" /\ post = t THEN 1 ELSE 0)

\* While fewer requests than a channel holds have run into their time limit,
\* no send ever blocks: neither the main thread nor a heartbeat can hang.
SendsHaveRoom ==
    \A t \in Threads :
        missed[t] < Capacity =>
            /\ main.at = "send" /\ post = t => Len(control[t]) < Capacity
            /\ heart[t].at \in {"reply", "goodbye"} => Len(answers[t]) < Capacity

\* A thread that was ordered to stop ends, unless so many of its answers were
\* never fetched that its last send finds the channel full.
StopIsObeyed ==
    \A t \in Threads :
        (\E i \in DOMAIN control[t] : control[t][i].what = "stop")
            ~> heart[t].at = "gone" \/ missed[t] >= Capacity

\* "Stop a service politely and wait for its goodbye": a service that is
\* reported as stopped has no thread left that takes orders or beats.  It does
\* not hold: service_stop marks the service also when the goodbye never came.
StoppedMeansGone == running = "stopped" => \A t \in Threads : ~Alive(t)
=============================================================================
