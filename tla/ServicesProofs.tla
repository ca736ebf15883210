--------------------------- MODULE ServicesProofs ---------------------------
(***************************************************************************)
(* Proofs about the background services, for channels of any capacity and  *)
(* any number of starts, requests and beats.                               *)
(***************************************************************************)
EXTENDS Services, SequenceTheorems, TLAPS

-----------------------------------------------------------------------------
(* The invariant. *)

\* An order to stop is under way to thread t.
ToldToStop(t) == \E i \in DOMAIN control[t] : control[t][i].what = "stop"

Awaited(t) == IF main.at = "wait" /\ post = t THEN 1 ELSE 0

\* Who speaks to a service speaks to the one on the board, and its record says
\* that it runs.
SpeaksToTheBoard ==
    /\ main.at # "idle" => running = "running" /\ main.what \in {"stop", "ask"}
    /\ running = "running" => post \in Threads
    /\ main.at = "send" => sent < MaxRequests

\* What is missed or awaited was sent, and what is being answered was asked.
CountsInStep ==
    /\ \A t \in Threads : missed[t] + Awaited(t) <= sent
    /\ \A t \in Threads : heart[t].at \in {"reply", "goodbye"} => heart[t].number >= 1

\* While the main thread waits for a goodbye, the thread on the board has the
\* order before it or behind it.
GoodbyeIsComing ==
    main.at = "wait" /\ main.what = "stop" => ~Alive(post) \/ ToldToStop(post)

IInv ==
    /\ TypeOK /\ SpeaksToTheBoard /\ CountsInStep /\ GoodbyeIsComing
    /\ OnlyOneBeatsForEver /\ LeftoversAreMissed

-----------------------------------------------------------------------------
(* Channels as sequences. *)

\* A value put at the end, and the first one taken.
LEMMA Queues ==
    ASSUME NEW S, NEW q \in Seq(S)
    PROVE  /\ Len(q) \in Nat
           /\ \A v \in S : Append(q, v) \in Seq(S) /\ Len(Append(q, v)) = Len(q) + 1
           /\ q # <<>> => /\ Tail(q) \in Seq(S) /\ Head(q) \in S
                          /\ Len(q) > 0 /\ Len(Tail(q)) = Len(q) - 1
OBVIOUS

\* The orders to stop in a queue that is longer or shorter by one.
LEMMA StopsInQueues ==
    ASSUME NEW q \in Seq(Orders)
    PROVE  LET Stops(s) == \E i \in DOMAIN s : s[i].what = "stop"
           IN  /\ \A v \in Orders : Stops(Append(q, v)) <=> Stops(q) \/ v.what = "stop"
               /\ q # <<>> /\ Head(q).what # "stop" => (Stops(Tail(q)) <=> Stops(q))
<1> DEFINE Stops(s) == \E i \in DOMAIN s : s[i].what = "stop"
<1>1. ASSUME NEW v \in Orders PROVE Stops(Append(q, v)) <=> Stops(q) \/ v.what = "stop"
  <2>1. /\ DOMAIN q = 1 .. Len(q) /\ DOMAIN Append(q, v) = 1 .. Len(q) + 1 /\ Len(q) \in Nat
        /\ \A i \in 1 .. Len(q) : Append(q, v)[i] = q[i]
        /\ Append(q, v)[Len(q) + 1] = v
    OBVIOUS
  <2>2. 1 .. Len(q) + 1 = (1 .. Len(q)) \cup {Len(q) + 1}
    BY <2>1
  <2> QED
    BY <2>1, <2>2
<1>2. ASSUME q # <<>>, Head(q).what # "stop" PROVE Stops(Tail(q)) <=> Stops(q)
  <2>1. /\ DOMAIN q = 1 .. Len(q) /\ DOMAIN Tail(q) = 1 .. Len(q) - 1 /\ Len(q) \in Nat \ {0}
        /\ \A i \in 1 .. Len(q) - 1 : Tail(q)[i] = q[i + 1]
        /\ q[1].what # "stop"
    BY <1>2
  <2>2. ASSUME NEW i \in 1 .. Len(q), q[i].what = "stop"
        PROVE  i - 1 \in 1 .. Len(q) - 1 /\ Tail(q)[i - 1].what = "stop"
    <3>1. i # 1
      BY <2>1, <2>2
    <3>2. i - 1 \in 1 .. Len(q) - 1 /\ i - 1 + 1 = i
      BY <2>1, <3>1
    <3> QED
      BY <2>1, <2>2, <3>2
  <2>3. ASSUME NEW i \in 1 .. Len(q) - 1, Tail(q)[i].what = "stop"
        PROVE  i + 1 \in 1 .. Len(q) /\ q[i + 1].what = "stop"
    BY <2>1, <2>3
  <2> QED
    BY <2>1, <2>2, <2>3
<1> QED
  BY <1>1, <1>2

-----------------------------------------------------------------------------
\* In the beginning no thread was started.
LEMMA InitIInv == Init => IInv
<1> SUFFICES ASSUME Init PROVE IInv
  OBVIOUS
<1> USE BoundsAssumption
<1>1. /\ control \in [Threads -> Seq(Orders)] /\ answers \in [Threads -> Seq(Replies)]
      /\ \A t \in Threads : Len(control[t]) = 0 /\ Len(answers[t]) = 0
  BY DEF Init
<1>2. TypeOK
  BY <1>1 DEF Init, TypeOK, Idle
<1>3. SpeaksToTheBoard /\ CountsInStep /\ GoodbyeIsComing
  BY DEF Init, SpeaksToTheBoard, CountsInStep, GoodbyeIsComing, Idle, Awaited
<1>4. OnlyOneBeatsForEver
  BY DEF Init, OnlyOneBeatsForEver, Alive
<1>5. LeftoversAreMissed
  BY <1>1 DEF Init, LeftoversAreMissed, Unanswered, Idle
<1> QED
  BY <1>2, <1>3, <1>4, <1>5 DEF IInv

-----------------------------------------------------------------------------
(* The main thread. *)

\* A new thread has no orders yet.  Whoever was on the board before is alive
\* only with an order to stop, because the record does not say "running".
LEMMA StartKeeps ==
    ASSUME IInv, NEW t \in Threads, Start(t)
    PROVE  IInv'
<1> USE BoundsAssumption DEF Start
<1>1. TypeOK'
  <2>1. heart' \in [Threads -> [at : {"unborn", "select", "reply", "goodbye", "gone"},
                                beats : 0 .. MaxBeats, number : 0 .. MaxRequests]]
    BY DEF IInv, TypeOK
  <2>2. post' \in 0 .. MaxStarts /\ heard' \in 0 .. MaxBeats + 99
    BY DEF Threads
  <2> QED
    BY <2>1, <2>2 DEF IInv, TypeOK
<1>2. SpeaksToTheBoard' /\ CountsInStep' /\ GoodbyeIsComing'
  BY DEF IInv, TypeOK, SpeaksToTheBoard, CountsInStep, GoodbyeIsComing, Awaited
<1>3. OnlyOneBeatsForEver'
  BY DEF IInv, TypeOK, OnlyOneBeatsForEver, Alive
<1>4. LeftoversAreMissed'
  BY DEF IInv, TypeOK, LeftoversAreMissed, Unanswered
<1> QED
  BY <1>1, <1>2, <1>3, <1>4 DEF IInv

\* A request is noted; nothing is sent yet.
LEMMA RequestKeeps ==
    ASSUME IInv, NEW what \in {"stop", "ask"}, Request(what)
    PROVE  IInv'
<1> USE BoundsAssumption DEF Request
<1>1. TypeOK'
  BY DEF IInv, TypeOK
<1>2. SpeaksToTheBoard' /\ CountsInStep' /\ GoodbyeIsComing'
  BY DEF IInv, TypeOK, SpeaksToTheBoard, CountsInStep, GoodbyeIsComing, Awaited
<1>3. OnlyOneBeatsForEver' /\ LeftoversAreMissed'
  BY DEF IInv, OnlyOneBeatsForEver, Alive, LeftoversAreMissed, Unanswered
<1> QED
  BY <1>1, <1>2, <1>3 DEF IInv

\* One order more, and one answer less, for a thread that stays where it is.
LEMMA OneLonger ==
    ASSUME control \in [Threads -> Seq(Orders)], answers \in [Threads -> Seq(Replies)],
           control' \in [Threads -> Seq(Orders)],
           NEW t \in Threads, heart' = heart, answers' = answers,
           Len(control'[t]) = Len(control[t]) + 1
    PROVE  Unanswered(t)' = Unanswered(t) + 1 /\ Unanswered(t) \in Nat
<1>1. CASE heart[t].at \in {"reply", "goodbye"}
  BY <1>1 DEF Unanswered
<1>2. CASE heart[t].at \notin {"reply", "goodbye"}
  BY <1>2 DEF Unanswered
<1> QED
  BY <1>1, <1>2

LEMMA OneFewer ==
    ASSUME control \in [Threads -> Seq(Orders)], answers \in [Threads -> Seq(Replies)],
           answers' \in [Threads -> Seq(Replies)],
           NEW t \in Threads, heart' = heart, control' = control,
           Len(answers[t]) = Len(answers'[t]) + 1
    PROVE  Unanswered(t) = Unanswered(t)' + 1 /\ Unanswered(t)' \in Nat
<1>1. CASE heart[t].at \in {"reply", "goodbye"}
  BY <1>1 DEF Unanswered
<1>2. CASE heart[t].at \notin {"reply", "goodbye"}
  BY <1>2 DEF Unanswered
<1> QED
  BY <1>1, <1>2

\* The order that is sent is the one that is waited for.
LEMMA SendKeeps ==
    ASSUME IInv, Send
    PROVE  IInv'
<1> USE BoundsAssumption
<1>1. /\ post \in Threads /\ main.at = "send" /\ main.what \in {"stop", "ask"}
      /\ sent < MaxRequests /\ running = "running"
  BY DEF IInv, SpeaksToTheBoard, Send
<1>2. /\ control[post] \in Seq(Orders) /\ Order(main.what) \in Orders
      /\ Order(main.what).what = main.what
      /\ control' = [control EXCEPT ![post] = Append(@, Order(main.what))]
      /\ Len(control[post]) < Capacity /\ sent' = sent + 1
      /\ main' = [main EXCEPT !.at = "wait"]
      /\ UNCHANGED <<answers, heart, post, running, missed, heard>>
  <2>1. sent + 1 \in 1 .. MaxRequests
    BY <1>1 DEF IInv, TypeOK
  <2>2. Order(main.what) \in Orders /\ Order(main.what).what = main.what
    BY <1>1, <2>1 DEF Order, Orders
  <2>3. control[post] \in Seq(Orders)
    BY <1>1 DEF IInv, TypeOK
  <2> QED
    BY <2>2, <2>3 DEF Send
<1>m. main'.at = "wait" /\ main'.what = main.what /\ main'.number = main.number
  BY <1>2 DEF IInv, TypeOK
<1>3. /\ control'[post] \in Seq(Orders) /\ Len(control'[post]) = Len(control[post]) + 1
      /\ \A t \in Threads \ {post} : control'[t] = control[t]
      /\ Len(control[post]) \in Nat
      /\ control' \in [Threads -> Seq(Orders)]
  BY <1>1, <1>2, Queues DEF IInv, TypeOK
<1>4. \A t \in Threads : ToldToStop(t)' <=> ToldToStop(t) \/ (t = post /\ main.what = "stop")
  <2>1. control'[post] = Append(control[post], Order(main.what))
    BY <1>1, <1>2 DEF IInv, TypeOK
  <2>2. ToldToStop(post)' <=> ToldToStop(post) \/ main.what = "stop"
    <3> DEFINE Stops(q) == \E i \in DOMAIN q : q[i].what = "stop"
    <3>1. Stops(Append(control[post], Order(main.what)))
             <=> Stops(control[post]) \/ Order(main.what).what = "stop"
      BY <1>2, StopsInQueues
    <3>2. ToldToStop(post) <=> Stops(control[post])
      BY DEF ToldToStop
    <3>3. ToldToStop(post)' <=> Stops(control'[post])
      BY <1>2 DEF ToldToStop
    <3> QED
      BY <1>2, <2>1, <3>1, <3>2, <3>3
  <2> QED
    BY <1>2, <1>3, <2>2 DEF ToldToStop
<1>5. TypeOK'
  <2>1. main' \in [at : {"idle", "send", "wait"}, what : {"none", "stop", "ask"},
                   number : 0 .. MaxRequests]
    BY <1>2 DEF IInv, TypeOK
  <2>2. sent' \in 0 .. MaxRequests
    <3>1. sent \in 0 .. MaxRequests /\ sent < MaxRequests /\ sent' = sent + 1
      BY <1>1, <1>2 DEF IInv, TypeOK, SpeaksToTheBoard
    <3> QED
      BY <3>1 DEF BoundsAssumption
  <2>3. \A t \in Threads : Len(control'[t]) <= Capacity
    BY <1>2, <1>3 DEF IInv, TypeOK
  <2> QED
    BY <1>2, <1>3, <2>1, <2>2, <2>3 DEF IInv, TypeOK
<1>6. SpeaksToTheBoard' /\ CountsInStep'
  <2>1. SpeaksToTheBoard'
    BY <1>1, <1>2, <1>m DEF SpeaksToTheBoard
  <2>2. \A t \in Threads : missed[t] <= sent /\ missed[t] \in Nat /\ sent \in Nat
    BY <1>1 DEF IInv, TypeOK, CountsInStep, Awaited
  <2> QED
    BY <1>2, <2>1, <2>2 DEF IInv, CountsInStep, Awaited
<1>7. GoodbyeIsComing'
  BY <1>1, <1>2, <1>m, <1>4 DEF GoodbyeIsComing, Alive
<1>8. OnlyOneBeatsForEver'
  BY <1>1, <1>2, <1>4 DEF IInv, OnlyOneBeatsForEver, Alive, ToldToStop
<1>9. LeftoversAreMissed'
  <2> SUFFICES ASSUME NEW t \in Threads
               PROVE  Unanswered(t)' <= missed[t] + (IF post = t THEN 1 ELSE 0)
    BY <1>2, <1>m DEF LeftoversAreMissed
  <2>1. Unanswered(t) <= missed[t] /\ missed[t] \in Nat
    BY <1>1 DEF IInv, TypeOK, LeftoversAreMissed
  <2>2. CASE t = post
    <3>1. Unanswered(t)' = Unanswered(t) + 1 /\ Unanswered(t) \in Nat
      BY <1>2, <1>3, <2>2, OneLonger, OneFewer DEF IInv, TypeOK
    <3> QED
      BY <2>1, <2>2, <3>1
  <2>3. CASE t # post
    <3>1. Unanswered(t)' = Unanswered(t)
      BY <1>2, <1>3, <2>3 DEF Unanswered
    <3> QED
      BY <2>1, <2>3, <3>1
  <2> QED
    BY <2>2, <2>3
<1> QED
  BY <1>5, <1>6, <1>7, <1>8, <1>9 DEF IInv

\* The end of a wait leaves a thread without a record only with an order to
\* stop before it or behind it.
LEMMA FinishKeeps ==
    ASSUME IInv, main.at = "wait", Finish
    PROVE  SpeaksToTheBoard' /\ GoodbyeIsComing' /\ OnlyOneBeatsForEver'
<1>1. /\ post \in Threads /\ main.what \in {"stop", "ask"} /\ running = "running"
      /\ post' = post /\ heart' = heart /\ control' = control
      /\ running' = IF main.what = "stop" THEN "stopped" ELSE running
      /\ main'.at = "idle"
  BY DEF IInv, SpeaksToTheBoard, Finish, Idle
<1>2. SpeaksToTheBoard' /\ GoodbyeIsComing'
  BY <1>1 DEF SpeaksToTheBoard, GoodbyeIsComing, Threads
<1>3. \A t \in Threads : Alive(t)' <=> Alive(t)
  BY <1>1 DEF Alive
<1>4. main.what = "stop" => ~Alive(post) \/ ToldToStop(post)
  BY DEF IInv, GoodbyeIsComing
<1>5. OnlyOneBeatsForEver'
  BY <1>1, <1>3, <1>4 DEF IInv, OnlyOneBeatsForEver, ToldToStop
<1> QED
  BY <1>2, <1>5

\* A reply is taken off the channel of the thread on the board.
LEMMA HearKeeps ==
    ASSUME IInv, Hear
    PROVE  IInv'
<1> USE BoundsAssumption
<1>1. /\ post \in Threads /\ main.at = "wait" /\ answers[post] # <<>>
      /\ answers[post] \in Seq(Replies) /\ heard \in 0 .. MaxBeats + 99
      /\ answers' = [answers EXCEPT ![post] = Tail(@)]
      /\ heard' = IF main.what = "ask" THEN Head(answers[post]).value ELSE heard
      /\ Finish /\ missed' = missed
  BY DEF IInv, TypeOK, SpeaksToTheBoard, Hear
<1>2. /\ answers'[post] \in Seq(Replies) /\ Len(answers'[post]) = Len(answers[post]) - 1
      /\ \A t \in Threads \ {post} : answers'[t] = answers[t]
      /\ Len(answers[post]) \in Nat /\ Head(answers[post]) \in Replies
      /\ answers' \in [Threads -> Seq(Replies)]
  BY <1>1, Queues DEF IInv, TypeOK
<1>3. TypeOK'
  <2>1. heard' \in 0 .. MaxBeats + 99
    BY <1>1, <1>2 DEF Replies
  <2>2. /\ running' \in {"none", "stopped", "running"}
        /\ UNCHANGED <<control, heart, post, sent, missed>> /\ main' = Idle
    BY <1>1 DEF Finish, IInv, TypeOK
  <2>3. main' \in [at : {"idle", "send", "wait"}, what : {"none", "stop", "ask"},
                   number : 0 .. MaxRequests]
    BY <2>2 DEF Idle
  <2>4. \A t \in Threads : Len(answers'[t]) <= Capacity
    BY <1>1, <1>2 DEF IInv, TypeOK
  <2> QED
    BY <1>1, <1>2, <2>1, <2>2, <2>3, <2>4 DEF IInv, TypeOK
<1>m. main'.at = "idle" /\ UNCHANGED <<control, heart, post, sent>>
  BY <1>1 DEF Finish, Idle
<1>4. CountsInStep'
  <2>1. \A t \in Threads : missed[t] <= sent
    <3> TAKE t \in Threads
    <3>1. missed[t] \in Nat /\ sent \in Nat /\ Awaited(t) \in Nat
      BY DEF IInv, TypeOK, Awaited
    <3>2. missed[t] + Awaited(t) <= sent
      BY DEF IInv, CountsInStep
    <3> QED
      BY <3>1, <3>2
  <2> QED
    BY <1>1, <1>m, <2>1 DEF IInv, TypeOK, CountsInStep, Awaited
<1>t. /\ control \in [Threads -> Seq(Orders)] /\ answers \in [Threads -> Seq(Replies)]
      /\ missed \in [Threads -> 0 .. MaxRequests] /\ sent \in 0 .. MaxRequests
      /\ MaxRequests \in Nat
  BY DEF IInv, TypeOK
<1>5. LeftoversAreMissed'
  <2> SUFFICES ASSUME NEW t \in Threads
               PROVE  Unanswered(t)' <= missed[t]
    BY <1>1, <1>m, <1>t DEF LeftoversAreMissed
  <2>1. Unanswered(t) <= missed[t] + (IF post = t THEN 1 ELSE 0) /\ missed[t] \in Nat
    BY <1>1 DEF IInv, TypeOK, LeftoversAreMissed
  <2>2. CASE t = post
    <3>1. Unanswered(t) = Unanswered(t)' + 1 /\ Unanswered(t)' \in Nat
      <4>1. Len(answers[t]) = Len(answers'[t]) + 1
        BY <1>2, <2>2
      <4> QED
        BY <1>2, <1>m, <1>t, <4>1, OneFewer
    <3> QED
      BY <2>1, <2>2, <3>1
  <2>3. CASE t # post
    <3>1. Unanswered(t)' = Unanswered(t)
      BY <1>2, <1>m, <2>3 DEF Unanswered
    <3> QED
      BY <2>1, <2>3, <3>1
  <2> QED
    BY <2>2, <2>3
<1> QED
  BY <1>1, <1>3, <1>4, <1>5, FinishKeeps DEF IInv

\* A request that is given up counts as missed.
LEMMA GiveUpKeeps ==
    ASSUME IInv, GiveUp
    PROVE  IInv'
<1> USE BoundsAssumption
<1>1. /\ post \in Threads /\ main.at = "wait" /\ missed[post] \in Nat
      /\ missed' = [missed EXCEPT ![post] = @ + 1]
      /\ Finish /\ UNCHANGED <<answers, heard>>
      /\ missed[post] + 1 <= sent
  BY DEF IInv, TypeOK, SpeaksToTheBoard, CountsInStep, Awaited, GiveUp
<1>2. TypeOK'
  <2>1. /\ running' \in {"none", "stopped", "running"}
        /\ UNCHANGED <<control, heart, post, sent, answers, heard>> /\ main' = Idle
    BY <1>1 DEF Finish, IInv, TypeOK
  <2>2. missed' \in [Threads -> 0 .. MaxRequests]
    <3>1. missed \in [Threads -> 0 .. MaxRequests] /\ sent \in 0 .. MaxRequests
      BY DEF IInv, TypeOK
    <3>2. missed[post] + 1 \in 0 .. MaxRequests
      BY <1>1, <3>1 DEF BoundsAssumption
    <3> QED
      BY <1>1, <3>1, <3>2
  <2> QED
    BY <2>1, <2>2 DEF IInv, TypeOK, Idle
<1>m. main'.at = "idle" /\ UNCHANGED <<control, heart, post, sent>>
  BY <1>1 DEF Finish, Idle
<1>t. /\ control \in [Threads -> Seq(Orders)] /\ answers \in [Threads -> Seq(Replies)]
      /\ missed \in [Threads -> 0 .. MaxRequests] /\ sent \in 0 .. MaxRequests
      /\ MaxRequests \in Nat
  BY DEF IInv, TypeOK
<1>u. missed' \in [Threads -> 0 .. MaxRequests]
  BY <1>2 DEF TypeOK
<1>3. CountsInStep'
  <2> SUFFICES ASSUME NEW t \in Threads PROVE missed'[t] <= sent
    <3>1. \A u \in Threads : Awaited(u)' = 0
      BY <1>m DEF Awaited
    <3>2. \A u \in Threads : missed'[u] + 0 = missed'[u]
      BY <1>t, <1>u
    <3> QED
      BY <1>m, <3>1, <3>2 DEF IInv, CountsInStep
  <2>1. CASE t = post
    BY <1>1, <1>t, <2>1
  <2>2. CASE t # post
    BY <1>1, <1>t, <2>2 DEF IInv, CountsInStep, Awaited
  <2> QED
    BY <2>1, <2>2
<1>4. LeftoversAreMissed'
  <2> SUFFICES ASSUME NEW t \in Threads PROVE Unanswered(t)' <= missed'[t]
    BY <1>m, <1>t, <1>u DEF LeftoversAreMissed
  <2>1. Unanswered(t)' = Unanswered(t)
    BY <1>1, <1>m DEF Unanswered
  <2>2. CASE t = post
    BY <1>1, <1>t, <2>1, <2>2 DEF IInv, LeftoversAreMissed
  <2>3. CASE t # post
    BY <1>1, <1>t, <2>1, <2>3 DEF IInv, LeftoversAreMissed
  <2> QED
    BY <2>2, <2>3
<1> QED
  BY <1>1, <1>2, <1>3, <1>4, FinishKeeps DEF IInv

-----------------------------------------------------------------------------
(* A heartbeat thread. *)

Hearts == [Threads -> [at : {"unborn", "select", "reply", "goodbye", "gone"},
                       beats : 0 .. MaxBeats, number : 0 .. MaxRequests]]

\* What a thread does leaves the main thread and the record as they are.
LEMMA HeartbeatKeepsMain ==
    ASSUME IInv, UnchangedForMain
    PROVE  SpeaksToTheBoard'
BY DEF IInv, SpeaksToTheBoard, UnchangedForMain

\* A beat changes nothing but the count.
LEMMA BeatKeeps ==
    ASSUME IInv, NEW t \in Threads, Beat(t)
    PROVE  IInv'
<1>1. /\ heart \in Hearts /\ heart[t].beats < MaxBeats
      /\ heart' = [heart EXCEPT ![t].beats = @ + 1]
      /\ UNCHANGED <<control, answers, post, running, main, sent, missed, heard>>
  BY DEF IInv, TypeOK, Hearts, Beat, UnchangedForMain
<1>2. /\ heart' \in Hearts
      /\ \A u \in Threads : heart'[u].at = heart[u].at /\ heart'[u].number = heart[u].number
  BY BoundsAssumption, <1>1 DEF Hearts
<1>3. TypeOK'
  BY <1>1, <1>2 DEF IInv, TypeOK, Hearts
<1>4. \A u \in Threads : (Alive(u)' <=> Alive(u)) /\ Unanswered(u)' = Unanswered(u)
  BY <1>1, <1>2 DEF Alive, Unanswered
<1>5. CountsInStep' /\ GoodbyeIsComing'
  BY <1>1, <1>2, <1>4 DEF IInv, CountsInStep, GoodbyeIsComing, SpeaksToTheBoard, Awaited, ToldToStop
<1>6. OnlyOneBeatsForEver' /\ LeftoversAreMissed'
  BY <1>1, <1>4 DEF IInv, OnlyOneBeatsForEver, LeftoversAreMissed
<1> QED
  BY <1>1, <1>3, <1>5, <1>6, HeartbeatKeepsMain DEF IInv, UnchangedForMain

\* An order that is taken is being answered; a thread that took the order to
\* stop is no longer alive, and one that took another still has it before it.
LEMMA TakeOrderKeeps ==
    ASSUME IInv, NEW t \in Threads, TakeOrder(t)
    PROVE  IInv'
<1>1. /\ heart \in Hearts /\ control \in [Threads -> Seq(Orders)]
      /\ answers \in [Threads -> Seq(Replies)]
      /\ heart[t].at = "select" /\ control[t] # <<>>
      /\ control' = [control EXCEPT ![t] = Tail(@)]
      /\ heart' = [heart EXCEPT ![t].at = IF Head(control[t]).what = "stop"
                                          THEN "goodbye" ELSE "reply",
                                ![t].number = Head(control[t]).number]
      /\ UNCHANGED <<answers, post, running, main, sent, missed, heard>>
  BY DEF IInv, TypeOK, Hearts, TakeOrder, UnchangedForMain
<1>2. /\ control' \in [Threads -> Seq(Orders)] /\ Len(control[t]) = Len(control'[t]) + 1
      /\ \A u \in Threads \ {t} : control'[u] = control[u] /\ heart'[u] = heart[u]
      /\ Head(control[t]).number \in 1 .. MaxRequests /\ control'[t] = Tail(control[t])
      /\ Len(control[t]) <= Capacity
  <2>1. /\ control[t] \in Seq(Orders) /\ control'[t] = Tail(control[t])
        /\ \A u \in Threads \ {t} : control'[u] = control[u] /\ heart'[u] = heart[u]
    BY <1>1 DEF Hearts
  <2>2. /\ Tail(control[t]) \in Seq(Orders) /\ Head(control[t]) \in Orders
        /\ Len(control[t]) \in Nat /\ Len(Tail(control[t])) = Len(control[t]) - 1
    BY <1>1, <2>1, Queues
  <2>3. control' \in [Threads -> Seq(Orders)]
    BY <1>1, <2>2
  <2>4. Head(control[t]).number \in 1 .. MaxRequests /\ Len(control[t]) <= Capacity
    BY <2>2 DEF Orders, IInv, TypeOK
  <2> QED
    BY <2>1, <2>2, <2>3, <2>4
<1>3. /\ heart' \in Hearts
      /\ heart'[t].at = IF Head(control[t]).what = "stop" THEN "goodbye" ELSE "reply"
      /\ heart'[t].number >= 1
  <2> DEFINE n == Head(control[t]).number
             place == IF Head(control[t]).what = "stop" THEN "goodbye" ELSE "reply"
  <2>1. heart' = [heart EXCEPT ![t].at = place, ![t].number = n]
    BY <1>1
  <2>2. place \in {"goodbye", "reply"} /\ n \in 1 .. MaxRequests
    BY <1>2
  <2>3. MaxRequests \in Nat
    BY BoundsAssumption
  <2> HIDE DEF n, place
  <2>4. heart' \in Hearts /\ heart'[t].at = place /\ heart'[t].number = n
    <3> DEFINE Heart == [at : {"unborn", "select", "reply", "goodbye", "gone"},
                         beats : 0 .. MaxBeats, number : 0 .. MaxRequests]
               h == [heart[t] EXCEPT !.at = place, !.number = n]
    <3>1. heart[t] \in Heart /\ heart \in [Threads -> Heart]
      BY <1>1 DEF Hearts
    <3>2. n \in 0 .. MaxRequests
      BY <2>2, <2>3
    <3>3. h \in Heart /\ h.at = place /\ h.number = n
      BY <2>2, <3>1, <3>2
    <3>4. heart' = [heart EXCEPT ![t] = h]
      BY <2>1, <3>1
    <3> HIDE DEF Heart, h
    <3>5. heart' \in [Threads -> Heart] /\ heart'[t] = h
      BY <3>1, <3>3, <3>4
    <3> QED
      BY <3>3, <3>5 DEF Heart, Hearts
  <2>5. n >= 1
    BY <2>2, <2>3
  <2> QED
    BY <2>4, <2>5 DEF place
<1>4. TypeOK'
  <2>1. \A u \in Threads : Len(control'[u]) <= Capacity /\ Len(answers[u]) <= Capacity
    <3> TAKE u \in Threads
    <3>1. CASE u = t
      BY BoundsAssumption, <1>1, <1>2, <3>1 DEF IInv, TypeOK
    <3>2. CASE u # t
      BY <1>2, <3>2 DEF IInv, TypeOK
    <3> QED
      BY <3>1, <3>2
  <2> QED
    BY <1>1, <1>2, <1>3, <2>1 DEF IInv, TypeOK, Hearts
<1>5. CountsInStep'
  BY <1>1, <1>2, <1>3 DEF IInv, CountsInStep, Awaited
<1>6. ASSUME NEW u \in Threads
      PROVE  /\ Alive(u)' => Alive(u)
             /\ Alive(u)' /\ ToldToStop(u) => ToldToStop(u)'
  <2>1. CASE u = t
    <3>1. Alive(u)
      BY <1>1, <2>1 DEF Alive
    <3>2. ASSUME Alive(u)', ToldToStop(u) PROVE ToldToStop(u)'
      <4>1. Head(control[t]).what # "stop"
        BY <1>3, <2>1, <3>2 DEF Alive
      <4> QED
        <5>1. /\ control[t] \in Seq(Orders) /\ control[t] # <<>>
              /\ control'[t] = Tail(control[t])
          BY <1>1, <1>2
        <5> QED
          BY <2>1, <3>2, <4>1, <5>1, StopsInQueues DEF ToldToStop
    <3> QED
      BY <3>1, <3>2
  <2>2. CASE u # t
    BY <1>2, <2>2 DEF Alive, ToldToStop
  <2> QED
    BY <2>1, <2>2
<1>7. GoodbyeIsComing'
  <2>1. main.at = "wait" => post \in Threads
    BY DEF IInv, SpeaksToTheBoard
  <2> QED
    BY <1>1, <1>6, <2>1 DEF IInv, GoodbyeIsComing
<1>8. OnlyOneBeatsForEver'
  BY <1>1, <1>6 DEF IInv, OnlyOneBeatsForEver, ToldToStop
<1>9. LeftoversAreMissed'
  <2>1. \A u \in Threads : Unanswered(u)' = Unanswered(u)
    <3> TAKE u \in Threads
    <3>1. CASE u = t
      <4>1. Unanswered(t) = Len(control[t]) + Len(answers[t]) + 0
        BY <1>1 DEF Unanswered
      <4>2. Unanswered(t)' = Len(control'[t]) + Len(answers[t]) + 1
        BY <1>1, <1>3 DEF Unanswered
      <4> QED
        BY <1>1, <1>2, <3>1, <4>1, <4>2
    <3>2. CASE u # t
      BY <1>1, <1>2, <3>2 DEF Unanswered
    <3> QED
      BY <3>1, <3>2
  <2> QED
    BY <1>1, <2>1 DEF IInv, LeftoversAreMissed
<1> QED
  BY <1>4, <1>5, <1>7, <1>8, <1>9, HeartbeatKeepsMain DEF IInv, TakeOrder

\* The answer goes into the channel, and the thread back to its select or away.
LEMMA SendReplyKeeps ==
    ASSUME IInv, NEW t \in Threads, SendReply(t)
    PROVE  IInv'
<1>1. /\ heart \in Hearts /\ control \in [Threads -> Seq(Orders)]
      /\ answers \in [Threads -> Seq(Replies)]
      /\ heart[t].at \in {"reply", "goodbye"} /\ Len(answers[t]) < Capacity
      /\ answers' = [answers EXCEPT ![t] = Append(@, Answer(t))]
      /\ heart' = [heart EXCEPT ![t].at = IF @ = "reply" THEN "select" ELSE "gone"]
      /\ UNCHANGED <<control, post, running, main, sent, missed, heard>>
  BY DEF IInv, TypeOK, Hearts, SendReply, UnchangedForMain
<1>2. Answer(t) \in Replies
  <2>1. /\ heart[t].number \in 1 .. MaxRequests
        /\ heart[t].beats \in 0 .. MaxBeats + 99 /\ 99 \in 0 .. MaxBeats + 99
    BY BoundsAssumption, <1>1 DEF IInv, CountsInStep, Hearts
  <2> QED
    BY <2>1 DEF Answer, Replies
<1>3. /\ answers' \in [Threads -> Seq(Replies)] /\ Len(answers'[t]) = Len(answers[t]) + 1
      /\ \A u \in Threads \ {t} : answers'[u] = answers[u] /\ heart'[u] = heart[u]
      /\ Len(answers[t]) \in Nat
  BY <1>1, <1>2, Queues DEF Hearts
<1>4. /\ heart' \in Hearts
      /\ heart'[t].at = IF heart[t].at = "reply" THEN "select" ELSE "gone"
  BY <1>1 DEF Hearts
<1>5. TypeOK'
  <2>1. \A u \in Threads : Len(control[u]) <= Capacity /\ Len(answers'[u]) <= Capacity
    <3> TAKE u \in Threads
    <3>1. CASE u = t
      BY BoundsAssumption, <1>1, <1>3, <3>1 DEF IInv, TypeOK
    <3>2. CASE u # t
      BY <1>3, <3>2 DEF IInv, TypeOK
    <3> QED
      BY <3>1, <3>2
  <2> QED
    BY <1>1, <1>3, <1>4, <2>1 DEF IInv, TypeOK, Hearts
<1>6. CountsInStep'
  BY <1>1, <1>3, <1>4 DEF IInv, CountsInStep, Awaited
<1>7. \A u \in Threads : Alive(u)' => Alive(u)
  BY <1>1, <1>3, <1>4 DEF Alive
<1>8. GoodbyeIsComing' /\ OnlyOneBeatsForEver'
  <2>1. main.at = "wait" => post \in Threads
    BY DEF IInv, SpeaksToTheBoard
  <2> QED
    BY <1>1, <1>7, <2>1 DEF IInv, GoodbyeIsComing, OnlyOneBeatsForEver, ToldToStop
<1>9. LeftoversAreMissed'
  <2>1. \A u \in Threads : Unanswered(u)' = Unanswered(u)
    <3> TAKE u \in Threads
    <3>1. CASE u = t
      <4>1. Unanswered(t) = Len(control[t]) + Len(answers[t]) + 1
        BY <1>1 DEF Unanswered
      <4>2. Unanswered(t)' = Len(control[t]) + Len(answers'[t]) + 0
        <5>1. heart'[t].at \notin {"reply", "goodbye"}
          BY <1>4
        <5> QED
          BY <1>1, <1>3, <5>1 DEF Unanswered
      <4> QED
        BY <1>1, <1>3, <3>1, <4>1, <4>2
    <3>2. CASE u # t
      BY <1>1, <1>3, <3>2 DEF Unanswered
    <3> QED
      BY <3>1, <3>2
  <2> QED
    BY <1>1, <2>1 DEF IInv, LeftoversAreMissed
<1> QED
  BY <1>5, <1>6, <1>8, <1>9, HeartbeatKeepsMain DEF IInv, SendReply

\* Every step keeps the invariant.
LEMMA NextIInv == IInv /\ [Next]_vars => IInv'
<1> SUFFICES ASSUME IInv, [Next]_vars PROVE IInv'
  OBVIOUS
<1>1. CASE Main
  BY <1>1, StartKeeps, RequestKeeps, SendKeeps, HearKeeps, GiveUpKeeps DEF Main
<1>2. ASSUME NEW t \in Threads, Heartbeat(t) PROVE IInv'
  BY <1>2, BeatKeeps, TakeOrderKeeps, SendReplyKeeps DEF Heartbeat
<1>3. CASE UNCHANGED vars
  BY <1>3 DEF vars, IInv, TypeOK, SpeaksToTheBoard, CountsInStep, GoodbyeIsComing, Awaited,
              OnlyOneBeatsForEver, LeftoversAreMissed, Unanswered, Alive, ToldToStop
<1> QED
  BY <1>1, <1>2, <1>3 DEF Next

-----------------------------------------------------------------------------
\* The inductive invariant holds in every state of the services.
THEOREM InvariantHolds == Spec => []IInv
BY InitIInv, NextIInv, PTL DEF Spec

\* Orders, answers and counts have their types, and no channel overflows.
THEOREM TypeCorrect == Spec => []TypeOK
BY InvariantHolds, PTL DEF IInv

\* A heartbeat that is not the one on the board of a running service is under
\* orders to stop, however often the service was restarted without a goodbye.
THEOREM OneBeatsForEver == Spec => []OnlyOneBeatsForEver
BY InvariantHolds, PTL DEF IInv

\* The replies a restarted or late conversation finds are as many as board_ask
\* gave up on, at most.
THEOREM LeftoversWereMissed == Spec => []LeftoversAreMissed
BY InvariantHolds, PTL DEF IInv

\* Neither side ever blocks in a send before as many requests were given up as
\* a channel holds.
THEOREM RoomForSends == Spec => []SendsHaveRoom
<1>1. IInv => SendsHaveRoom
  <2> SUFFICES ASSUME IInv, NEW t \in Threads, missed[t] < Capacity
               PROVE  /\ main.at = "send" /\ post = t => Len(control[t]) < Capacity
                      /\ heart[t].at \in {"reply", "goodbye"} => Len(answers[t]) < Capacity
    BY DEF SendsHaveRoom
  <2>1. /\ control \in [Threads -> Seq(Orders)] /\ answers \in [Threads -> Seq(Replies)]
        /\ missed \in [Threads -> 0 .. MaxRequests] /\ MaxRequests \in Nat /\ Capacity \in Nat
    BY BoundsAssumption DEF IInv, TypeOK
  <2>2. ASSUME main.at = "send" PROVE Len(control[t]) < Capacity
    <3>1. Unanswered(t) <= missed[t]
      BY <2>1, <2>2 DEF IInv, LeftoversAreMissed
    <3>2. CASE heart[t].at \in {"reply", "goodbye"}
      BY <2>1, <3>1, <3>2 DEF Unanswered
    <3>3. CASE heart[t].at \notin {"reply", "goodbye"}
      BY <2>1, <3>1, <3>3 DEF Unanswered
    <3> QED
      BY <3>2, <3>3
  <2>3. ASSUME heart[t].at \in {"reply", "goodbye"} PROVE Len(answers[t]) < Capacity
    <3>1. Unanswered(t) <= missed[t] + 1
      <4>1. CASE main.at = "wait" /\ post = t
        BY <4>1 DEF IInv, LeftoversAreMissed
      <4>2. CASE ~(main.at = "wait" /\ post = t)
        <5>1. Unanswered(t) <= missed[t]
          BY <2>1, <4>2 DEF IInv, LeftoversAreMissed
        <5>2. Unanswered(t) = Len(control[t]) + Len(answers[t]) + 1
          BY <2>3 DEF Unanswered
        <5> QED
          BY <2>1, <5>1, <5>2
      <4> QED
        BY <4>1, <4>2
    <3>2. Unanswered(t) = Len(control[t]) + Len(answers[t]) + 1
      BY <2>3 DEF Unanswered
    <3> QED
      BY <2>1, <3>1, <3>2
  <2> QED
    BY <2>2, <2>3
<1> QED
  BY <1>1, InvariantHolds, PTL
=============================================================================
