------------------------------- MODULE Store -------------------------------
(***************************************************************************)
(* What the disk of Ern-OS promises to the layers above it.                *)
(*                                                                         *)
(* A caller of system/hal/the_disk.ep makes one request at a time and gets *)
(* one answer.  store[p] is what lives at path p.  A request takes effect  *)
(* and is answered in one step; a refusal changes nothing that was there;  *)
(* the machine may stop while a request is open.                           *)
(*                                                                         *)
(* The one weakness of the design is stated, not hidden: a text written to *)
(* a path where no file lives yet may be left in limbo, whole or cut, when *)
(* the write is interrupted or refused.  The next request on the path that *)
(* is not refused settles it first: it comes up if the path is still empty *)
(* and is dropped otherwise.  It never replaces a file.                    *)
(***************************************************************************)
EXTENDS DiskTypes

VARIABLES
    store,      \* store[p]: what lives at path p
    limbo,      \* limbo[p]: the text of an unfinished write to p, or Nothing
    request,    \* the open request, or NoRequest
    answer      \* how the last request ended

vars == <<store, limbo, request, answer>>

Here == store[request.path]

Init ==
    /\ store = [p \in Paths |-> Nothing]
    /\ limbo = [p \in Paths |-> Nothing]
    /\ request = NoRequest
    /\ answer = Waiting

Submit(r) ==
    /\ request = NoRequest
    /\ request' = r
    /\ answer' = Waiting
    /\ UNCHANGED <<store, limbo>>

Reply(code, seen) ==
    /\ request' = NoRequest
    /\ answer' = Returned(code, seen)

-----------------------------------------------------------------------------
\* Before it is served, a request settles what an earlier write left in limbo.
Settle ==
    /\ request.op \in Recovering
    /\ store' = IF Here = Nothing
                THEN [store EXCEPT ![request.path] = limbo[request.path]]
                ELSE store
    /\ limbo' = [limbo EXCEPT ![request.path] = Nothing]
    /\ UNCHANGED <<request, answer>>

\* A request does its work only after what it found in limbo was settled.
Settled == request.op \in Recovering => limbo[request.path] = Nothing

\* No answer denies a folder that is there, unless a stage in limbo beside it
\* could not be cleared away.
Denies ==
    /\ Here.kind = "folder"
    /\ \/ request.op = "is_folder"
       \/ request.op = "exists" /\ Settled

Refuse ==
    /\ request # NoRequest
    /\ ~Denies
    /\ Reply(0, <<>>)
    /\ UNCHANGED <<store, limbo>>

\* A refused write may still come up later, but only where there was no file.
RefuseIntoLimbo ==
    /\ request.op = "write"
    /\ ~IsFile(Here)
    /\ Settled
    /\ Reply(0, <<>>)
    /\ limbo' = [limbo EXCEPT ![request.path] = File(request.text)]
    /\ UNCHANGED store

Look ==
    /\ \/ request.op = "exists" /\ Here # Nothing
       \/ request.op = "is_folder" /\ Here.kind = "folder"
    /\ Settled
    /\ Reply(1, <<>>)
    /\ UNCHANGED <<store, limbo>>

Read ==
    /\ request.op = "read"
    /\ Settled
    /\ Reply(1, Here.data)
    /\ UNCHANGED <<store, limbo>>

\* The request puts "node" at the place it names, and answers 1.
Put(node) ==
    /\ Reply(1, <<>>)
    /\ store' = [store EXCEPT ![request.path] = node]
    /\ UNCHANGED limbo

Write ==
    /\ request.op = "write"
    /\ Settled
    /\ Here.kind # "folder"
    /\ Put(File(request.text))

AppendText ==
    /\ request.op = "append"
    /\ Settled
    /\ Here.kind # "folder"
    /\ Put(Extended(Here, request.text))

MakeFolder ==
    /\ request.op = "make_folder"
    /\ Here = Nothing
    /\ Put(Folder)

Remove ==
    /\ \/ request.op = "remove_file" /\ Here # Nothing
       \/ request.op = "remove_folder" /\ Here.kind = "folder"
    /\ Settled
    /\ Put(Nothing)

\* A file that arrives at a path drops what was in limbo there.
Rename ==
    /\ request.op = "rename"
    /\ Settled
    /\ Here # Nothing
    /\ store[request.to].kind \in {"nothing", Here.kind}
    /\ Reply(1, <<>>)
    /\ store' = IF request.to = request.path
                THEN store
                ELSE [store EXCEPT ![request.path] = Nothing, ![request.to] = Here]
    /\ limbo' = IF IsFile(Here)
                THEN [limbo EXCEPT ![request.to] = Nothing]
                ELSE limbo

\* The machine stops: an interrupted write leaves its file as it was, and an
\* interrupted append leaves what was there before in front.
Stop ==
    /\ request # NoRequest
    /\ request' = NoRequest
    /\ answer' = Stopped
    /\ \/ UNCHANGED <<store, limbo>>
       \/ /\ request.op = "write"
          /\ Settled
          /\ ~IsFile(Here)
          /\ \E text \in Cuts(request.text) \cup {request.text} :
                limbo' = [limbo EXCEPT ![request.path] = File(text)]
          /\ UNCHANGED store
       \/ /\ request.op = "append"
          /\ Settled
          /\ Here.kind # "folder"
          /\ \E text \in Cuts(request.text) :
                store' = [store EXCEPT ![request.path] = Extended(Here, text)]
          /\ UNCHANGED limbo

-----------------------------------------------------------------------------
Serve ==
    \/ Settle \/ Refuse \/ RefuseIntoLimbo \/ Look \/ Read \/ Write \/ AppendText
    \/ MakeFolder \/ Remove \/ Rename

Next == Serve \/ Stop \/ \E r \in Requests : Submit(r)

Spec == Init /\ [][Next]_vars
=============================================================================
