------------------------------- MODULE Disk --------------------------------
(***************************************************************************)
(* The disk layer of Ern-OS: system/hal/the_disk.ep on the file primitives *)
(* of the runtime (toolchain/epc_bootstrap.c, ep_read_file and following). *)
(*                                                                         *)
(* One process makes one request at a time; a request is a sequence of     *)
(* host calls, and each host call that changes the host is one step, with  *)
(* every outcome the code can meet: it works, the host refuses it, or the  *)
(* whole system stops in it.  host[x] is what the host keeps at place x.   *)
(* A replacement text goes to the place Staging[p] first, and disk_recover *)
(* decides about such a place at the start of the next request on p.       *)
(***************************************************************************)
EXTENDS DiskTypes

CONSTANTS
    Places,         \* the host's names under disk/: the paths and more
    Staging,        \* Staging[p]: the place named <p>.ern-new
    ShortWrites,    \* may the host keep only part of a text it accepted?
    MaxLength       \* bound: no append starts on a longer file

ASSUME PlacesAssumption ==
    /\ Paths \subseteq Places
    /\ Staging \in [Paths -> Places]
    /\ \A p \in Paths : Staging[p] # p
    /\ \A p, q \in Paths : Staging[p] = Staging[q] => p = q
ASSUME ShortWritesAssumption == ShortWrites \in BOOLEAN
ASSUME MaxLengthAssumption == MaxLength \in Nat

VARIABLES
    host,       \* host[x]: what lives at place x
    request,    \* the request being served, or NoRequest
    at,         \* the host call it has reached
    answer      \* how the last request ended

vars == <<host, request, at, answer>>

Final == request.path
Staged == Staging[request.path]

TypeOK ==
    /\ host \in [Places -> Node]
    /\ request \in Requests \cup {NoRequest}
    /\ at \in {"idle", "recover", "act", "install", "clean"}
    /\ answer \in Answers

Init ==
    /\ host = [x \in Places |-> Nothing]
    /\ request = NoRequest
    /\ at = "idle"
    /\ answer = Waiting

\* Mutant: disk_remove_file without its call of disk_recover.
CallForgetsRecovery(r) ==
    /\ at = "idle"
    /\ r.op = "append" => Len(host[r.path].data) + Len(r.text) <= MaxLength
    /\ request' = r
    /\ at' = IF r.op \in Recovering \ {"remove_file"} THEN "recover" ELSE "act"
    /\ answer' = Waiting
    /\ UNCHANGED host

-----------------------------------------------------------------------------
\* A layer above calls the disk.
Call(r) ==
    /\ at = "idle"
    /\ r.op = "append" => Len(host[r.path].data) + Len(r.text) <= MaxLength
    /\ request' = r
    /\ at' = IF r.op \in Recovering THEN "recover" ELSE "act"
    /\ answer' = Waiting
    /\ UNCHANGED host

Return(code, seen) ==
    /\ request' = NoRequest
    /\ at' = "idle"
    /\ answer' = Returned(code, seen)

Goto(step) ==
    /\ at' = step
    /\ UNCHANGED <<request, answer>>

\* Any host call may be refused; the operation then answers 0.
Refused == Return(0, <<>>) /\ UNCHANGED host

\* Mutant: disk_recover returns without looking at the staging place.
RecoverSkipped == at = "recover" /\ Goto("act") /\ UNCHANGED host

-----------------------------------------------------------------------------
\* disk_recover: nothing is staged, so there is nothing to decide.
RecoverNothing ==
    /\ at = "recover"
    /\ host[Staged] = Nothing
    /\ Goto("act")
    /\ UNCHANGED host

\* Mutant: disk_recover finishes the replacement although the final exists.
RecoverPrefersStage ==
    /\ at = "recover"
    /\ host[Staged] # Nothing
    /\ host[Final] # Nothing
    /\ Goto("act")
    /\ host' = [host EXCEPT ![Final] = host[Staged], ![Staged] = Nothing]

\* disk_recover: the final place is taken and stays authoritative.
RecoverStale ==
    /\ at = "recover"
    /\ host[Staged] # Nothing
    /\ host[Final] # Nothing
    /\ \/ Goto("act") /\ host' = [host EXCEPT ![Staged] = Nothing]
       \/ Refused

\* disk_recover: only the staging place exists, so finish the replacement.
RecoverOrphan ==
    /\ at = "recover"
    /\ host[Staged] # Nothing
    /\ host[Final] = Nothing
    /\ \/ /\ Goto("act")
          /\ host' = [host EXCEPT ![Final] = host[Staged], ![Staged] = Nothing]
       \/ Refused

-----------------------------------------------------------------------------
At(op) == at = "act" /\ request.op = op

\* A missing file reads as the empty text.  No caller reads a folder.
ReadFile ==
    /\ At("read")
    /\ Return(1, host[Final].data)
    /\ UNCHANGED host

Exists ==
    /\ At("exists")
    /\ Return(IF host[Final] # Nothing THEN 1 ELSE 0, <<>>)
    /\ UNCHANGED host

IsFolder ==
    /\ At("is_folder")
    /\ Return(IF host[Final].kind = "folder" THEN 1 ELSE 0, <<>>)
    /\ UNCHANGED host

\* What ep_write_file and ep_append_file can leave of a text they report as
\* written: fputs and fclose are not checked, so possibly only a part.
Accepted(text) == {text} \cup (IF ShortWrites THEN Cuts(text) ELSE {})

AppendFile ==
    /\ At("append")
    /\ \/ /\ host[Final].kind # "folder"
          /\ \E text \in Accepted(request.text) :
                host' = [host EXCEPT ![Final] = Extended(host[Final], text)]
          /\ Return(1, <<>>)
       \/ Refused

\* disk_write, first half: write_file of the whole text to the staging place.
StageText ==
    /\ At("write")
    /\ \/ /\ host[Staged].kind # "folder"
          /\ \E text \in Accepted(request.text) :
                host' = [host EXCEPT ![Staged] = File(text)]
          /\ Goto("install")
       \/ Refused

\* disk_write, second half: rename_file of the staging place to the final one.
Install ==
    /\ at = "install"
    /\ \/ /\ host[Final].kind # "folder"
          /\ host' = [host EXCEPT ![Final] = host[Staged], ![Staged] = Nothing]
          /\ Return(1, <<>>)
       \/ Goto("clean") /\ UNCHANGED host

\* disk_write, after a refused rename: the answer of remove_file is ignored.
CleanUp ==
    /\ at = "clean"
    /\ \/ host' = [host EXCEPT ![Staged] = Nothing] /\ Return(0, <<>>)
       \/ Refused

MakeFolder ==
    /\ At("make_folder")
    /\ \/ /\ host[Final] = Nothing
          /\ host' = [host EXCEPT ![Final] = Folder]
          /\ Return(1, <<>>)
       \/ Refused

\* remove() also takes an empty folder; rmdir() takes only that.
Remove ==
    /\ \/ /\ At("remove_file") /\ host[Final] # Nothing
       \/ /\ At("remove_folder") /\ host[Final].kind = "folder"
    /\ host' = [host EXCEPT ![Final] = Nothing]
    /\ Return(1, <<>>)

RemoveRefused ==
    /\ At("remove_file") \/ At("remove_folder")
    /\ Refused

\* rename() replaces a file by a file and a folder by a folder.
Rename ==
    /\ At("rename")
    /\ \/ /\ host[Final] # Nothing
          /\ host[request.to].kind \in {"nothing", host[Final].kind}
          /\ host' = IF request.to = Final
                     THEN host
                     ELSE [host EXCEPT ![request.to] = host[Final], ![Final] = Nothing]
          /\ Return(1, <<>>)
       \/ Refused

-----------------------------------------------------------------------------
\* The system stops while it serves a request.  What the host was writing at
\* that moment may be cut anywhere; the memory of the request is gone.
Crash ==
    /\ at # "idle"
    /\ request' = NoRequest
    /\ at' = "idle"
    /\ answer' = Stopped
    /\ \/ UNCHANGED host
       \/ /\ At("write")
          /\ host[Staged].kind # "folder"
          /\ \E text \in Cuts(request.text) :
                host' = [host EXCEPT ![Staged] = File(text)]
       \/ /\ At("append")
          /\ host[Final].kind # "folder"
          /\ \E text \in Cuts(request.text) :
                host' = [host EXCEPT ![Final] = Extended(host[Final], text)]

Recover == RecoverNothing \/ RecoverStale \/ RecoverOrphan

Act ==
    \/ ReadFile \/ Exists \/ IsFolder \/ AppendFile \/ StageText
    \/ MakeFolder \/ Remove \/ RemoveRefused \/ Rename

Next ==
    \/ \E r \in Requests : Call(r)
    \/ Recover \/ Act \/ Install \/ CleanUp \/ Crash

Spec == Init /\ [][Next]_vars

-----------------------------------------------------------------------------
(* Properties *)

\* No path that a caller names is the staging place of another.
StagesAreHidden == \A p, q \in Paths : Staging[p] # q

\* While the request is between its host calls, the staging place holds what
\* the code believes it holds: nothing before the act, the whole text after.
StagingDiscipline ==
    /\ at = "act" /\ request.op \in Recovering => host[Staged] = Nothing
    /\ at \in {"install", "clean"} => host[Staged] = File(request.text)

\* "A completed file is never touched until the whole new value has reached
\* this staging name": a step changes a file only as the request that names
\* it, to the whole new text, by extending it, or by taking it away whole.
ChangesWhole(p) ==
    \/ request.op = "write" /\ request.path = p /\ host'[p] = File(request.text)
    \/ /\ request.op = "append" /\ request.path = p
       /\ \E text \in Cuts(request.text) \cup {request.text} :
             host'[p] = Extended(host[p], text)
    \/ request.op = "remove_file" /\ request.path = p /\ host'[p] = Nothing
    \/ /\ request.op = "rename"
       /\ \/ p = request.to /\ host'[p] = host[request.path]
          \/ p = request.path /\ host'[p] = Nothing /\ host'[request.to] = host[p]

FilesChangeWhole ==
    \A p \in Paths : IsFile(host[p]) /\ host'[p] # host[p] => ChangesWhole(p)

OldOrNew == [][FilesChangeWhole]_vars

\* What was left at a staging place and can still come up: the final place
\* holds no file, and no write to it is under way.
Limbo ==
    [p \in Paths |->
        IF IsFile(host[p]) \/ (at \in {"install", "clean"} /\ request.path = p)
        THEN Nothing
        ELSE host[Staging[p]]]

\* What a caller finds at the paths.
Visible == [p \in Paths |-> host[p]]

\* The disk layer implements its promise.
Promise == INSTANCE Store WITH store <- Visible, limbo <- Limbo
KeepsPromise == Promise!Spec
=============================================================================
