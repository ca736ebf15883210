--------------------------- MODULE AccountsProofs ---------------------------
(***************************************************************************)
(* Proofs about accounts, for any names and passwords, on a disk that may  *)
(* refuse any request and lose power at any step.                          *)
(*                                                                         *)
(* Every text in a record file, whole, cut or still in limbo, must be      *)
(* covered by a password and a role that may be in force; and what the     *)
(* main thread believes of the record it deals with must still be so when  *)
(* the disk has answered.                                                  *)
(***************************************************************************)
EXTENDS Accounts, SequenceTheorems, TLAPS

-----------------------------------------------------------------------------
(* The invariant. *)

\* A record with the role e, or cut behind the lock.
Rec(s, a, e) == IF e = "" THEN <<Lock(s, a)>> ELSE <<Lock(s, a), Role(e)>>

\* The passwords and roles "may" account for a text, and for a file.
CoveredText(may, text) ==
    \/ text = <<>>
    \/ \E s \in Secrets, a \in Schemes, r \in Roles : \E e \in {r, ""} :
          <<s, r>> \in may /\ text = Rec(s, a, e)

CoveredNode(may, node) ==
    node = Drive!Nothing \/ \E text : CoveredText(may, text) /\ node = Drive!File(text)

\* A function on the places of the disk.
Mapped(f) == f = [p \in Spots |-> f[p]]

Covered ==
    /\ Mapped(store) /\ Mapped(limbo)
    /\ \A n \in Names : /\ CoveredNode(given[n], store[RecordOf(n)])
                        /\ CoveredNode(given[n], limbo[RecordOf(n)])
    /\ \A p \in {Users} \cup {HomeOf(n) : n \in Names} :
          store[p] \in {Drive!Nothing, Drive!Folder} /\ limbo[p] = Drive!Nothing

\* What the thread knows at its steps: with whom it deals, a password that
\* was typed, a role to give.
Making == {"taken", "written", "home", "homemade", "rolledback"}
Typing == Making \cup {"verify", "compare", "migrated", "role", "enter"}
Dealing == Typing \cup {"known", "password", "free", "told", "removable", "removed"}

Mind ==
    /\ at \in Steps /\ tries \in 0 .. 2
    /\ who \in Names \cup {Nobody} /\ secret \in Secrets \cup {Nobody}
    /\ role \in Roles \cup {""}
    /\ session \in [person : Names \cup {Nobody}, role : Roles \cup {""}]
    /\ given \in [Names -> SUBSET (Secrets \X Roles)]
    /\ at \in Dealing => who \in Names
    /\ at \in Typing => secret \in Secrets
    /\ at \in Making => role \in Roles
    /\ at \in Making \ {"taken"} => <<secret, role>> \in given[who]
    /\ at \in {"removable", "removed"} => session.role = "admin" /\ who # session.person

\* The record of the person the thread deals with.
Mine == store[RecordOf(who)]

\* The request that is open at each step.
Simple(op, p) == Drive!Request(op, p, <<>>, p)
Writes(text) == Drive!Request("write", RecordOf(who), text, RecordOf(who))

Migrates(e) ==
    /\ Mine = Drive!File(Rec(secret, "legacy", e))
    /\ request = Writes(Rec(secret, "v2", e))

Open ==
    \/ at \in {"formatted", "ensure"} /\ request = Simple("exists", Users)
    \/ at = "made" /\ request \in {Simple("is_folder", Users), Simple("make_folder", Users)}
    \/ /\ at \in {"taken", "known", "verify", "role", "free", "told", "removable"}
       /\ request = Simple("exists", RecordOf(who))
    \/ at \in {"compare", "enter"} /\ request = Simple("read", RecordOf(who))
    \/ at \in {"rolledback", "removed"} /\ request = Simple("remove_file", RecordOf(who))
    \/ at = "home" /\ request = Simple("exists", HomeOf(who))
    \/ at = "homemade" /\ request = Simple("make_folder", HomeOf(who))
    \/ at = "written" /\ request = Writes(Rec(secret, "v2", role))
    \/ at = "migrated" /\ \E e \in Roles \cup {""} : Migrates(e)

Asked == request = Drive!NoRequest \/ Open

\* The record that was written is there as it was written, and nothing else
\* can come up in its place.
Whole ==
    \/ at \in {"home", "homemade"}
    \/ at = "rolledback" /\ request # Drive!NoRequest
    \/ at = "written" /\ request = Drive!NoRequest /\ answer.code = 1

Remembered ==
    /\ Whole => /\ Mine = Drive!File(Rec(secret, "v2", role))
                /\ limbo[RecordOf(who)] = Drive!Nothing
    /\ at = "removed" /\ request = Drive!NoRequest /\ answer.code = 1 =>
          Mine = Drive!Nothing /\ limbo[RecordOf(who)] = Drive!Nothing
    /\ at \in {"compare", "enter"} /\ request = Drive!NoRequest /\ answer.seen # <<>> =>
          Mine = Drive!File(answer.seen)
    /\ at \in {"migrated", "role", "enter"} =>
          \E a \in Schemes, e \in Roles \cup {""} : Mine = Drive!File(Rec(secret, a, e))

AccountInv == Mind /\ Covered /\ Asked /\ Remembered

-----------------------------------------------------------------------------
(* Records, places and nodes. *)

Ends == Roles \cup {""}

LEMMA OneElement ==
    ASSUME NEW S, NEW q \in Seq(S), Len(q) = 1
    PROVE  q = <<q[1]>>
OBVIOUS

LEMMA TwoElements ==
    ASSUME NEW S, NEW q \in Seq(S), Len(q) = 2
    PROVE  q = <<q[1], q[2]>>
OBVIOUS

LEMMA TwoJoined ==
    ASSUME NEW x, NEW y
    PROVE  <<x>> \o <<y>> = <<x, y>>
<1> DEFINE q == <<x>> \o <<y>>
<1>1. /\ <<x>> \in Seq({x, y}) /\ <<y>> \in Seq({x, y})
      /\ Len(<<x>>) = 1 /\ Len(<<y>>) = 1
  OBVIOUS
<1>2. /\ q \in Seq({x, y}) /\ Len(q) = 2
      /\ \A i \in 1 .. 2 : q[i] = IF i <= 1 THEN <<x>>[i] ELSE <<y>>[i - 1]
  BY <1>1, ConcatProperties
<1>3. q[1] = x /\ q[2] = y
  BY <1>2
<1> HIDE DEF q
<1>4. q = <<x, y>>
  BY <1>2, <1>3, TwoElements
<1> QED
  BY <1>4 DEF q

LEMMA FirstOfTwo ==
    ASSUME NEW x, NEW y
    PROVE  SubSeq(<<x, y>>, 1, 1) = <<x>> /\ SubSeq(<<x, y>>, 1, 0) = <<>>
<1> DEFINE q == SubSeq(<<x, y>>, 1, 1)
<1>1. <<x, y>> \in Seq({x, y}) /\ \A i \in 1 .. 1 : <<x, y>>[i] \in {x, y}
  OBVIOUS
<1>2. q \in Seq({x, y}) /\ Len(q) = 1 /\ \A i \in 1 .. 1 : q[i] = <<x, y>>[i]
  BY <1>1, SubSeqProperties
<1>3. q[1] = x
  BY <1>2
<1> HIDE DEF q
<1>4. q = <<x>>
  BY <1>2, <1>3, OneElement
<1> QED
  BY <1>4 DEF q

LEMMA RecordParts ==
    ASSUME NEW s, NEW a, NEW e \in Ends
    PROVE  /\ Rec(s, a, e) # <<>> /\ Rec(s, a, e)[1] = Lock(s, a)
           /\ RoleOf(Rec(s, a, e)) = e
           /\ \A b : <<Lock(s, b)>> \o Tail(Rec(s, a, e)) = Rec(s, b, e)
<1>1. CASE e = ""
  <2>1. Rec(s, a, e) = <<Lock(s, a)>> /\ \A b : Rec(s, b, e) = <<Lock(s, b)>>
    BY <1>1 DEF Rec
  <2>2. Tail(<<Lock(s, a)>>) = <<>> /\ \A b : <<Lock(s, b)>> \o <<>> = <<Lock(s, b)>>
    OBVIOUS
  <2>3. Rec(s, a, e) # <<>> /\ Rec(s, a, e)[1] = Lock(s, a) /\ RoleOf(Rec(s, a, e)) = e
    <3>1. Len(<<Lock(s, a)>>) # 2
      OBVIOUS
    <3>2. RoleOf(<<Lock(s, a)>>) = ""
      BY <3>1, Zenon DEF RoleOf
    <3>3. RoleOf(Rec(s, a, e)) = e
      BY <1>1, <2>1, <3>2, Zenon
    <3>4. <<Lock(s, a)>> # <<>> /\ <<Lock(s, a)>>[1] = Lock(s, a)
      OBVIOUS
    <3> QED
      BY <2>1, <3>3, <3>4, Zenon
  <2> QED
    BY <2>1, <2>2, <2>3
<1>2. CASE e # ""
  <2>1. Rec(s, a, e) = <<Lock(s, a), Role(e)>> /\ \A b : Rec(s, b, e) = <<Lock(s, b), Role(e)>>
    BY <1>2 DEF Rec
  <2>2. Tail(<<Lock(s, a), Role(e)>>) = <<Role(e)>>
    OBVIOUS
  <2>3. \A b : <<Lock(s, b)>> \o <<Role(e)>> = <<Lock(s, b), Role(e)>>
    BY TwoJoined
  <2>4. Rec(s, a, e) # <<>> /\ Rec(s, a, e)[1] = Lock(s, a) /\ RoleOf(Rec(s, a, e)) = e
    <3>1. Role(e)[2] = e
      BY DEF Role
    <3>2. Len(<<Lock(s, a), Role(e)>>) = 2 /\ <<Lock(s, a), Role(e)>>[2] = Role(e)
      OBVIOUS
    <3> QED
      BY <2>1, <3>1, <3>2 DEF RoleOf
  <2> QED
    BY <2>1, <2>2, <2>3, <2>4
<1> QED
  BY <1>1, <1>2

LEMMA SameLock ==
    ASSUME NEW s, NEW t, NEW a, NEW b, Lock(s, a) = Lock(t, b)
    PROVE  s = t /\ a = b
BY DEF Lock

LEMMA SameRecord ==
    ASSUME NEW s, NEW t, NEW a, NEW b, NEW e \in Ends, NEW f \in Ends, Rec(s, a, e) = Rec(t, b, f)
    PROVE  s = t /\ a = b /\ e = f
<1>1. Lock(s, a) = Lock(t, b)
  BY RecordParts
<1> QED
  BY <1>1, SameLock, RecordParts

\* What is left of a record: nothing, or the lock.
LEMMA RecordCuts ==
    ASSUME NEW s, NEW a, NEW e \in Ends, NEW text \in Drive!Cuts(Rec(s, a, e))
    PROVE  text = <<>> \/ text = Rec(s, a, "")
<1>1. CASE e = ""
  <2>1. PICK n \in 0 .. Len(<<Lock(s, a)>>) - 1 : text = SubSeq(<<Lock(s, a)>>, 1, n)
    BY <1>1 DEF Drive!Cuts, Rec
  <2>2. n = 0
    BY <2>1
  <2> QED
    BY <2>1, <2>2
<1>2. CASE e # ""
  <2>1. PICK n \in 0 .. Len(<<Lock(s, a), Role(e)>>) - 1 :
           text = SubSeq(<<Lock(s, a), Role(e)>>, 1, n)
    BY <1>2 DEF Drive!Cuts, Rec
  <2>2. n \in {0, 1}
    BY <2>1
  <2>3. Rec(s, a, "") = <<Lock(s, a)>>
    BY DEF Rec
  <2>4. CASE n = 0
    BY <2>1, <2>4, FirstOfTwo
  <2>5. CASE n = 1
    BY <2>1, <2>3, <2>5, FirstOfTwo
  <2> QED
    BY <2>2, <2>4, <2>5
<1> QED
  BY <1>1, <1>2

LEMMA Places ==
    /\ \A n, m : RecordOf(n) = RecordOf(m) => n = m
    /\ \A n, m : RecordOf(n) # HomeOf(m)
    /\ \A n : RecordOf(n) # Users
    /\ \A n \in Names : RecordOf(n) \in Spots /\ HomeOf(n) \in Spots
    /\ Users \in Spots
    /\ \A p \in Spots : \/ \E n \in Names : p = RecordOf(n)
                        \/ p \in {Users} \cup {HomeOf(n) : n \in Names}
BY DEF RecordOf, HomeOf, Users, Spots

LEMMA Nodes ==
    /\ \A t : Drive!File(t) # Drive!Nothing /\ Drive!File(t) # Drive!Folder
    /\ \A t : Drive!File(t).data = t /\ Drive!IsFile(Drive!File(t)) /\ Drive!File(t).kind = "file"
    /\ \A t, u : Drive!File(t) = Drive!File(u) => t = u
    /\ Drive!Nothing.data = <<>> /\ ~Drive!IsFile(Drive!Nothing)
    /\ Drive!Nothing.kind = "nothing" /\ Drive!Nothing # Drive!Folder
BY DEF Drive!File, Drive!Nothing, Drive!Folder, Drive!IsFile

LEMMA RequestParts ==
    /\ \A op, p, t, q : /\ Drive!Request(op, p, t, q).op = op /\ Drive!Request(op, p, t, q).path = p
                        /\ Drive!Request(op, p, t, q).text = t
    /\ Drive!NoRequest.op = "none"
    /\ \A op, p, t, q : op # "none" => Drive!Request(op, p, t, q) # Drive!NoRequest
BY DEF Drive!Request, Drive!NoRequest

\* A record that is covered stays so when more may be in force, and when it
\* is cut or written anew under another scheme.
LEMMA CoveredRecord ==
    ASSUME NEW may, NEW s \in Secrets, NEW r \in Roles, <<s, r>> \in may,
           NEW a \in Schemes, NEW e \in {r, ""}
    PROVE  CoveredText(may, Rec(s, a, e))
BY DEF CoveredText

LEMMA WhatIsCovered ==
    ASSUME NEW may, NEW s, NEW a, NEW e \in Ends, CoveredText(may, Rec(s, a, e))
    PROVE  s \in Secrets /\ a \in Schemes /\ \E r \in Roles : <<s, r>> \in may /\ e \in {r, ""}
<1>1. PICK t \in Secrets, b \in Schemes, r \in Roles : \E f \in {r, ""} :
          <<t, r>> \in may /\ Rec(s, a, e) = Rec(t, b, f)
  BY RecordParts DEF CoveredText
<1>2. PICK f \in Ends : f \in {r, ""} /\ <<t, r>> \in may /\ Rec(s, a, e) = Rec(t, b, f)
  BY <1>1 DEF Ends
<1>3. Rec(s, a, e) = Rec(t, b, f)
  BY <1>2
<1>4. s = t
  BY <1>3, SameRecord
<1>5. a = b
  BY <1>3, SameRecord
<1>6. e = f
  BY <1>3, SameRecord
<1>7. <<s, r>> \in may /\ e \in {r, ""}
  BY <1>2, <1>4, <1>6, Zenon
<1>8. s \in Secrets /\ a \in Schemes
  BY <1>4, <1>5, Zenon
<1> QED
  BY <1>7, <1>8, Zenon

LEMMA CoveredMore ==
    ASSUME NEW may, NEW more, may \subseteq more, NEW node, CoveredNode(may, node)
    PROVE  CoveredNode(more, node)
BY DEF CoveredNode, CoveredText

LEMMA CoveredFile ==
    ASSUME NEW may, NEW text
    PROVE  CoveredNode(may, Drive!File(text)) <=> CoveredText(may, text)
BY Nodes DEF CoveredNode

\* A covered cut.
LEMMA CoveredCut ==
    ASSUME NEW may, NEW s, NEW a, NEW e \in Ends, CoveredText(may, Rec(s, a, e)),
           NEW text \in Drive!Cuts(Rec(s, a, e))
    PROVE  CoveredText(may, text)
<1>1. CASE text = <<>>
  BY <1>1 DEF CoveredText
<1>2. CASE text = Rec(s, a, "")
  <2>1. PICK r \in Roles : <<s, r>> \in may
    BY WhatIsCovered
  <2>2. s \in Secrets /\ a \in Schemes
    BY WhatIsCovered
  <2>3. CoveredText(may, Rec(s, a, ""))
    BY <2>1, <2>2, CoveredRecord
  <2> QED
    BY <1>2, <2>3
<1> QED
  BY <1>1, <1>2, RecordCuts

\* A covered record under another scheme.
LEMMA CoveredAnew ==
    ASSUME NEW may, NEW s, NEW a, NEW b \in Schemes, NEW e \in Ends, CoveredText(may, Rec(s, a, e))
    PROVE  CoveredText(may, Rec(s, b, e))
<1>1. s \in Secrets
  BY WhatIsCovered
<1>2. PICK r \in Roles : <<s, r>> \in may /\ e \in {r, ""}
  BY WhatIsCovered
<1> QED
  BY <1>1, <1>2, CoveredRecord

-----------------------------------------------------------------------------
(* What the disk does with a request. *)

\* Nothing changes at the other places.
OnlyAt(p) ==
    /\ Mapped(store') /\ Mapped(limbo')
    /\ \A q \in Spots \ {p} : store'[q] = store[q] /\ limbo'[q] = limbo[q]

LEMMA OpenParts ==
    ASSUME Open, Mind
    PROVE  /\ request # Drive!NoRequest /\ request.path \in Spots
           /\ request.op \in {"exists", "is_folder", "make_folder", "read", "remove_file", "write"}
<1>1. \A op, p : Simple(op, p).op = op /\ Simple(op, p).path = p
  BY RequestParts DEF Simple
<1>2. \A t : Writes(t).op = "write" /\ Writes(t).path = RecordOf(who)
  BY RequestParts DEF Writes
<1>3. at \in {"taken", "known", "verify", "role", "free", "told", "removable", "compare", "enter",
              "rolledback", "removed", "home", "homemade", "written", "migrated"}
        => RecordOf(who) \in Spots /\ HomeOf(who) \in Spots
  BY Places DEF Mind, Dealing, Typing, Making
<1>4. ASSUME \E text : request = Writes(text)
      PROVE  request.path \in Spots /\ request.op = "write"
  <2>1. at \in {"written", "migrated"} => request.path \in Spots /\ request.op = "write"
    BY <1>2, <1>3, <1>4
  <2>2. \/ \E op \in {"exists", "is_folder", "make_folder", "read", "remove_file"} :
              \E p : request = Simple(op, p)
        \/ at \in {"written", "migrated"}
    BY Zenon DEF Open
  <2>3. request.op = "write"
    BY <1>2, <1>4
  <2>4. at \in {"written", "migrated"}
    BY <1>1, <2>2, <2>3
  <2> QED
    BY <2>1, <2>4
<1>5. ASSUME NEW op \in {"exists", "is_folder", "make_folder", "read", "remove_file"},
             NEW p \in Spots, request = Simple(op, p)
      PROVE  /\ request.path \in Spots
             /\ request.op \in {"exists", "is_folder", "make_folder", "read", "remove_file", "write"}
  BY <1>1, <1>5
<1>7. \/ \E text : request = Writes(text)
      \/ \E op \in {"exists", "is_folder", "make_folder", "read", "remove_file"}, p \in Spots :
              request = Simple(op, p)
  BY <1>3, Places DEF Open, Migrates
<1>8. /\ request.path \in Spots
      /\ request.op \in {"exists", "is_folder", "make_folder", "read", "remove_file", "write"}
  BY <1>4, <1>5, <1>7
<1>6. request # Drive!NoRequest
  BY <1>8, RequestParts
<1> QED
  BY <1>6, <1>8

\* It settles first what is in limbo.
LEMMA MappedStill ==
    ASSUME NEW f, Mapped(f), NEW p, NEW v
    PROVE  Mapped([f EXCEPT ![p] = v]) /\ DOMAIN f = Spots
BY DEF Mapped

LEMMA SettleDoes ==
    ASSUME Covered, Mind, Open, Drive!Settle
    PROVE  /\ OnlyAt(request.path) /\ UNCHANGED <<request, answer>>
           /\ limbo'[request.path] = Drive!Nothing
           /\ store'[request.path] = IF store[request.path] = Drive!Nothing
                                     THEN limbo[request.path] ELSE store[request.path]
BY OpenParts, MappedStill DEF Drive!Settle, Drive!Here, OnlyAt, Covered

\* Then it answers, having done what was asked or not.
Answered(code, seen) ==
    /\ OnlyAt(request.path) /\ request' = Drive!NoRequest
    /\ answer'.code = code /\ answer'.seen = seen

LEMMA ServeDoes ==
    ASSUME Covered, Mind, Open, Drive!Serve, ~Drive!Settle
    PROVE  \/ /\ Answered(0, <<>>)
              /\ UNCHANGED <<store, limbo>>
           \/ /\ Answered(1, <<>>) /\ request.op \in {"exists", "is_folder"}
              /\ UNCHANGED <<store, limbo>>
           \/ /\ Answered(1, store[request.path].data) /\ request.op = "read"
              /\ UNCHANGED <<store, limbo>>
           \/ /\ Answered(0, <<>>) /\ request.op = "write"
              /\ ~Drive!IsFile(store[request.path]) /\ UNCHANGED store
              /\ limbo'[request.path] = Drive!File(request.text)
           \/ /\ Answered(1, <<>>) /\ request.op = "write"
              /\ store'[request.path] = Drive!File(request.text)
              /\ limbo' = limbo /\ limbo[request.path] = Drive!Nothing
           \/ /\ Answered(1, <<>>) /\ request.op = "make_folder"
              /\ store'[request.path] = Drive!Folder /\ limbo' = limbo
           \/ /\ Answered(1, <<>>) /\ request.op = "remove_file"
              /\ store'[request.path] = Drive!Nothing
              /\ limbo' = limbo /\ limbo[request.path] = Drive!Nothing
<1> USE OpenParts DEF Answered, OnlyAt, Drive!Reply, Drive!Here, Drive!Settled
<1>m. /\ Mapped(store) /\ Mapped(limbo) /\ DOMAIN store = Spots /\ DOMAIN limbo = Spots
      /\ \A p, v : Mapped([store EXCEPT ![p] = v]) /\ Mapped([limbo EXCEPT ![p] = v])
  BY MappedStill DEF Covered
<1>0. \A code, seen : Drive!Returned(code, seen).code = code /\ Drive!Returned(code, seen).seen = seen
  BY DEF Drive!Returned
<1>1. CASE Drive!Refuse
  BY <1>0, <1>m, <1>1 DEF Drive!Refuse
<1>2. CASE Drive!RefuseIntoLimbo
  BY <1>0, <1>m, <1>2 DEF Drive!RefuseIntoLimbo, Covered
<1>3. CASE Drive!Look
  BY <1>0, <1>m, <1>3 DEF Drive!Look
<1>4. CASE Drive!Read
  BY <1>0, <1>m, <1>4 DEF Drive!Read
<1>5. CASE Drive!Write
  BY <1>0, <1>m, <1>5 DEF Drive!Write, Drive!Put, Covered, Drive!Recovering, Drive!Writing
<1>6. CASE Drive!MakeFolder
  BY <1>0, <1>m, <1>6 DEF Drive!MakeFolder, Drive!Put, Covered
<1>7. CASE Drive!Remove
  BY <1>0, <1>m, <1>7 DEF Drive!Remove, Drive!Put, Covered, Drive!Recovering
<1> QED
  BY <1>1, <1>2, <1>3, <1>4, <1>5, <1>6, <1>7 DEF Drive!Serve, Drive!AppendText, Drive!Rename

Folders == {Users} \cup {HomeOf(n) : n \in Names}

LEMMA CoveredAt ==
    ASSUME Covered, given' = given, NEW p \in Spots, OnlyAt(p),
           \A n \in Names : p = RecordOf(n) =>
               CoveredNode(given[n], store'[p]) /\ CoveredNode(given[n], limbo'[p]),
           p \in Folders =>
               store'[p] \in {Drive!Nothing, Drive!Folder} /\ limbo'[p] = Drive!Nothing
    PROVE  Covered'
<1>1. Mapped(store') /\ Mapped(limbo')
  BY DEF OnlyAt
<1>2. ASSUME NEW n \in Names
      PROVE  CoveredNode(given'[n], store'[RecordOf(n)]) /\ CoveredNode(given'[n], limbo'[RecordOf(n)])
  <2>1. CASE p = RecordOf(n)
    BY <2>1
  <2>2. CASE p # RecordOf(n)
    <3>1. store'[RecordOf(n)] = store[RecordOf(n)] /\ limbo'[RecordOf(n)] = limbo[RecordOf(n)]
      BY <2>2, Places DEF OnlyAt
    <3> QED
      BY <3>1 DEF Covered
  <2> QED
    BY <2>1, <2>2
<1>3. ASSUME NEW q \in Folders
      PROVE  store'[q] \in {Drive!Nothing, Drive!Folder} /\ limbo'[q] = Drive!Nothing
  <2>1. CASE p = q
    BY <2>1
  <2>2. CASE p # q
    <3>1. q \in Spots
      BY Places DEF Folders
    <3>2. store'[q] = store[q] /\ limbo'[q] = limbo[q]
      BY <2>2, <3>1 DEF OnlyAt
    <3> QED
      BY <3>2 DEF Covered, Folders
  <2> QED
    BY <2>1, <2>2
<1> QED
  BY <1>1, <1>2, <1>3 DEF Covered, Folders

\* The request that is open, by its kind.
LEMMA OpenOps ==
    ASSUME Open
    PROVE  \/ request.op \in {"exists", "is_folder"}
           \/ at = "made" /\ request.op = "make_folder" /\ request.path = Users
           \/ at = "homemade" /\ request.op = "make_folder" /\ request.path = HomeOf(who)
           \/ at \in {"compare", "enter"} /\ request.op = "read" /\ request.path = RecordOf(who)
           \/ /\ at \in {"rolledback", "removed"} /\ request.op = "remove_file"
              /\ request.path = RecordOf(who)
           \/ at = "written" /\ request.op = "write" /\ request = Writes(Rec(secret, "v2", role))
           \/ at = "migrated" /\ request.op = "write" /\ \E e \in Ends : Migrates(e)
<1>1. \A op, p : request = Simple(op, p) => request.op = op /\ request.path = p
  <2>1. \A op, p : Simple(op, p).op = op /\ Simple(op, p).path = p
    BY RequestParts DEF Simple
  <2> QED
    BY <2>1
<1>2. \A t : request = Writes(t) => request.op = "write"
  <2>1. \A t : Writes(t).op = "write"
    BY RequestParts DEF Writes
  <2> QED
    BY <2>1
<1>3. \A e : Migrates(e) => request.op = "write"
  BY <1>2, Zenon DEF Migrates
<1>4. \A p : request = Simple("exists", p) => request.op \in {"exists", "is_folder"}
  BY <1>1
<1>5. \A p : request = Simple("is_folder", p) => request.op \in {"exists", "is_folder"}
  BY <1>1
<1>6. request \in {Simple("is_folder", Users), Simple("make_folder", Users)}
        => \/ request = Simple("is_folder", Users)
           \/ request.op = "make_folder" /\ request.path = Users
  BY <1>1, Zenon
<1> QED
  BY <1>1, <1>2, <1>3, <1>4, <1>5, <1>6, Zenon DEF Open, Ends

\* What is open at which step.
LEMMA OpenByOp ==
    ASSUME Mind, Covered, Open
    PROVE  /\ request.op = "write" =>
                 /\ at \in {"written", "migrated"} /\ who \in Names
                 /\ request.path = RecordOf(who)
                 /\ \E e \in Ends : /\ request.text = Rec(secret, "v2", e)
                                    /\ CoveredText(given[who], Rec(secret, "v2", e))
                                    /\ at = "written" => e = role
                                    /\ at = "migrated" => Mine = Drive!File(Rec(secret, "legacy", e))
           /\ request.op = "remove_file" =>
                 at \in {"rolledback", "removed"} /\ who \in Names /\ request.path = RecordOf(who)
           /\ request.op = "read" =>
                 at \in {"compare", "enter"} /\ who \in Names /\ request.path = RecordOf(who)
           /\ request.op = "make_folder" => at \in {"made", "homemade"} /\ request.path \in Folders
<1>1. \A op, p : Simple(op, p).op = op /\ Simple(op, p).path = p
  BY RequestParts DEF Simple
<1>2. \A t : Writes(t).op = "write" /\ Writes(t).path = RecordOf(who) /\ Writes(t).text = t
  BY RequestParts DEF Writes
<1>3. at \in Dealing => who \in Names
  BY DEF Mind
<1>4. ASSUME request.op = "write"
      PROVE  \/ at = "written" /\ request = Writes(Rec(secret, "v2", role))
             \/ at = "migrated" /\ \E e \in Ends : Migrates(e)
  BY <1>4, OpenOps
<1>5. ASSUME at = "written", request = Writes(Rec(secret, "v2", role))
      PROVE  /\ who \in Names /\ request.path = RecordOf(who)
             /\ role \in Ends /\ request.text = Rec(secret, "v2", role)
             /\ CoveredText(given[who], Rec(secret, "v2", role))
  <2>1. /\ who \in Names /\ secret \in Secrets /\ role \in Roles /\ <<secret, role>> \in given[who]
    BY <1>5 DEF Mind, Dealing, Typing, Making
  <2>2. CoveredText(given[who], Rec(secret, "v2", role))
    BY <2>1, CoveredRecord DEF Schemes
  <2>3. request.path = RecordOf(who) /\ request.text = Rec(secret, "v2", role)
    BY <1>2, <1>5
  <2> QED
    BY <2>1, <2>2, <2>3 DEF Ends
<1>6. ASSUME at = "migrated", NEW e \in Ends, Migrates(e)
      PROVE  /\ who \in Names /\ request.path = RecordOf(who)
             /\ request.text = Rec(secret, "v2", e)
             /\ CoveredText(given[who], Rec(secret, "v2", e))
             /\ Mine = Drive!File(Rec(secret, "legacy", e))
  <2>1. who \in Names
    BY <1>6 DEF Mind, Dealing, Typing
  <2>2. Mine = Drive!File(Rec(secret, "legacy", e)) /\ request = Writes(Rec(secret, "v2", e))
    BY <1>6 DEF Migrates
  <2>3. CoveredNode(given[who], Mine)
    BY <2>1 DEF Covered, Mine
  <2>4. CoveredText(given[who], Rec(secret, "legacy", e))
    BY <2>2, <2>3, CoveredFile
  <2>5. CoveredText(given[who], Rec(secret, "v2", e))
    BY <2>4, CoveredAnew DEF Schemes
  <2> QED
    BY <1>2, <2>1, <2>2, <2>5
<1>7. ASSUME request.op = "write"
      PROVE  /\ at \in {"written", "migrated"} /\ who \in Names
             /\ request.path = RecordOf(who)
             /\ \E e \in Ends : /\ request.text = Rec(secret, "v2", e)
                                /\ CoveredText(given[who], Rec(secret, "v2", e))
                                /\ at = "written" => e = role
                                /\ at = "migrated" => Mine = Drive!File(Rec(secret, "legacy", e))
  <2>1. CASE at = "written"
    <3>1. request = Writes(Rec(secret, "v2", role))
      BY <1>4, <1>7, <2>1
    <3> QED
      BY <1>5, <2>1, <3>1
  <2>2. CASE at = "migrated"
    <3>1. PICK e \in Ends : Migrates(e)
      BY <1>4, <1>7, <2>2
    <3> QED
      BY <1>6, <2>2, <3>1
  <2> QED
    BY <1>4, <1>7, <2>1, <2>2
<1>8. request.op = "remove_file" =>
                 at \in {"rolledback", "removed"} /\ who \in Names /\ request.path = RecordOf(who)
  BY <1>3, OpenOps DEF Dealing, Typing, Making
<1>9. request.op = "read" =>
                 at \in {"compare", "enter"} /\ who \in Names /\ request.path = RecordOf(who)
  BY <1>3, OpenOps DEF Dealing, Typing, Making
<1>10. request.op = "make_folder" => at \in {"made", "homemade"} /\ request.path \in Folders
  BY <1>3, OpenOps DEF Dealing, Typing, Making, Folders
<1> QED
  BY <1>7, <1>8, <1>9, <1>10

\* How what a request does keeps every record covered.
LEMMA ServeCovers ==
    ASSUME Mind, Covered, Open, Drive!Serve, given' = given
    PROVE  Covered'
<1> DEFINE p == request.path
<1>1. p \in Spots
  BY OpenParts
<1>2. /\ \A n \in Names : p = RecordOf(n) => /\ CoveredNode(given[n], store[p])
                                             /\ CoveredNode(given[n], limbo[p])
      /\ p \in Folders => store[p] \in {Drive!Nothing, Drive!Folder} /\ limbo[p] = Drive!Nothing
  BY Zenon DEF Covered, Folders
<1>3. \A may : CoveredNode(may, Drive!Nothing)
  BY DEF CoveredNode
<1>4. CASE Drive!Settle
  <2>1. /\ OnlyAt(p) /\ limbo'[p] = Drive!Nothing
        /\ store'[p] = IF store[p] = Drive!Nothing THEN limbo[p] ELSE store[p]
    BY <1>4, SettleDoes
  <2>2. store'[p] \in {store[p], limbo[p]}
    BY <2>1
  <2>3. ASSUME NEW n \in Names, p = RecordOf(n)
        PROVE  CoveredNode(given[n], store'[p]) /\ CoveredNode(given[n], limbo'[p])
    BY <1>2, <1>3, <2>1, <2>2, <2>3
  <2>4. p \in Folders => store'[p] \in {Drive!Nothing, Drive!Folder} /\ limbo'[p] = Drive!Nothing
    BY <1>2, <2>1, <2>2
  <2> QED
    BY <1>1, <2>1, <2>3, <2>4, CoveredAt
<1>5. CASE ~Drive!Settle
  <2>1. OnlyAt(p)
    BY <1>5, ServeDoes DEF Answered
  <2>2. CASE UNCHANGED <<store, limbo>>
    BY <1>1, <1>2, <2>1, <2>2, CoveredAt
  <2>3. CASE request.op = "write"
    <3>1. PICK e \in Ends : /\ who \in Names /\ p = RecordOf(who) /\ request.text = Rec(secret, "v2", e)
                            /\ CoveredText(given[who], Rec(secret, "v2", e))
      BY <2>3, OpenByOp
    <3>2. CoveredNode(given[who], Drive!File(request.text))
      BY <3>1, CoveredFile
    <3>3. /\ store'[p] \in {store[p], Drive!File(request.text)}
          /\ limbo'[p] \in {limbo[p], Drive!File(request.text)}
      BY <1>5, <2>3, ServeDoes
    <3>4. ASSUME NEW n \in Names, p = RecordOf(n)
          PROVE  CoveredNode(given[n], store'[p]) /\ CoveredNode(given[n], limbo'[p])
      <4>1. n = who
        BY <3>1, <3>4, Places
      <4> QED
        BY <1>2, <3>2, <3>3, <3>4, <4>1
    <3>5. p \notin Folders
      BY <3>1, Places DEF Folders
    <3> QED
      BY <1>1, <2>1, <3>4, <3>5, CoveredAt
  <2>4. CASE request.op = "make_folder" /\ store'[p] = Drive!Folder /\ limbo' = limbo
    <3>1. p \in Folders
      BY <2>4, OpenByOp
    <3>2. \A n \in Names : p # RecordOf(n)
      BY <3>1, Places DEF Folders
    <3> QED
      BY <1>1, <1>2, <2>1, <2>4, <3>1, <3>2, CoveredAt
  <2>5. CASE request.op = "remove_file" /\ store'[p] = Drive!Nothing /\ limbo' = limbo
    BY <1>1, <1>2, <1>3, <2>1, <2>5, CoveredAt
  <2> QED
    BY <1>5, <2>2, <2>3, <2>4, <2>5, ServeDoes
<1> QED
  BY <1>4, <1>5

\* How a record can change when a request is served: what was in limbo comes
\* up where there was none, or the record that is dealt with is written anew
\* or removed.
LEMMA ServeAtRecord ==
    ASSUME Mind, Covered, Open, Drive!Serve, NEW n \in Names
    PROVE  \/ store'[RecordOf(n)] = store[RecordOf(n)]
           \/ /\ store[RecordOf(n)] = Drive!Nothing /\ store'[RecordOf(n)] = limbo[RecordOf(n)]
              /\ Drive!Settle
           \/ /\ n = who /\ at \in {"written", "migrated"} /\ request.op = "write"
              /\ store'[RecordOf(n)] = Drive!File(request.text)
           \/ /\ n = who /\ at \in {"rolledback", "removed"}
              /\ store'[RecordOf(n)] = Drive!Nothing
<1>1. RecordOf(n) \in Spots
  BY Places
<1>2. CASE request.path # RecordOf(n)
  <2>1. OnlyAt(request.path)
    BY SettleDoes, ServeDoes DEF Answered
  <2> QED
    BY <1>1, <1>2, <2>1 DEF OnlyAt
<1>3. CASE request.path = RecordOf(n) /\ Drive!Settle
  BY <1>3, SettleDoes
<1>4. CASE request.path = RecordOf(n) /\ ~Drive!Settle
  <2>1. CASE UNCHANGED store
    BY <2>1
  <2>2. CASE request.op = "write" /\ store'[request.path] = Drive!File(request.text)
    <3>1. at \in {"written", "migrated"} /\ request.path = RecordOf(who)
      BY <2>2, OpenByOp
    <3>2. n = who
      BY <1>4, <3>1, Places
    <3> QED
      BY <1>4, <2>2, <3>1, <3>2
  <2>3. CASE request.op = "make_folder"
    BY <1>4, <2>3, OpenByOp, Places DEF Folders
  <2>4. CASE request.op = "remove_file" /\ store'[request.path] = Drive!Nothing
    <3>1. at \in {"rolledback", "removed"} /\ request.path = RecordOf(who)
      BY <2>4, OpenByOp
    <3>2. n = who
      BY <1>4, <3>1, Places
    <3> QED
      BY <1>4, <2>4, <3>1, <3>2
  <2> QED
    BY <1>4, <2>1, <2>2, <2>3, <2>4, ServeDoes
<1> QED
  BY <1>2, <1>3, <1>4

\* What the thread is certain of stays so when the disk serves its request.
LEMMA ServeRemembers ==
    ASSUME AccountInv, Open, Drive!Serve, UNCHANGED <<mind, given>>
    PROVE  Asked' /\ Remembered'
<1> DEFINE R == RecordOf(who)
<1>0. Mind /\ Covered /\ Remembered
  BY DEF AccountInv
<1>1. /\ at' = at /\ who' = who /\ secret' = secret /\ role' = role /\ Mine' = store'[R]
  BY DEF mind, Mine
<1>2. at \in Dealing => who \in Names
  BY <1>0 DEF Mind
<1>3. at \in Dealing => R \in Spots
  BY <1>2, Places
<1>4. CASE Drive!Settle
  <2>1. /\ OnlyAt(request.path) /\ request' = request /\ answer' = answer
        /\ limbo'[request.path] = Drive!Nothing
        /\ store'[request.path] = IF store[request.path] = Drive!Nothing
                                  THEN limbo[request.path] ELSE store[request.path]
    BY <1>0, <1>4, SettleDoes
  <2>2. ASSUME at \in Dealing, Mine # Drive!Nothing
        PROVE  store'[R] = Mine
    BY <1>3, <2>1, <2>2 DEF Mine, OnlyAt
  <2>3. ASSUME at \in Dealing, limbo[R] = Drive!Nothing
        PROVE  limbo'[R] = Drive!Nothing
    BY <1>3, <2>1, <2>3 DEF OnlyAt
  <2>4. ASSUME NEW e, at = "migrated", Migrates(e)
        PROVE  Migrates(e)'
    <3>1. Mine = Drive!File(Rec(secret, "legacy", e)) /\ request = Writes(Rec(secret, "v2", e))
      BY <2>4 DEF Migrates
    <3>2. store'[R] = Mine
      BY <2>2, <2>4, <3>1, Nodes DEF Dealing, Typing
    <3> QED
      BY <1>1, <2>1, <3>1, <3>2 DEF Migrates, Writes
  <2>5. Open'
    <3>1. CASE at = "migrated"
      <4>1. PICK e \in Ends : Migrates(e)
        BY <3>1 DEF Open, Ends
      <4>2. Migrates(e)'
        BY <2>4, <3>1, <4>1
      <4> QED
        BY <1>1, <3>1, <4>1, <4>2 DEF Open, Ends
    <3>2. CASE at # "migrated"
      BY <1>1, <2>1, <3>2 DEF Open, Writes
    <3> QED
      BY <3>1, <3>2
  <2>6. request # Drive!NoRequest
    BY <1>0, OpenParts
  <2>7. Whole' => /\ Mine' = Drive!File(Rec(secret', "v2", role'))
                  /\ limbo'[RecordOf(who')] = Drive!Nothing
    <3>1. Whole' => Whole /\ at \in Dealing
      BY <1>1, <2>1, <2>6 DEF Whole, Dealing, Typing, Making
    <3>2. Whole => Mine = Drive!File(Rec(secret, "v2", role)) /\ limbo[R] = Drive!Nothing
      BY <1>0 DEF Remembered
    <3>3. Whole' => store'[R] = Drive!File(Rec(secret, "v2", role)) /\ limbo'[R] = Drive!Nothing
      BY <2>2, <2>3, <3>1, <3>2, Nodes
    <3> QED
      BY <1>1, <3>3
  <2>8. ASSUME at' \in {"migrated", "role", "enter"}
        PROVE  \E a \in Schemes, e \in Roles \cup {""} : Mine' = Drive!File(Rec(secret', a, e))
    <3>1. PICK a \in Schemes, e \in Roles \cup {""} : Mine = Drive!File(Rec(secret, a, e))
      BY <1>0, <1>1, <2>8 DEF Remembered
    <3>2. store'[R] = Mine
      BY <1>1, <2>2, <2>8, <3>1, Nodes DEF Dealing, Typing
    <3> QED
      BY <1>1, <3>1, <3>2
  <2>9. Remembered'
    BY <1>1, <2>1, <2>6, <2>7, <2>8 DEF Remembered
  <2> QED
    BY <2>5, <2>9 DEF Asked
<1>5. CASE ~Drive!Settle
  <2>1. OnlyAt(request.path) /\ request' = Drive!NoRequest
    BY <1>0, <1>5, ServeDoes DEF Answered
  <2>2. Asked'
    BY <2>1 DEF Asked
  <2>3. Whole' => /\ Mine' = Drive!File(Rec(secret', "v2", role'))
                  /\ limbo'[RecordOf(who')] = Drive!Nothing
    <3>1. ASSUME at \in {"home", "homemade"}
          PROVE  store'[R] = Drive!File(Rec(secret, "v2", role)) /\ limbo'[R] = Drive!Nothing
      <4>1. Mine = Drive!File(Rec(secret, "v2", role)) /\ limbo[R] = Drive!Nothing
        BY <1>0, <3>1 DEF Remembered, Whole
      <4>2. request \in {Simple("exists", HomeOf(who)), Simple("make_folder", HomeOf(who))}
        BY <3>1 DEF Open
      <4>3. request.path = HomeOf(who)
        BY <4>2, RequestParts DEF Simple
      <4>4. R # request.path /\ R \in Spots
        BY <1>3, <3>1, <4>3, Places DEF Dealing, Typing, Making
      <4> QED
        BY <2>1, <4>1, <4>4 DEF OnlyAt, Mine
    <3>2. ASSUME at = "written", answer'.code = 1
          PROVE  store'[R] = Drive!File(Rec(secret, "v2", role)) /\ limbo'[R] = Drive!Nothing
      <4>1. request = Writes(Rec(secret, "v2", role))
        BY <3>2 DEF Open
      <4>2. request.op = "write" /\ request.path = R /\ request.text = Rec(secret, "v2", role)
        BY <4>1, RequestParts DEF Writes
      <4> QED
        BY <1>0, <1>5, <3>2, <4>2, ServeDoes DEF Answered
    <3>3. Whole' => at \in {"home", "homemade"} \/ (at = "written" /\ answer'.code = 1)
      BY <1>1, <2>1 DEF Whole
    <3> QED
      BY <1>1, <3>1, <3>2, <3>3
  <2>4. ASSUME at = "removed", answer'.code = 1
        PROVE  store'[R] = Drive!Nothing /\ limbo'[R] = Drive!Nothing
    <3>1. request = Simple("remove_file", R)
      BY <2>4 DEF Open
    <3>2. request.op = "remove_file" /\ request.path = R
      BY <3>1, RequestParts DEF Simple
    <3> QED
      BY <1>0, <1>5, <2>4, <3>2, ServeDoes DEF Answered
  <2>5. ASSUME at \in {"compare", "enter"}, answer'.seen # <<>>
        PROVE  store'[R] = Drive!File(answer'.seen)
    <3>1. request = Simple("read", R)
      BY <2>5 DEF Open
    <3>2. request.op = "read" /\ request.path = R
      BY <3>1, RequestParts DEF Simple
    <3>3. answer'.seen = Mine.data /\ store'[R] = Mine
      BY <1>0, <1>5, <2>5, <3>2, ServeDoes DEF Answered, Mine
    <3>4. CoveredNode(given[who], Mine)
      BY <1>0, <1>2, <2>5 DEF Covered, Mine, Dealing, Typing
    <3> QED
      BY <2>5, <3>3, <3>4, Nodes DEF CoveredNode
  <2>6. ASSUME at \in {"migrated", "role", "enter"}
        PROVE  \E a \in Schemes, e \in Roles \cup {""} : store'[R] = Drive!File(Rec(secret, a, e))
    <3>1. \A S, T : Writes(T) = S => S.op = "write" /\ S.path = R /\ S.text = T
      BY RequestParts DEF Writes
    <3>2. Simple("exists", R).op = "exists" /\ Simple("read", R).op = "read"
      BY RequestParts DEF Simple
    <3>3. ASSUME NEW f \in Ends, Migrates(f)
          PROVE  store'[R] \in {store[R], Drive!File(Rec(secret, "v2", f))}
      <4>1. request = Writes(Rec(secret, "v2", f))
        BY <3>3 DEF Migrates
      <4>2. request.op = "write" /\ request.path = R /\ request.text = Rec(secret, "v2", f)
        BY <3>1, <4>1
      <4> QED
        BY <1>0, <1>5, <4>2, ServeDoes
    <3>4. ASSUME at \in {"role", "enter"}
          PROVE  store' = store
      <4>1. request \in {Simple("exists", R), Simple("read", R)}
        BY <3>4 DEF Open
      <4>2. request.op \in {"exists", "read"}
        BY <3>2, <4>1
      <4> QED
        BY <1>0, <1>5, <4>2, ServeDoes
    <3>5. at = "migrated" => \E f \in Ends : Migrates(f)
      BY DEF Open, Ends
    <3>6. PICK a \in Schemes, e \in Roles \cup {""} : Mine = Drive!File(Rec(secret, a, e))
      BY <1>0, <2>6 DEF Remembered
    <3> QED
      BY <2>6, <3>3, <3>4, <3>5, <3>6 DEF Mine, Schemes, Ends
  <2>7. Remembered'
    BY <1>1, <2>3, <2>4, <2>5, <2>6 DEF Remembered
  <2> QED
    BY <2>2, <2>7
<1> QED
  BY <1>4, <1>5

LEMMA ServeOpens ==
    ASSUME Drive!Serve
    PROVE  request # Drive!NoRequest
BY RequestParts DEF Drive!Serve, Drive!Settle, Drive!Refuse, Drive!RefuseIntoLimbo,
   Drive!Look, Drive!Read, Drive!Write, Drive!AppendText, Drive!MakeFolder, Drive!Remove,
   Drive!Rename, Drive!Recovering, Drive!Writing

LEMMA ServeStays ==
    ASSUME AccountInv, Serve
    PROVE  AccountInv'
<1>0. Mind /\ Covered /\ Asked /\ Drive!Serve /\ UNCHANGED <<mind, given>>
  BY DEF AccountInv, Serve
<1>1. Open
  BY <1>0, ServeOpens DEF Asked
<1>2. Mind'
  BY <1>0 DEF Mind, mind
<1>3. Covered'
  BY <1>0, <1>1, ServeCovers
<1>4. Asked' /\ Remembered'
  BY <1>0, <1>1, ServeRemembers
<1> QED
  BY <1>2, <1>3, <1>4 DEF AccountInv

-----------------------------------------------------------------------------
(* What the main thread does. *)

\* At these steps the thread is certain of nothing about the disk.
Unsure == Steps \ {"written", "home", "homemade", "rolledback", "removed",
                   "compare", "migrated", "role", "enter"}

LEMMA NothingRemembered ==
    ASSUME \/ at' \in Unsure
           \/ at' \in {"written", "removed", "compare"} /\ request' # Drive!NoRequest
    PROVE  Remembered'
BY DEF Remembered, Whole, Unsure

LEMMA AskDoes ==
    ASSUME NEW op, NEW p, NEW text, NEW next, Ask(op, p, text, next)
    PROVE  /\ request = Drive!NoRequest /\ request' = Drive!Request(op, p, text, p)
           /\ UNCHANGED <<store, limbo>> /\ at' = next
BY DEF Ask, Drive!Submit

\* Records stay covered where more may be in force, and where they are covered
\* by what may be.
LEMMA CoveredStill ==
    ASSUME Covered, UNCHANGED <<store, limbo>>,
           \A n \in Names : \/ given[n] \subseteq given'[n]
                            \/ /\ CoveredNode(given'[n], store[RecordOf(n)])
                               /\ CoveredNode(given'[n], limbo[RecordOf(n)])
    PROVE  Covered'
BY CoveredMore DEF Covered

LEMMA AskOpens ==
    ASSUME NEW op, NEW p, NEW text, NEW next, Ask(op, p, text, next), op # "none"
    PROVE  request' # Drive!NoRequest
BY AskDoes, RequestParts

\* A step that asks the disk, from where the thread is certain of nothing yet.
LEMMA AskStays ==
    ASSUME AccountInv, NEW op, NEW p, NEW text, NEW next, Ask(op, p, text, next),
           \A n \in Names : given[n] \subseteq given'[n],
           next \in Unsure \cup {"written", "removed", "compare"},
           op # "none", Mind', Open'
    PROVE  AccountInv'
<1>1. Covered'
  BY AskDoes, CoveredStill DEF AccountInv
<1>2. request' # Drive!NoRequest
  BY AskDoes, RequestParts
<1>3. Remembered'
  BY <1>2, AskDoes, NothingRemembered
<1> QED
  BY <1>1, <1>3 DEF AccountInv, Asked

\* A step that goes on without the disk.
LEMMA GotoStays ==
    ASSUME AccountInv, NEW next \in Unsure, Goto(next), request = Drive!NoRequest,
           given' = given, Mind'
    PROVE  AccountInv'
<1>1. UNCHANGED <<store, limbo, request, answer>> /\ at' = next
  BY DEF Goto, disk
<1>2. Covered'
  BY <1>1, CoveredStill DEF AccountInv
<1>3. Remembered'
  BY <1>1, NothingRemembered
<1> QED
  BY <1>1, <1>2, <1>3 DEF AccountInv, Asked

\* Asking about the record that is dealt with.
LEMMA OpenNow ==
    /\ at' \in {"formatted", "ensure"} /\ request' = Drive!Request("exists", Users, <<>>, Users) => Open'
    /\ at' = "made" /\ request' = Drive!Request("is_folder", Users, <<>>, Users) => Open'
    /\ at' = "made" /\ request' = Drive!Request("make_folder", Users, <<>>, Users) => Open'
    /\ /\ at' \in {"taken", "known", "verify", "role", "free", "told", "removable"}
       /\ request' = Drive!Request("exists", RecordOf(who'), <<>>, RecordOf(who'))
       => Open'
    /\ /\ at' \in {"compare", "enter"}
       /\ request' = Drive!Request("read", RecordOf(who'), <<>>, RecordOf(who'))
       => Open'
    /\ /\ at' \in {"rolledback", "removed"}
       /\ request' = Drive!Request("remove_file", RecordOf(who'), <<>>, RecordOf(who'))
       => Open'
    /\ at' = "home" /\ request' = Drive!Request("exists", HomeOf(who'), <<>>, HomeOf(who')) => Open'
    /\ at' = "homemade" /\ request' = Drive!Request("make_folder", HomeOf(who'), <<>>, HomeOf(who'))
       => Open'
    /\ /\ at' = "written"
       /\ request' = Drive!Request("write", RecordOf(who'), Rec(secret', "v2", role'), RecordOf(who'))
       => Open'
<1>1. at' \in {"formatted", "ensure"} /\ request' = Drive!Request("exists", Users, <<>>, Users) => Open'
  BY DEF Open, Simple
<1>2. at' = "made" /\ request' = Drive!Request("is_folder", Users, <<>>, Users) => Open'
  BY DEF Open, Simple
<1>3. at' = "made" /\ request' = Drive!Request("make_folder", Users, <<>>, Users) => Open'
  BY DEF Open, Simple
<1>4. /\ at' \in {"taken", "known", "verify", "role", "free", "told", "removable"}
      /\ request' = Drive!Request("exists", RecordOf(who'), <<>>, RecordOf(who'))
      => Open'
  BY DEF Open, Simple
<1>5. /\ at' \in {"compare", "enter"}
      /\ request' = Drive!Request("read", RecordOf(who'), <<>>, RecordOf(who'))
      => Open'
  BY DEF Open, Simple
<1>6. /\ at' \in {"rolledback", "removed"}
      /\ request' = Drive!Request("remove_file", RecordOf(who'), <<>>, RecordOf(who'))
      => Open'
  BY DEF Open, Simple
<1>7. at' = "home" /\ request' = Drive!Request("exists", HomeOf(who'), <<>>, HomeOf(who')) => Open'
  BY DEF Open, Simple
<1>8. at' = "homemade" /\ request' = Drive!Request("make_folder", HomeOf(who'), <<>>, HomeOf(who'))
      => Open'
  BY DEF Open, Simple
<1>9. /\ at' = "written"
      /\ request' = Drive!Request("write", RecordOf(who'), Rec(secret', "v2", role'), RecordOf(who'))
      => Open'
  BY DEF Open, Writes
<1> QED
  BY <1>1, <1>2, <1>3, <1>4, <1>5, <1>6, <1>7, <1>8, <1>9

LEMMA Sessions ==
    /\ NoSession \in [person : Names \cup {Nobody}, role : Roles \cup {""}]
    /\ "admin" \in Roles /\ "member" \in Roles
BY DEF NoSession, Roles

LEMMA AsleepMind ==
    ASSUME Mind, FallAsleep, given' = given
    PROVE  Mind'
<1>1. at' = "off" /\ at' \in Steps
  BY DEF FallAsleep, Steps
<1>2. at' \notin Dealing /\ at' \notin Typing /\ at' \notin Making /\ at' \notin {"removable", "removed"}
  BY <1>1 DEF Dealing, Typing, Making
<1>3. tries' \in 0 .. 2
  <2>1. tries' = 0
    BY Zenon DEF FallAsleep
  <2> QED
    BY <2>1
<1>4. /\ who' \in Names \cup {Nobody} /\ secret' \in Secrets \cup {Nobody}
      /\ role' \in Roles \cup {""}
  <2>1. who' = Nobody /\ secret' = Nobody
    BY DEF FallAsleep
  <2>2. who' \in Names \cup {Nobody} /\ secret' \in Secrets \cup {Nobody}
    BY <2>1
  <2>3. role' \in Roles \cup {""}
    BY DEF FallAsleep
  <2> QED
    BY <2>2, <2>3
<1>5. session' \in [person : Names \cup {Nobody}, role : Roles \cup {""}]
  BY Sessions, Zenon DEF FallAsleep
<1>6. given' \in [Names -> SUBSET (Secrets \X Roles)]
  BY DEF Mind
<1> QED
  BY <1>1, <1>2, <1>3, <1>4, <1>5, <1>6 DEF Mind

\* How what may be in force for a name is changed.
LEMMA GivenAnew ==
    ASSUME NEW S, NEW g \in [Names -> SUBSET S], NEW n \in Names, NEW x \in S
    PROVE  /\ [g EXCEPT ![n] = {x}] \in [Names -> SUBSET S]
           /\ [g EXCEPT ![n] = @ \cup {x}] \in [Names -> SUBSET S]
           /\ [g EXCEPT ![n] = {}] \in [Names -> SUBSET S]
           /\ \A m \in Names : /\ m # n => [g EXCEPT ![n] = {x}][m] = g[m]
                               /\ g[m] \subseteq [g EXCEPT ![n] = @ \cup {x}][m]
           /\ [g EXCEPT ![n] = {x}][n] = {x} /\ x \in [g EXCEPT ![n] = @ \cup {x}][n]
OBVIOUS

LEMMA FirstBootStays ==
    ASSUME AccountInv,
           Boot \/ Formatted \/ Ensure \/ FormatDisk \/ \E n \in Names, s \in Secrets : Meet(n, s)
    PROVE  AccountInv'
<1> USE DEF Mind, Dealing, Typing, Making, Unsure, Steps, Remembers
<1>0. Mind
  BY DEF AccountInv
<1>1. CASE Boot
  <2>1. Ask("exists", Users, <<>>, "formatted") /\ given' = given
    BY <1>1 DEF Boot
  <2>2. Mind'
    <3>1. at' = "formatted"
      BY <2>1, AskDoes
    <3> QED
      BY <1>0, <1>1, <3>1 DEF Boot
  <2>3. Open'
    BY <2>1, AskDoes, OpenNow
  <2> QED
    BY <2>1, <2>2, <2>3, AskStays
<1>2. CASE Formatted /\ Goto("login")
  <2>1. request = Drive!NoRequest /\ given' = given
    BY <1>2 DEF Formatted, Told
  <2>2. Mind'
    BY <1>0, <1>2 DEF Formatted, Goto
  <2> QED
    BY <1>2, <2>1, <2>2, GotoStays
<1>3. CASE Formatted /\ Ask("exists", Users, <<>>, "ensure")
  <2>1. Mind' /\ given' = given
    <3>1. at' = "ensure"
      BY <1>3, AskDoes
    <3> QED
      BY <1>0, <1>3, <3>1 DEF Formatted
  <2>2. Open'
    BY <1>3, AskDoes, OpenNow
  <2> QED
    BY <1>3, <2>1, <2>2, AskStays
<1>4. ASSUME Ensure, NEW op \in {"is_folder", "make_folder"}, Ask(op, Users, <<>>, "made")
      PROVE  AccountInv'
  <2>1. Mind' /\ given' = given
    <3>1. at' = "made"
      BY <1>4, AskDoes
    <3> QED
      BY <1>0, <1>4, <3>1 DEF Ensure
  <2>2. Open'
    BY <1>4, AskDoes, OpenNow
  <2>3. op # "none"
    BY <1>4
  <2> QED
    BY <1>4, <2>1, <2>2, <2>3, AskStays
<1>5. CASE FormatDisk /\ Goto("meet")
  <2>1. request = Drive!NoRequest /\ given' = given
    BY <1>5 DEF FormatDisk, Told
  <2>2. Mind'
    BY <1>0, <1>5 DEF FormatDisk, Goto, FallAsleep
  <2> QED
    BY <1>5, <2>1, <2>2, GotoStays
<1>6. CASE FormatDisk /\ FallAsleep
  <2>1. request = Drive!NoRequest /\ given' = given
    BY <1>6 DEF FormatDisk, Told
  <2>2. Mind'
    BY <1>0, <1>6, <2>1, AsleepMind
  <2>3. Goto("off")
    BY <1>6 DEF FormatDisk, FallAsleep, Goto
  <2> QED
    BY <2>1, <2>2, <2>3, GotoStays
<1>7. ASSUME NEW n \in Names, NEW s \in Secrets, Meet(n, s)
      PROVE  AccountInv'
  <2>1. Ask("exists", RecordOf(n), <<>>, "taken") /\ given' = given /\ who' = n
    BY <1>7 DEF Meet
  <2>2. Mind'
    <3>1. at' = "taken"
      BY <2>1, AskDoes
    <3> QED
      BY <1>0, <1>7, <3>1, Sessions DEF Meet
  <2>3. Open'
    BY <2>1, AskDoes, OpenNow
  <2> QED
    BY <2>1, <2>2, <2>3, AskStays
<1>8. Formatted => Goto("login") \/ Ask("exists", Users, <<>>, "ensure")
  BY Zenon DEF Formatted
<1>9. Ensure => Ask("is_folder", Users, <<>>, "made") \/ Ask("make_folder", Users, <<>>, "made")
  BY Zenon DEF Ensure
<1>10. FormatDisk => Goto("meet") \/ FallAsleep
  BY Zenon DEF FormatDisk
<1> QED
  BY <1>1, <1>2, <1>3, <1>4, <1>5, <1>6, <1>7, <1>8, <1>9, <1>10

\* The end of create_account: who was given what is known when the record is
\* there as it was written.
LEMMA CreateEndsStays ==
    ASSUME AccountInv, at \in Making, request = Drive!NoRequest, NEW code \in {0, 1, 7},
           CreateEnds(code), code = 1 => Whole
    PROVE  AccountInv'
<1> USE DEF Mind, Dealing, Typing, Making, Unsure, Steps
<1>0. Mind /\ Covered /\ Remembered
  BY DEF AccountInv
<1>1. who \in Names /\ secret \in Secrets /\ role \in Roles
  BY <1>0
<1>2. /\ UNCHANGED <<store, limbo, request, answer, tries, session>>
      /\ who' = Nobody /\ secret' = Nobody /\ role' = ""
  BY DEF CreateEnds, Goto, disk
<1>3. at' \in {"shell", "login", "meet"}
  BY DEF CreateEnds, Goto
<1>4. given' = IF code = 1 THEN [given EXCEPT ![who] = {<<secret, role>>}] ELSE given
  BY Zenon DEF CreateEnds
<1>5. given' \in [Names -> SUBSET (Secrets \X Roles)]
  <2>1. given \in [Names -> SUBSET (Secrets \X Roles)] /\ <<secret, role>> \in Secrets \X Roles
    BY <1>0, <1>1
  <2>2. [given EXCEPT ![who] = {<<secret, role>>}] \in [Names -> SUBSET (Secrets \X Roles)]
    BY <1>1, <2>1, GivenAnew
  <2> QED
    BY <1>4, <2>1, <2>2
<1>6. Mind'
  BY <1>0, <1>2, <1>3, <1>5
<1>7. ASSUME NEW n \in Names
      PROVE  \/ given[n] \subseteq given'[n]
             \/ /\ CoveredNode(given'[n], store[RecordOf(n)])
                /\ CoveredNode(given'[n], limbo[RecordOf(n)])
  <2>1. CASE code = 1 /\ n = who
    <3>1. /\ store[RecordOf(n)] = Drive!File(Rec(secret, "v2", role))
          /\ limbo[RecordOf(n)] = Drive!Nothing
      BY <1>0, <2>1 DEF Remembered, Mine
    <3>2. given'[n] = {<<secret, role>>}
      BY <1>0, <1>4, <2>1
    <3>3. CoveredText({<<secret, role>>}, Rec(secret, "v2", role))
      BY <1>1, CoveredRecord DEF Schemes
    <3> QED
      BY <3>1, <3>2, <3>3, CoveredFile DEF CoveredNode
  <2>2. CASE ~(code = 1 /\ n = who)
    BY <1>0, <1>4, <2>2
  <2> QED
    BY <2>1, <2>2
<1>8. Covered'
  BY <1>0, <1>2, <1>7, CoveredStill
<1>9. Remembered'
  BY <1>3, NothingRemembered
<1> QED
  BY <1>2, <1>6, <1>8, <1>9 DEF AccountInv, Asked

LEMMA CreateAccountStays ==
    ASSUME AccountInv, CreateAccount
    PROVE  AccountInv'
<1> USE DEF Mind, Dealing, Typing, Making, Unsure, Steps, Remembers
<1>0. Mind /\ Covered /\ Remembered
  BY DEF AccountInv
<1>1. ASSUME Taken, ~CreateEnds(0)
      PROVE  AccountInv'
  <2>1. /\ at = "taken" /\ who' = who /\ secret' = secret /\ role' = role
        /\ Ask("write", RecordOf(who), <<Lock(secret, "v2"), Role(role)>>, "written")
        /\ given' = [given EXCEPT ![who] = @ \cup {<<secret, role>>}]
        /\ UNCHANGED <<tries, session>>
    BY <1>1 DEF Taken, Told
  <2>2. who \in Names /\ secret \in Secrets /\ role \in Roles
    BY <1>0, <2>1
  <2>3. /\ given' \in [Names -> SUBSET (Secrets \X Roles)]
        /\ \A n \in Names : given[n] \subseteq given'[n]
        /\ <<secret, role>> \in given'[who]
    <3>1. given \in [Names -> SUBSET (Secrets \X Roles)] /\ <<secret, role>> \in Secrets \X Roles
      BY <1>0, <2>2
    <3> HIDE DEF Mind
    <3>2. /\ [given EXCEPT ![who] = @ \cup {<<secret, role>>}] \in [Names -> SUBSET (Secrets \X Roles)]
          /\ \A n \in Names : given[n] \subseteq [given EXCEPT ![who] = @ \cup {<<secret, role>>}][n]
          /\ <<secret, role>> \in [given EXCEPT ![who] = @ \cup {<<secret, role>>}][who]
      BY <2>2, <3>1, GivenAnew
    <3> QED
      BY <2>1, <3>2, Zenon
  <2>4. at' = "written"
    BY <2>1, AskDoes
  <2>5. Mind'
    BY <1>0, <2>1, <2>2, <2>3, <2>4
  <2>6. role # ""
    BY <2>2 DEF Roles
  <2>7. Rec(secret, "v2", role) = <<Lock(secret, "v2"), Role(role)>>
    BY <2>6, Zenon DEF Rec
  <2>8. request' = Drive!Request("write", RecordOf(who'), Rec(secret', "v2", role'), RecordOf(who'))
    BY <2>1, <2>7, AskDoes, Zenon
  <2>9. Open'
    BY <2>4, <2>8, OpenNow
  <2> QED
    BY <2>1, <2>3, <2>5, <2>9, AskStays
<1>2. ASSUME Written, ~CreateEnds(7)
      PROVE  AccountInv'
  <2>1. /\ at = "written" /\ request = Drive!NoRequest /\ answer.code = 1
        /\ Ask("exists", HomeOf(who), <<>>, "home")
        /\ UNCHANGED <<who, secret, role, tries, session, given>>
    BY <1>2 DEF Written, Told, Yes
  <2>2. Mind' /\ UNCHANGED <<store, limbo>>
    <3>1. at' = "home" /\ UNCHANGED <<store, limbo>>
      BY <2>1, AskDoes
    <3> QED
      BY <1>0, <2>1, <3>1
  <2>3. Open'
    BY <2>1, AskDoes, OpenNow
  <2>4. Covered'
    BY <1>0, <2>1, <2>2, CoveredStill
  <2>5. Whole /\ at' = "home" /\ Mine' = Mine
    BY <2>1, <2>2, AskDoes DEF Whole, Mine
  <2>6. Remembered'
    BY <1>0, <2>1, <2>2, <2>5 DEF Remembered
  <2> QED
    BY <2>2, <2>3, <2>4, <2>6 DEF AccountInv, Asked
<1>3. ASSUME Home, ~CreateEnds(1)
      PROVE  AccountInv'
  <2>1. /\ at = "home" /\ request = Drive!NoRequest
        /\ Ask("make_folder", HomeOf(who), <<>>, "homemade")
        /\ UNCHANGED <<who, secret, role, tries, session, given>>
    BY <1>3 DEF Home, Told, Yes
  <2>2. Mind' /\ UNCHANGED <<store, limbo>>
    <3>1. at' = "homemade" /\ UNCHANGED <<store, limbo>>
      BY <2>1, AskDoes
    <3> QED
      BY <1>0, <2>1, <3>1
  <2>3. Open'
    BY <2>1, AskDoes, OpenNow
  <2>4. Covered'
    BY <1>0, <2>1, <2>2, CoveredStill
  <2>5. Whole /\ at' = "homemade" /\ Mine' = Mine
    BY <2>1, <2>2, AskDoes DEF Whole, Mine
  <2>6. Remembered'
    BY <1>0, <2>1, <2>2, <2>5 DEF Remembered
  <2> QED
    BY <2>2, <2>3, <2>4, <2>6 DEF AccountInv, Asked
<1>4. ASSUME HomeMade, ~CreateEnds(1)
      PROVE  AccountInv'
  <2>1. /\ at = "homemade" /\ request = Drive!NoRequest
        /\ Ask("remove_file", RecordOf(who), <<>>, "rolledback")
        /\ UNCHANGED <<who, secret, role, tries, session, given>>
    BY <1>4 DEF HomeMade, Told, Yes
  <2>2. Mind' /\ UNCHANGED <<store, limbo>>
    <3>1. at' = "rolledback" /\ UNCHANGED <<store, limbo>>
      BY <2>1, AskDoes
    <3> QED
      BY <1>0, <2>1, <3>1
  <2>3. Open'
    BY <2>1, AskDoes, OpenNow
  <2>4. Covered'
    BY <1>0, <2>1, <2>2, CoveredStill
  <2>5. Whole /\ at' = "rolledback" /\ Mine' = Mine
    BY <2>1, <2>2, AskDoes DEF Whole, Mine
  <2>6. Remembered'
    BY <1>0, <2>1, <2>2, <2>5 DEF Remembered
  <2> QED
    BY <2>2, <2>3, <2>4, <2>6 DEF AccountInv, Asked
<1>5. CASE (Taken /\ CreateEnds(0)) \/ RolledBack \/ (Written /\ CreateEnds(7))
  <2>1. \E code \in {0, 1, 7} : CreateEnds(code) /\ code # 1
    BY <1>5 DEF RolledBack
  <2>2. at \in Making /\ request = Drive!NoRequest
    BY <1>5 DEF Taken, RolledBack, Written, Told
  <2> QED
    BY <2>1, <2>2, CreateEndsStays
<1>6. CASE (Home \/ HomeMade) /\ CreateEnds(1)
  <2>1. at \in Making /\ request = Drive!NoRequest /\ Whole
    BY <1>6 DEF Home, HomeMade, Told, Whole
  <2> QED
    BY <1>6, <2>1, CreateEndsStays
<1> QED
  BY <1>1, <1>2, <1>3, <1>4, <1>5, <1>6 DEF CreateAccount

\* The steps at which the thread waits for a person.
LEMMA Quiet ==
    ASSUME Asked, at \in {"off", "meet", "login", "password", "shell"}
    PROVE  request = Drive!NoRequest
BY DEF Asked, Open

\* What the thread knows when it asks about, or goes on with, the same person.
LEMMA MindFollows ==
    ASSUME Mind, NEW next \in Steps \ {"written", "home", "homemade", "rolledback",
                                       "removable", "removed"},
           at' = next, given' = given, session' = session, role' = role,
           who' \in Names \cup {Nobody}, secret' \in Secrets \cup {Nobody}, tries' \in 0 .. 2,
           next \in Dealing => who' \in Names, next \in Typing => secret' \in Secrets,
           next = "taken" => role' \in Roles
    PROVE  Mind'
BY DEF Mind, Dealing, Typing, Making

LEMMA StartOverStays ==
    ASSUME AccountInv, StartOver, request = Drive!NoRequest
    PROVE  AccountInv'
<1>0. Mind
  BY DEF AccountInv
<1>1. at' = "login" /\ who' = Nobody /\ secret' = Nobody /\ tries' = 0
  BY Zenon DEF StartOver, Goto
<1>2. UNCHANGED <<role, session, given>>
  BY DEF StartOver
<1>3. tries' \in 0 .. 2
  BY <1>1
<1>4. "login" \notin Dealing /\ "login" \notin Typing
  BY DEF Dealing, Typing, Making
<1>5. Mind'
  BY <1>0, <1>1, <1>2, <1>3, <1>4, MindFollows DEF Steps
<1> QED
  BY <1>2, <1>5, GotoStays DEF Unsure, Steps, StartOver

LEMMA WrongPasswordStays ==
    ASSUME AccountInv, WrongPassword, at \in {"verify", "compare"}, request = Drive!NoRequest
    PROVE  AccountInv'
<1>0. Mind /\ who \in Names /\ tries \in 0 .. 2
  BY DEF AccountInv, Mind, Dealing, Typing
<1>1. ASSUME Goto("password"), tries < 2, tries' = tries + 1, secret' = Nobody,
             UNCHANGED <<who, role, session, given>>
      PROVE  AccountInv'
  <2>1. at' = "password" /\ tries' \in 0 .. 2
    BY <1>0, <1>1 DEF Goto
  <2>2. Mind'
    BY <1>0, <1>1, <2>1, MindFollows DEF Steps, Typing, Making
  <2> QED
    BY <1>1, <2>2, GotoStays DEF Unsure, Steps
<1>2. CASE StartOver
  BY <1>2, StartOverStays
<1> QED
  BY <1>1, <1>2 DEF WrongPassword

\* The record that a password fitted is that of the person who typed it.
LEMMA WhatFits ==
    ASSUME AccountInv, Told("compare"), NEW a, Fits(a)
    PROVE  \E e \in Ends : /\ Mine = Drive!File(Rec(secret, a, e))
                           /\ answer.seen = Rec(secret, a, e)
<1>1. who \in Names /\ answer.seen # <<>> /\ answer.seen[1] = Lock(secret, a)
  BY DEF AccountInv, Mind, Dealing, Typing, Told, Fits
<1>2. Mine = Drive!File(answer.seen)
  BY <1>1 DEF AccountInv, Remembered, Told
<1>3. CoveredText(given[who], answer.seen)
  BY <1>1, <1>2, CoveredFile DEF AccountInv, Covered, Mine
<1>4. PICK s \in Secrets, b \in Schemes, r \in Roles : \E e \in {r, ""} : answer.seen = Rec(s, b, e)
  BY <1>1, <1>3 DEF CoveredText
<1>5. PICK e \in Ends : answer.seen = Rec(s, b, e)
  BY <1>4 DEF Ends
<1>6. Lock(s, b) = Lock(secret, a)
  BY <1>1, <1>5, RecordParts
<1>7. s = secret /\ b = a
  BY <1>6, SameLock
<1> QED
  BY <1>2, <1>5, <1>7

\* A step on the way into a session, with the record still in mind.
LEMMA EnteringStays ==
    ASSUME AccountInv, at \in Typing, NEW op, NEW next, Ask(op, RecordOf(who), <<>>, next), Remembers,
           given' = given,
           (op = "exists" /\ next = "role") \/ (op = "read" /\ next = "enter"),
           \E a \in Schemes, e \in Roles \cup {""} : Mine = Drive!File(Rec(secret, a, e))
    PROVE  AccountInv'
<1>0. Mind /\ Covered
  BY DEF AccountInv
<1>1. /\ UNCHANGED <<store, limbo, who, secret, role, tries, session>> /\ at' = next
      /\ request' = Drive!Request(op, RecordOf(who'), <<>>, RecordOf(who'))
  BY AskDoes DEF Remembers
<1>2. next \in {"role", "enter"}
  OBVIOUS
<1>3. who' \in Names /\ secret' \in Secrets /\ tries' \in 0 .. 2
  BY <1>0, <1>1 DEF Mind, Dealing
<1>4. Mind'
  BY <1>0, <1>1, <1>2, <1>3, MindFollows DEF Steps
<1>5. Covered'
  BY <1>0, <1>1, CoveredStill
<1>6. Open'
  BY <1>1, OpenNow
<1>7. request' # Drive!NoRequest
  <2>1. op # "none"
    OBVIOUS
  <2> QED
    BY <2>1, AskOpens
<1>8. Mine' = Mine
  BY <1>1 DEF Mine
<1>9. ~Whole'
  BY <1>1, <1>2 DEF Whole
<1>10. \E a \in Schemes, e \in Roles \cup {""} : Mine' = Drive!File(Rec(secret', a, e))
  BY <1>1, <1>8
<1>11. at' # "removed"
  BY <1>1, <1>2
<1>12. Remembered'
  BY <1>7, <1>9, <1>10, <1>11 DEF Remembered
<1> QED
  BY <1>4, <1>5, <1>6, <1>12 DEF AccountInv, Asked

LEMMA CompareStays ==
    ASSUME AccountInv, Compare
    PROVE  AccountInv'
<1>0. Mind /\ Covered /\ Told("compare") /\ at \in Typing /\ request = Drive!NoRequest
  BY DEF AccountInv, Compare, Told, Typing
<1>1. CASE Fits("v2") /\ AskRole
  <2>1. \E e \in Ends : Mine = Drive!File(Rec(secret, "v2", e))
    BY <1>0, <1>1, WhatFits
  <2>2. \E a \in Schemes, e \in Roles \cup {""} : Mine = Drive!File(Rec(secret, a, e))
    BY <2>1 DEF Ends, Schemes
  <2>3. Ask("exists", RecordOf(who), <<>>, "role") /\ Remembers /\ given' = given
    BY <1>1 DEF AskRole
  <2> QED
    BY <1>0, <2>2, <2>3, EnteringStays
<1>2. CASE Fits("legacy") /\ Ask("write", RecordOf(who), <<Lock(secret, "v2")>> \o Tail(answer.seen), "migrated")
           /\ Remembers /\ UNCHANGED given
  <2>1. PICK e \in Ends : /\ Mine = Drive!File(Rec(secret, "legacy", e))
                          /\ answer.seen = Rec(secret, "legacy", e)
    BY <1>0, <1>2, WhatFits
  <2>2. <<Lock(secret, "v2")>> \o Tail(answer.seen) = Rec(secret, "v2", e)
    BY <2>1, RecordParts
  <2>3. /\ UNCHANGED <<store, limbo, who, secret, role, tries, session, given>> /\ at' = "migrated"
        /\ request' = Writes(Rec(secret, "v2", e))
    BY <1>2, <2>2, AskDoes DEF Remembers, Writes
  <2>4. who' \in Names /\ secret' \in Secrets /\ tries' \in 0 .. 2
    BY <1>0, <2>3 DEF Mind, Dealing
  <2>5. Mind'
    BY <1>0, <2>3, <2>4, MindFollows DEF Steps
  <2>6. Covered'
    BY <1>0, <2>3, CoveredStill
  <2>7. Mine' = Mine
    BY <2>3 DEF Mine
  <2>8. Migrates(e)'
    BY <2>1, <2>3, <2>7 DEF Migrates, Writes
  <2>9. Open'
    BY <2>3, <2>8 DEF Open, Ends
  <2>10. \E a \in Schemes, f \in Roles \cup {""} : Mine' = Drive!File(Rec(secret', a, f))
    BY <2>1, <2>3, <2>7 DEF Schemes, Ends
  <2>11. Remembered'
    BY <2>3, <2>10 DEF Remembered, Whole
  <2> QED
    BY <2>5, <2>6, <2>9, <2>11 DEF AccountInv, Asked
<1>3. CASE WrongPassword
  BY <1>0, <1>3, WrongPasswordStays DEF Told
<1> QED
  BY <1>1, <1>2, <1>3 DEF Compare

\* The role a record gives, or none where there is no record any more.
LEMMA RoleRead ==
    ASSUME AccountInv, Told("enter")
    PROVE  \/ answer.seen = <<>> /\ RoleOf(answer.seen) = ""
           \/ \E e \in Ends : Mine = Drive!File(Rec(secret, "v2", e)) /\ RoleOf(answer.seen) = e
           \/ \E e \in Ends : Mine = Drive!File(Rec(secret, "legacy", e)) /\ RoleOf(answer.seen) = e
<1>1. CASE answer.seen = <<>>
  <2>1. Len(answer.seen) # 2
    BY <1>1
  <2>2. RoleOf(answer.seen) = ""
    BY <2>1, Zenon DEF RoleOf
  <2> QED
    BY <1>1, <2>2, Zenon
<1>2. CASE answer.seen # <<>>
  <2>1. Mine = Drive!File(answer.seen)
    BY <1>2 DEF AccountInv, Remembered, Told
  <2>2. \E a \in Schemes, e \in Ends : Mine = Drive!File(Rec(secret, a, e))
    BY DEF AccountInv, Remembered, Told, Ends
  <2>3. ASSUME NEW a, NEW e \in Ends, Mine = Drive!File(Rec(secret, a, e))
        PROVE  RoleOf(answer.seen) = e
    <3>1. answer.seen = Rec(secret, a, e)
      BY <2>1, <2>3, Nodes
    <3>2. RoleOf(Rec(secret, a, e)) = e
      BY RecordParts
    <3> QED
      BY <3>1, <3>2, Zenon
  <2> QED
    BY <2>2, <2>3 DEF Schemes
<1> QED
  BY <1>1, <1>2

LEMMA EnterStays ==
    ASSUME AccountInv, NEW r \in Ends, Enter(r), request = Drive!NoRequest, who \in Names
    PROVE  AccountInv'
<1>0. Mind
  BY DEF AccountInv
<1>1. /\ at' = "shell" /\ who' = Nobody /\ secret' = Nobody /\ UNCHANGED <<role, given>>
      /\ session' = [person |-> who, role |-> r]
  BY DEF Enter, Goto
<1>2. tries' \in 0 .. 2
  <2>1. tries' = 0
    BY Zenon DEF Enter
  <2> QED
    BY <2>1
<1>3. session' \in [person : Names \cup {Nobody}, role : Roles \cup {""}]
  <2>1. r \in Roles \cup {""}
    BY DEF Ends
  <2> QED
    BY <1>1, <2>1
<1>4. at' \notin Dealing /\ at' \in Steps
  BY <1>1 DEF Dealing, Typing, Making, Steps
<1>5. Mind'
  BY <1>0, <1>1, <1>2, <1>3, <1>4 DEF Mind, Dealing, Typing
<1> QED
  BY <1>1, <1>5, GotoStays DEF Enter, Unsure, Steps

LEMMA LoginStays ==
    ASSUME AccountInv, LoginFlow
    PROVE  AccountInv'
<1> USE DEF Steps, Unsure
<1>0. Mind /\ Asked /\ tries \in 0 .. 2 /\ who \in Names \cup {Nobody} /\ secret \in Secrets \cup {Nobody}
  BY DEF AccountInv, Mind
<1>d. at \in Dealing => who \in Names
  BY <1>0 DEF Mind
<1>1. ASSUME NEW n \in Names, Login(n)
      PROVE  AccountInv'
  <2>1. Ask("exists", RecordOf(n), <<>>, "known") /\ who' = n /\ UNCHANGED <<secret, role, tries, session, given>>
    BY <1>1 DEF Login
  <2>2. at' = "known"
    BY <2>1, AskDoes
  <2>3. Mind'
    BY <1>0, <2>1, <2>2, MindFollows DEF Typing, Making
  <2>4. Open'
    BY <2>1, <2>2, AskDoes, OpenNow
  <2> QED
    BY <2>1, <2>3, <2>4, AskStays
<1>2. ASSUME NEW s \in Secrets, Password(s)
      PROVE  AccountInv'
  <2>1. /\ Ask("exists", RecordOf(who), <<>>, "verify") /\ secret' = s
        /\ UNCHANGED <<who, role, tries, session, given>>
    BY <1>2 DEF Password
  <2>2. at' = "verify"
    BY <2>1, AskDoes
  <2>3. who \in Names
    BY <1>2, <1>d DEF Password, Dealing
  <2>4. Mind'
    BY <1>0, <2>1, <2>2, <2>3, MindFollows
  <2>5. Open'
    BY <2>1, <2>2, AskDoes, OpenNow
  <2> QED
    BY <2>1, <2>4, <2>5, AskStays
<1>3. CASE Known
  <2>1. Told("known") /\ request = Drive!NoRequest /\ who \in Names
    BY <1>3, <1>d DEF Known, Told, Dealing
  <2>2. CASE StartOver
    BY <2>1, <2>2, StartOverStays
  <2>3. ASSUME Goto("password"), Remembers, given' = given
        PROVE  AccountInv'
    <3>1. at' = "password" /\ UNCHANGED <<who, secret, role, tries, session, given>>
      BY <2>3 DEF Goto, Remembers
    <3>2. Mind'
      BY <1>0, <2>1, <3>1, MindFollows DEF Typing, Making
    <3> QED
      BY <2>1, <2>3, <3>2, GotoStays
  <2> QED
    BY <1>3, <2>2, <2>3 DEF Known
<1>4. CASE Verify
  <2>1. at = "verify" /\ request = Drive!NoRequest /\ who \in Names /\ secret \in Secrets
    BY <1>0, <1>4, <1>d DEF Verify, Told, Dealing, Typing, Mind
  <2>2. CASE WrongPassword
    BY <2>1, <2>2, WrongPasswordStays
  <2>3. ASSUME Ask("read", RecordOf(who), <<>>, "compare"), Remembers, given' = given
        PROVE  AccountInv'
    <3>1. at' = "compare" /\ UNCHANGED <<who, secret, role, tries, session, given>>
      BY <2>3, AskDoes DEF Remembers
    <3>2. Mind'
      BY <1>0, <2>1, <3>1, MindFollows
    <3>3. Open'
      BY <2>3, <3>1, AskDoes, OpenNow
    <3> QED
      BY <2>3, <3>1, <3>2, <3>3, AskStays
  <2> QED
    BY <1>4, <2>2, <2>3 DEF Verify
<1>5. CASE Migrated
  <2>1. at = "migrated" /\ Ask("exists", RecordOf(who), <<>>, "role") /\ Remembers /\ given' = given
    BY <1>5 DEF Migrated, AskRole, Told
  <2>2. \E a \in Schemes, e \in Roles \cup {""} : Mine = Drive!File(Rec(secret, a, e))
    BY <2>1 DEF AccountInv, Remembered
  <2> QED
    BY <2>1, <2>2, EnteringStays DEF Typing
<1>6. CASE AccountRole
  <2>1. at = "role" /\ request = Drive!NoRequest /\ who \in Names
    BY <1>6, <1>d DEF AccountRole, Told, Dealing, Typing
  <2>2. CASE Enter("")
    BY <2>1, <2>2, EnterStays DEF Ends
  <2>3. ASSUME Ask("read", RecordOf(who), <<>>, "enter"), Remembers, given' = given
        PROVE  AccountInv'
    <3>1. \E a \in Schemes, e \in Roles \cup {""} : Mine = Drive!File(Rec(secret, a, e))
      BY <2>1 DEF AccountInv, Remembered
    <3> QED
      BY <2>1, <2>3, <3>1, EnteringStays DEF Typing
  <2> QED
    BY <1>6, <2>2, <2>3 DEF AccountRole
<1>7. CASE BeginSession
  <2>1. Told("enter") /\ request = Drive!NoRequest /\ who \in Names /\ Enter(RoleOf(answer.seen))
    BY <1>7, <1>d DEF BeginSession, Told, Dealing, Typing
  <2>2. RoleOf(answer.seen) \in Ends
    BY <2>1, RoleRead DEF Ends
  <2> QED
    BY <2>1, <2>2, EnterStays
<1> QED
  BY <1>1, <1>2, <1>3, <1>4, <1>5, <1>6, <1>7, CompareStays DEF LoginFlow

LEMMA PeopleStay ==
    ASSUME AccountInv, PeopleCommands
    PROVE  AccountInv'
<1> USE DEF Steps, Unsure
<1>0. /\ Mind /\ Covered /\ Asked /\ Remembered /\ tries \in 0 .. 2
      /\ secret \in Secrets \cup {Nobody}
  BY DEF AccountInv, Mind
<1>d. at \in Dealing => who \in Names
  BY <1>0 DEF Mind
<1>1. ASSUME NEW n \in Names, NEW next \in {"free", "told"}, Ask("exists", RecordOf(n), <<>>, next),
             who' = n, UNCHANGED <<secret, role, tries, session, given>>
      PROVE  AccountInv'
  <2>1. at' = next
    BY <1>1, AskDoes
  <2>2. Mind'
    BY <1>0, <1>1, <2>1, MindFollows DEF Typing, Making
  <2>3. Open'
    BY <1>1, <2>1, AskDoes, OpenNow
  <2> QED
    BY <1>1, <2>2, <2>3, AskStays
<1>2. ASSUME NEW n \in Names, RemovePerson(n)
      PROVE  AccountInv'
  <2>1. /\ Ask("exists", RecordOf(n), <<>>, "removable") /\ who' = n
        /\ UNCHANGED <<secret, role, tries, session, given>>
        /\ session.role = "admin" /\ n # session.person
    BY <1>2 DEF RemovePerson, IsAdmin
  <2>2. at' = "removable"
    BY <2>1, AskDoes
  <2>3. Mind'
    BY <1>0, <2>1, <2>2 DEF Mind, Dealing, Typing, Making
  <2>4. Open'
    BY <2>1, <2>2, AskDoes, OpenNow
  <2> QED
    BY <2>1, <2>3, <2>4, AskStays
<1>3. ASSUME BackToShell, given' = given, request = Drive!NoRequest
      PROVE  AccountInv'
  <2>1. at' = "shell" /\ who' = Nobody /\ UNCHANGED <<secret, role, tries, session>>
    BY <1>3 DEF BackToShell, Goto
  <2>2. Mind'
    BY <1>0, <1>3, <2>1, MindFollows DEF Dealing, Typing, Making
  <2> QED
    BY <1>3, <2>2, GotoStays DEF BackToShell
<1>4. ASSUME NEW s \in Secrets, ChoosePassword(s)
      PROVE  AccountInv'
  <2>1. at = "free" /\ request = Drive!NoRequest /\ who \in Names
    BY <1>4, <1>d DEF ChoosePassword, Told, Dealing
  <2>2. ASSUME Ask("exists", RecordOf(who), <<>>, "taken"), secret' = s, role' = "member",
               UNCHANGED <<who, tries, session, given>>
        PROVE  AccountInv'
    <3>1. at' = "taken"
      BY <2>2, AskDoes
    <3>2. role' \in Roles
      BY <2>2, Sessions
    <3>3. Mind'
      BY <1>0, <2>1, <2>2, <3>1, <3>2 DEF Mind, Dealing, Typing, Making
    <3>4. Open'
      BY <2>2, <3>1, AskDoes, OpenNow
    <3> QED
      BY <2>2, <3>3, <3>4, AskStays
  <2> QED
    BY <1>3, <1>4, <2>1, <2>2 DEF ChoosePassword
<1>5. CASE PersonListed
  BY <1>3, <1>5 DEF PersonListed, Told
<1>6. CASE DeleteAccount
  <2>1. at = "removable" /\ request = Drive!NoRequest
    BY <1>6 DEF DeleteAccount, Told
  <2>2. ASSUME Ask("remove_file", RecordOf(who), <<>>, "removed"), Remembers, given' = given
        PROVE  AccountInv'
    <3>1. at' = "removed" /\ UNCHANGED <<who, secret, role, tries, session, given>>
      BY <2>2, AskDoes DEF Remembers
    <3>2. Mind'
      BY <1>0, <2>1, <3>1 DEF Mind, Dealing, Typing, Making
    <3>3. Open'
      BY <2>2, <3>1, AskDoes, OpenNow
    <3> QED
      BY <2>2, <3>2, <3>3, AskStays
  <2> QED
    BY <1>3, <1>6, <2>1, <2>2 DEF DeleteAccount
<1>7. CASE Removed
  <2>1. at = "removed" /\ request = Drive!NoRequest /\ who \in Names /\ BackToShell
    BY <1>7, <1>d DEF Removed, Told, Dealing
  <2>2. given' = IF Yes THEN [given EXCEPT ![who] = {}] ELSE given
    BY <1>7, Zenon DEF Removed
  <2>3. CASE ~Yes
    BY <1>3, <2>1, <2>2, <2>3
  <2>4. CASE Yes
    <3>1. Mine = Drive!Nothing /\ limbo[RecordOf(who)] = Drive!Nothing
      BY <1>0, <2>1, <2>4 DEF Remembered, Yes
    <3>2. given \in [Names -> SUBSET (Secrets \X Roles)]
      BY <1>0 DEF Mind
    <3>3. given' = [given EXCEPT ![who] = {}]
      BY <2>2, <2>4
    <3>4. given' \in [Names -> SUBSET (Secrets \X Roles)]
      BY <3>2, <3>3
    <3>5. /\ at' = "shell" /\ UNCHANGED <<store, limbo, request, secret, role, tries, session>>
          /\ who' = Nobody
      BY <2>1 DEF BackToShell, Goto, disk
    <3>6. Mind'
      BY <1>0, <3>4, <3>5 DEF Mind, Dealing, Typing, Making
    <3>7. ASSUME NEW n \in Names
          PROVE  \/ given[n] \subseteq given'[n]
                 \/ /\ CoveredNode(given'[n], store[RecordOf(n)])
                    /\ CoveredNode(given'[n], limbo[RecordOf(n)])
      <4>1. CASE n = who
        BY <3>1, <4>1 DEF CoveredNode, Mine
      <4>2. CASE n # who
        BY <3>2, <3>3, <4>2
      <4> QED
        BY <4>1, <4>2
    <3>8. Covered'
      BY <1>0, <3>5, <3>7, CoveredStill
    <3>9. Remembered'
      BY <3>5, NothingRemembered
    <3> QED
      BY <2>1, <3>5, <3>6, <3>8, <3>9 DEF AccountInv, Asked
  <2> QED
    BY <2>3, <2>4
<1>8. CASE Logout
  <2>1. /\ at = "shell" /\ at' = "login" /\ session' = NoSession
        /\ UNCHANGED <<who, secret, role, tries, given>>
    BY <1>8 DEF Logout, Goto
  <2>2. Mind'
    BY <1>0, <2>1, Sessions DEF Mind, Dealing, Typing, Making
  <2>3. request = Drive!NoRequest
    BY <1>0, <2>1, Quiet
  <2> QED
    BY <1>8, <2>1, <2>2, <2>3, GotoStays DEF Logout
<1> QED
  BY <1>1, <1>2, <1>4, <1>5, <1>6, <1>7, <1>8 DEF PeopleCommands, AddPerson, ListPeople

\* When the machine stops, an interrupted write leaves what is covered.
LEMMA PowerOffStays ==
    ASSUME AccountInv, PowerOff
    PROVE  AccountInv'
<1>0. Mind /\ Covered /\ Asked /\ FallAsleep /\ given' = given
  BY DEF AccountInv, PowerOff
<1>1. Mind' /\ at' = "off"
  BY <1>0, AsleepMind DEF FallAsleep
<1>2. Remembered'
  BY <1>1, NothingRemembered DEF Unsure, Steps
<1>3. CASE request = Drive!NoRequest /\ UNCHANGED disk
  <2>1. Covered'
    BY <1>0, <1>3, CoveredStill DEF disk
  <2> QED
    BY <1>1, <1>2, <1>3, <2>1 DEF AccountInv, Asked, disk
<1>4. CASE Drive!Stop
  <2>1. request' = Drive!NoRequest /\ request # Drive!NoRequest
    BY <1>4 DEF Drive!Stop
  <2>2. Open
    BY <1>0, <2>1 DEF Asked
  <2>3. Covered'
    <3>1. CASE UNCHANGED <<store, limbo>>
      BY <1>0, <3>1, CoveredStill
    <3>2. ASSUME request.op = "write", store' = store,
                 NEW text \in Drive!Cuts(request.text) \cup {request.text},
                 limbo' = [limbo EXCEPT ![request.path] = Drive!File(text)]
          PROVE  Covered'
      <4>1. PICK e \in Ends : /\ who \in Names /\ request.path = RecordOf(who)
                              /\ request.text = Rec(secret, "v2", e)
                              /\ CoveredText(given[who], Rec(secret, "v2", e))
        BY <1>0, <2>2, <3>2, OpenByOp
      <4>2. CoveredText(given[who], text)
        BY <3>2, <4>1, CoveredCut
      <4>3. CoveredNode(given[who], Drive!File(text))
        BY <4>2, CoveredFile
      <4>4. request.path \in Spots
        BY <4>1, Places
      <4>5. OnlyAt(request.path) /\ limbo'[request.path] = Drive!File(text)
        BY <1>0, <3>2, <4>4, MappedStill DEF OnlyAt, Covered
      <4>6. ASSUME NEW n \in Names, request.path = RecordOf(n)
            PROVE  CoveredNode(given[n], store'[request.path]) /\ CoveredNode(given[n], limbo'[request.path])
        <5>1. n = who
          BY <4>1, <4>6, Places
        <5>2. CoveredNode(given[n], store[RecordOf(n)])
          BY <1>0 DEF Covered
        <5> QED
          BY <3>2, <4>3, <4>5, <4>6, <5>1, <5>2
      <4>7. request.path \notin Folders
        BY <4>1, Places DEF Folders
      <4> QED
        BY <1>0, <4>4, <4>5, <4>6, <4>7, CoveredAt
    <3>3. request.op # "append"
      BY <1>0, <2>2, OpenParts
    <3> QED
      BY <1>4, <3>1, <3>2, <3>3 DEF Drive!Stop
  <2> QED
    BY <1>1, <1>2, <2>1, <2>3 DEF AccountInv, Asked
<1> QED
  BY <1>3, <1>4 DEF PowerOff

LEMMA InitCovers ==
    ASSUME Init
    PROVE  AccountInv
<1>1. /\ at = "off" /\ who = Nobody /\ secret = Nobody /\ session = NoSession
      /\ limbo = [p \in Spots |-> Drive!Nothing] /\ request = Drive!NoRequest
  BY Zenon DEF Init
<1>2. tries = 0
  BY Zenon DEF Init
<1>3. role = ""
  BY Zenon DEF Init
<1>4. ASSUME store = [p \in Spots |-> Drive!Nothing], given = [n \in Names |-> {}]
      PROVE  Covered /\ given \in [Names -> SUBSET (Secrets \X Roles)]
  <2>1. Mapped(store) /\ Mapped(limbo)
    BY <1>1, <1>4 DEF Mapped
  <2> QED
    BY <1>1, <1>4, <2>1, Places DEF Covered, CoveredNode
<1>5. ASSUME NEW n \in Names, NEW s \in Secrets,
             store = [p \in Spots |->
                    IF p \in {Users, HomeOf(n)} THEN Drive!Folder
                    ELSE IF p = RecordOf(n) THEN Drive!File(<<Lock(s, "legacy"), Role("admin")>>)
                    ELSE Drive!Nothing],
             given = [m \in Names |-> IF m = n THEN {<<s, "admin">>} ELSE {}]
      PROVE  Covered /\ given \in [Names -> SUBSET (Secrets \X Roles)]
  <2>1. given \in [Names -> SUBSET (Secrets \X Roles)] /\ given[n] = {<<s, "admin">>}
    <3>1. <<s, "admin">> \in Secrets \X Roles
      BY Sessions
    <3> QED
      BY <1>5, <3>1
  <2>2. Rec(s, "legacy", "admin") = <<Lock(s, "legacy"), Role("admin")>>
    BY DEF Rec
  <2>3. CoveredText(given[n], Rec(s, "legacy", "admin"))
    BY <2>1, Sessions, CoveredRecord DEF Schemes
  <2>4. CoveredNode(given[n], Drive!File(<<Lock(s, "legacy"), Role("admin")>>))
    BY <2>2, <2>3, CoveredFile
  <2>5. ASSUME NEW m \in Names
        PROVE  CoveredNode(given[m], store[RecordOf(m)]) /\ CoveredNode(given[m], limbo[RecordOf(m)])
    <3>1. RecordOf(m) \in Spots /\ RecordOf(m) \notin {Users, HomeOf(n)}
      BY Places
    <3>2. limbo[RecordOf(m)] = Drive!Nothing
      BY <1>1, <3>1
    <3>3. m # n => store[RecordOf(m)] = Drive!Nothing
      BY <1>5, <3>1, Places
    <3>4. store[RecordOf(n)] = Drive!File(<<Lock(s, "legacy"), Role("admin")>>)
      BY <1>5, Places
    <3> QED
      BY <2>4, <3>2, <3>3, <3>4 DEF CoveredNode
  <2>6. ASSUME NEW p \in {Users} \cup {HomeOf(m) : m \in Names}
        PROVE  store[p] \in {Drive!Nothing, Drive!Folder} /\ limbo[p] = Drive!Nothing
    <3>1. p \in Spots /\ p # RecordOf(n)
      BY Places
    <3> QED
      BY <1>1, <1>5, <3>1
  <2>7. Mapped(store) /\ Mapped(limbo)
    BY <1>1, <1>5 DEF Mapped
  <2> QED
    BY <2>1, <2>5, <2>6, <2>7 DEF Covered
<1>6. Covered /\ given \in [Names -> SUBSET (Secrets \X Roles)]
  BY <1>4, <1>5 DEF Init
<1>7. at \in Steps /\ at \notin Dealing /\ at \notin {"removable", "removed"}
  BY <1>1 DEF Steps, Dealing, Typing, Making
<1>8. who \in Names \cup {Nobody} /\ secret \in Secrets \cup {Nobody}
  BY <1>1
<1>9. role \in Roles \cup {""}
  BY <1>3
<1>10. tries \in 0 .. 2
  BY <1>2
<1>11. Mind
  BY <1>1, <1>6, <1>7, <1>8, <1>9, <1>10, Sessions DEF Mind, Dealing, Typing
<1>12. Remembered
  BY <1>1 DEF Remembered, Whole
<1> QED
  BY <1>1, <1>6, <1>11, <1>12 DEF AccountInv, Asked

LEMMA NothingHappens ==
    ASSUME AccountInv, UNCHANGED vars
    PROVE  AccountInv'
<1>1. UNCHANGED <<store, limbo, request, answer, at, who, secret, role, tries, session, given>>
  BY DEF vars, disk, mind
<1>2. Mind'
  BY <1>1 DEF AccountInv, Mind
<1>3. Covered'
  BY <1>1, CoveredStill DEF AccountInv
<1>4. Mine' = Mine /\ (\A t : Writes(t)' = Writes(t))
  BY <1>1 DEF Mine, Writes
<1>5. \A e : Migrates(e)' <=> Migrates(e)
  BY <1>1, <1>4 DEF Migrates, Writes
<1>6. Open' <=> Open
  BY <1>1, <1>5 DEF Open, Writes
<1>7. Remembered'
  BY <1>1, <1>4 DEF AccountInv, Remembered, Whole
<1> QED
  BY <1>1, <1>2, <1>3, <1>6, <1>7 DEF AccountInv, Asked

\* Everything stored or in limbo at a record is a text, whole or cut, of a
\* password and role that may be in force for that name, and what the main
\* thread believes about the record it deals with is so: write_account_record,
\* its migration, an interrupted or refused write and a removal keep it.
THEOREM AccountInvHolds == Spec => []AccountInv
<1>1. Init => AccountInv
  BY InitCovers
<1>2. AccountInv /\ [Next]_vars => AccountInv'
  <2> SUFFICES ASSUME AccountInv, [Next]_vars
               PROVE  AccountInv'
    OBVIOUS
  <2> QED
    BY FirstBootStays, CreateAccountStays, LoginStays, PeopleStay, ServeStays, PowerOffStays,
       NothingHappens DEF Next
<1> QED
  BY <1>1, <1>2, PTL DEF Spec

-----------------------------------------------------------------------------
(* Types. *)

LEMMA FieldsOfRecords ==
    ASSUME NEW s \in Secrets, NEW a \in Schemes, NEW r \in Roles
    PROVE  Lock(s, a) \in Fields /\ Role(r) \in Fields
<1>1. Lock(s, a) \in Locks
  BY DEF Locks
<1>2. Role(r) \in {Role(q) : q \in Roles}
  BY Zenon
<1> QED
  BY <1>1, <1>2 DEF Fields

LEMMA ShortSeqs ==
    ASSUME NEW S, NEW x \in S, NEW y \in S
    PROVE  <<x>> \in Seq(S) /\ <<x, y>> \in Seq(S)
OBVIOUS

LEMMA CoveredIsTyped ==
    ASSUME NEW may, NEW node, CoveredNode(may, node)
    PROVE  node \in [kind : {"nothing", "folder", "file"}, data : Seq(Fields)]
<1>0. <<>> \in Seq(Fields)
  OBVIOUS
<1>1. CASE node = Drive!Nothing
  BY <1>0, <1>1 DEF Drive!Nothing
<1>2. ASSUME NEW text, CoveredText(may, text), node = Drive!File(text)
      PROVE  node \in [kind : {"nothing", "folder", "file"}, data : Seq(Fields)]
  <2>1. ASSUME NEW s \in Secrets, NEW a \in Schemes, NEW r \in Roles, NEW e \in {r, ""},
               text = Rec(s, a, e)
        PROVE  text \in Seq(Fields)
    <3>1. Lock(s, a) \in Fields /\ Role(r) \in Fields
      BY FieldsOfRecords
    <3>2. <<Lock(s, a)>> \in Seq(Fields) /\ <<Lock(s, a), Role(r)>> \in Seq(Fields)
      BY <3>1, ShortSeqs
    <3>3. text = <<Lock(s, a)>> \/ text = <<Lock(s, a), Role(r)>>
      BY <2>1 DEF Rec
    <3> QED
      BY <3>2, <3>3
  <2>2. text \in Seq(Fields)
    BY <1>0, <1>2, <2>1 DEF CoveredText
  <2> QED
    BY <1>2, <2>2 DEF Drive!File
<1> QED
  BY <1>1, <1>2 DEF CoveredNode

LEMMA AccountTypes ==
    ASSUME AccountInv
    PROVE  TypeOK
<1> DEFINE Node == [kind : {"nothing", "folder", "file"}, data : Seq(Fields)]
<1>1. \A n \in Names : store[RecordOf(n)] \in Node
  BY CoveredIsTyped DEF AccountInv, Covered
<1>2. Drive!Nothing \in Node /\ Drive!Folder \in Node
  BY DEF Drive!Nothing, Drive!Folder
<1>3. \A p \in Spots : store[p] \in Node
  BY <1>1, <1>2, Places DEF AccountInv, Covered
<1>4. request = Drive!NoRequest \/ request.path \in Spots
  BY OpenParts DEF AccountInv, Asked
<1>5. DOMAIN limbo = Spots
  BY MappedStill DEF AccountInv, Covered
<1>7. store \in [Spots -> Node]
  BY <1>3 DEF AccountInv, Covered, Mapped
<1>6. /\ at \in Steps /\ who \in Names \cup {Nobody} /\ secret \in Secrets \cup {Nobody}
      /\ role \in Roles \cup {""} /\ tries \in 0 .. 2
      /\ session \in [person : Names \cup {Nobody}, role : Roles \cup {""}]
      /\ given \in [Names -> SUBSET (Secrets \X Roles)]
  BY DEF AccountInv, Mind
<1> QED
  BY <1>4, <1>5, <1>6, <1>7, Zenon DEF TypeOK

\* The disk holds folders, records and cut records, and the main thread is at
\* one of its steps, with a name, a password and a role where it needs them.
THEOREM AccountsAreTyped == Spec => []TypeOK
<1>1. AccountInv => TypeOK
  BY AccountTypes
<1> QED
  BY <1>1, AccountInvHolds, PTL

-----------------------------------------------------------------------------
(* What a step may never do. *)

LEMMA OnlyTheGivenEnter ==
    ASSUME AccountInv, [Next]_vars, session.person = Nobody, session'.person # Nobody
    PROVE  \E r \in Roles :
              /\ <<secret, r>> \in given[session'.person]
              /\ session'.role \in {r, ""}
<1>1. session' # session
  OBVIOUS
<1>n. NoSession.person = Nobody
  BY DEF NoSession
<1>2. ASSUME FallAsleep
      PROVE  FALSE
  <2>1. session' = NoSession
    BY <1>2, Zenon DEF FallAsleep
  <2> QED
    BY <1>n, <2>1
<1>3. \/ Told("role") /\ Enter("")
      \/ Told("enter") /\ Enter(RoleOf(answer.seen))
  <2>1. ~UNCHANGED vars
    BY <1>1 DEF vars, mind
  <2>2. ~(Boot \/ Formatted \/ Ensure \/ FormatDisk \/ \E n \in Names, s \in Secrets : Meet(n, s))
    BY <1>1, <1>2 DEF Boot, Formatted, Ensure, FormatDisk, Meet, Remembers
  <2>3. ~CreateAccount
    BY <1>1 DEF CreateAccount, Taken, Written, Home, HomeMade, RolledBack, CreateEnds, Remembers
  <2>4. ~Serve
    BY <1>1 DEF Serve, mind
  <2>5. ~PowerOff
    BY <1>2 DEF PowerOff
  <2>6. ~PeopleCommands
    <3>1. ~Logout
      BY <1>n DEF Logout
    <3> QED
      BY <1>1, <3>1 DEF PeopleCommands, AddPerson, ListPeople, RemovePerson, ChoosePassword,
         PersonListed, DeleteAccount, Removed, BackToShell, Remembers
  <2>7. LoginFlow
    BY <2>1, <2>2, <2>3, <2>4, <2>5, <2>6 DEF Next
  <2> QED
    BY <1>1, <2>7 DEF LoginFlow, Login, Password, Known, Verify, Compare, Migrated, AccountRole,
       BeginSession, StartOver, WrongPassword, AskRole, Remembers
<1>4. PICK q : Enter(q) /\ ((Told("role") /\ q = "") \/ (Told("enter") /\ q = RoleOf(answer.seen)))
  BY <1>3
<1>5. session' = [person |-> who, role |-> q]
  BY <1>4, Zenon DEF Enter
<1>6. session'.person = who /\ session'.role = q
  BY <1>5
<1>7. who \in Names
  BY <1>4 DEF AccountInv, Mind, Dealing, Typing, Told
<1>8. CoveredNode(given[who], Mine)
  BY <1>7 DEF AccountInv, Covered, Mine
<1>9. ASSUME NEW a, NEW e \in Ends, Mine = Drive!File(Rec(secret, a, e)), q \in {e, ""}
      PROVE  \E r \in Roles : <<secret, r>> \in given[who] /\ q \in {r, ""}
  <2>1. CoveredText(given[who], Rec(secret, a, e))
    BY <1>8, <1>9, CoveredFile
  <2>2. PICK r \in Roles : <<secret, r>> \in given[who] /\ e \in {r, ""}
    BY <2>1, WhatIsCovered
  <2> QED
    BY <1>9, <2>2
<1>10. \E a \in Schemes, e \in Ends : Mine = Drive!File(Rec(secret, a, e))
  BY <1>4 DEF AccountInv, Remembered, Told, Ends
<1>11. q = "" \/ \E a \in Schemes, e \in Ends : Mine = Drive!File(Rec(secret, a, e)) /\ q = e
  BY <1>4, RoleRead DEF Schemes
<1>12. \E r \in Roles : <<secret, r>> \in given[who] /\ q \in {r, ""}
  BY <1>9, <1>10, <1>11
<1> QED
  BY <1>6, <1>12

\* Whoever comes in typed a password that was given for this name, and has the
\* role it was given with or, where the record was cut, none: what verify_login
\* compares and account_role reads are the same covered record.
THEOREM OnlyGivenEnter == Spec => NobodyEntersUngiven
<1> DEFINE Given ==
      session.person = Nobody /\ session'.person # Nobody
        => \E r \in Roles :
              /\ <<secret, r>> \in given[session'.person]
              /\ session'.role \in {r, ""}
<1>1. AccountInv /\ [Next]_vars => [Given]_vars
  BY OnlyTheGivenEnter
<1> QED
  BY <1>1, AccountInvHolds, PTL DEF Spec, NobodyEntersUngiven

\* The records change only when a request is served.
LEMMA OnlyServingChanges ==
    ASSUME AccountInv, [Next]_vars
    PROVE  store' = store \/ (Open /\ Drive!Serve)
<1>1. CASE Serve
  <2>1. Drive!Serve
    BY <1>1 DEF Serve
  <2>2. request # Drive!NoRequest
    BY <2>1, ServeOpens
  <2> QED
    BY <2>1, <2>2 DEF AccountInv, Asked
<1>2. CASE PowerOff
  <2>1. Drive!Stop => request # Drive!NoRequest
    BY DEF Drive!Stop
  <2>2. Drive!Stop => request.op # "append"
    BY <2>1, OpenParts DEF AccountInv, Asked
  <2> QED
    BY <1>2, <2>2 DEF PowerOff, Drive!Stop, disk
<1>3. \A op, p, text, next : Ask(op, p, text, next) => store' = store
  BY AskDoes
<1>4. (\A next : Goto(next) => store' = store) /\ (UNCHANGED disk => store' = store)
  BY DEF Goto, disk
<1>5. CASE Boot \/ Formatted \/ Ensure \/ FormatDisk \/ \E n \in Names, s \in Secrets : Meet(n, s)
  BY <1>3, <1>4, <1>5, Zenon DEF Boot, Formatted, Ensure, FormatDisk, Meet
<1>6. CASE CreateAccount
  BY <1>3, <1>4, <1>6, Zenon DEF CreateAccount, Taken, Written, Home, HomeMade, RolledBack, CreateEnds
<1>7. CASE LoginFlow
  BY <1>3, <1>4, <1>7, Zenon DEF LoginFlow, Login, Password, Known, Verify, Compare, Migrated,
     AccountRole, BeginSession, Enter, StartOver, WrongPassword, AskRole
<1>8. CASE PeopleCommands
  BY <1>3, <1>4, <1>8, Zenon DEF PeopleCommands, AddPerson, ListPeople, RemovePerson, ChoosePassword,
     PersonListed, DeleteAccount, Removed, Logout, BackToShell
<1>9. CASE UNCHANGED vars
  BY <1>4, <1>9 DEF vars
<1> QED
  BY <1>1, <1>2, <1>5, <1>6, <1>7, <1>8, <1>9 DEF Next

\* How the record of a person can change.
LEMMA RecordSteps ==
    ASSUME AccountInv, [Next]_vars, NEW n \in Names, store[RecordOf(n)].data # <<>>,
           store'[RecordOf(n)] # store[RecordOf(n)]
    PROVE  \/ n = who /\ WritesOver
           \/ /\ n = who /\ at = "migrated"
              /\ \E e \in Ends : /\ store[RecordOf(n)] = Drive!File(Rec(secret, "legacy", e))
                                 /\ store'[RecordOf(n)] = Drive!File(Rec(secret, "v2", e))
           \/ n = who /\ at \in {"rolledback", "removed"} /\ request # Drive!NoRequest
<1>1. Mind /\ Covered /\ Open /\ Drive!Serve /\ request # Drive!NoRequest
  BY OnlyServingChanges, OpenParts DEF AccountInv
<1>2. store[RecordOf(n)] # Drive!Nothing
  BY Nodes
<1>3. \/ /\ n = who /\ at \in {"written", "migrated"} /\ request.op = "write"
         /\ store'[RecordOf(n)] = Drive!File(request.text)
      \/ n = who /\ at \in {"rolledback", "removed"}
  BY <1>1, <1>2, ServeAtRecord
<1>4. CASE n = who /\ at = "written" /\ request.op = "write"
  BY <1>2, <1>4 DEF WritesOver
<1>5. CASE n = who /\ at = "migrated" /\ request.op = "write" /\ store'[RecordOf(n)] = Drive!File(request.text)
  <2>1. PICK e \in Ends : request.text = Rec(secret, "v2", e) /\ Mine = Drive!File(Rec(secret, "legacy", e))
    BY <1>1, <1>5, OpenByOp
  <2> QED
    BY <1>5, <2>1 DEF Mine
<1>6. CASE n = who /\ at \in {"rolledback", "removed"}
  BY <1>1, <1>6
<1> QED
  BY <1>3, <1>4, <1>5, <1>6

\* The migration of records, failed writes and power cuts lock nobody out.
THEOREM NobodyLockedOut == Spec => NobodyIsLockedOut
<1> DEFINE Lost == \A n \in Names, s \in Secrets :
          Opens(n, s) /\ ~Opens(n, s)'
              => who = n /\ (at \in {"removed", "rolledback"} \/ WritesOver)
<1>1. AccountInv /\ [Next]_vars => [Lost]_vars
  <2> SUFFICES ASSUME AccountInv, [Next]_vars, NEW n \in Names, NEW s \in Secrets,
                      Opens(n, s), ~Opens(n, s)'
               PROVE  who = n /\ (at \in {"removed", "rolledback"} \/ WritesOver)
    OBVIOUS
  <2>1. store[RecordOf(n)].data # <<>> /\ store[RecordOf(n)].data[1] \in {Lock(s, "v2"), Lock(s, "legacy")}
    BY DEF Opens
  <2>2. store'[RecordOf(n)] # store[RecordOf(n)]
    BY DEF Opens
  <2>3. ASSUME NEW e \in Ends, store[RecordOf(n)] = Drive!File(Rec(secret, "legacy", e)),
               store'[RecordOf(n)] = Drive!File(Rec(secret, "v2", e))
        PROVE  FALSE
    <3>1. store[RecordOf(n)].data = Rec(secret, "legacy", e) /\ store'[RecordOf(n)].data = Rec(secret, "v2", e)
      BY <2>3, Nodes
    <3>2. Lock(secret, "legacy") \in {Lock(s, "v2"), Lock(s, "legacy")}
      BY <2>1, <3>1, RecordParts
    <3>3. secret = s
      BY <3>2, SameLock
    <3>4. store'[RecordOf(n)].data # <<>> /\ store'[RecordOf(n)].data[1] = Lock(s, "v2")
      BY <3>1, <3>3, RecordParts
    <3> QED
      BY <3>4 DEF Opens
  <2> QED
    BY <2>1, <2>2, <2>3, RecordSteps
<1> QED
  BY <1>1, AccountInvHolds, PTL DEF Spec, NobodyIsLockedOut

\* Where there was an administrator, the account commands leave one.
THEOREM AnAdministratorIsLeft == Spec => AnAdministratorStays
<1> DEFINE Left == Administrators # {} /\ Administrators' = {}
          => \/ WritesOver
             \/ at = "rolledback" /\ role = "admin"
             \/ session.role = "admin" /\ session.person \notin Administrators
<1>1. AccountInv /\ [Next]_vars => [Left]_vars
  <2> SUFFICES ASSUME AccountInv, [Next]_vars, Administrators # {}, Administrators' = {}, ~WritesOver
               PROVE  \/ at = "rolledback" /\ role = "admin"
                      \/ session.role = "admin" /\ session.person \notin Administrators
    OBVIOUS
  <2>0. RoleOf(<<>>) # "admin"
    <3>1. Len(<<>>) # 2
      OBVIOUS
    <3>2. RoleOf(<<>>) = ""
      BY <3>1, Zenon DEF RoleOf
    <3> QED
      BY <3>2
  <2>1. ASSUME NEW n \in Administrators
        PROVE  /\ n \in Names /\ store[RecordOf(n)].data # <<>>
               /\ n = who /\ at \in {"rolledback", "removed"} /\ request # Drive!NoRequest
               /\ RoleOf(store[RecordOf(n)].data) = "admin"
    <3>1. n \in Names /\ RoleOf(store[RecordOf(n)].data) = "admin"
      BY DEF Administrators
    <3>2. RoleOf(store'[RecordOf(n)].data) # "admin"
      BY <3>1 DEF Administrators
    <3>3. store'[RecordOf(n)] # store[RecordOf(n)]
      BY <3>1, <3>2
    <3>4. store[RecordOf(n)].data # <<>>
      BY <2>0, <3>1
    <3>5. ASSUME NEW e \in Ends, store[RecordOf(n)] = Drive!File(Rec(secret, "legacy", e)),
                 store'[RecordOf(n)] = Drive!File(Rec(secret, "v2", e))
          PROVE  FALSE
      <4>1. store[RecordOf(n)].data = Rec(secret, "legacy", e) /\ store'[RecordOf(n)].data = Rec(secret, "v2", e)
        BY <3>5, Nodes
      <4>2. RoleOf(Rec(secret, "legacy", e)) = RoleOf(Rec(secret, "v2", e))
        BY RecordParts
      <4> QED
        BY <3>1, <3>2, <4>1, <4>2, Zenon
    <3> QED
      BY <3>1, <3>3, <3>4, <3>5, RecordSteps
  <2>2. PICK n \in Administrators : TRUE
    OBVIOUS
  <2>3. CASE at = "rolledback"
    <3>1. Mine = Drive!File(Rec(secret, "v2", role))
      BY <2>1, <2>2, <2>3 DEF AccountInv, Remembered, Whole
    <3>2. role \in Ends
      BY <2>3 DEF AccountInv, Mind, Making, Ends
    <3>3. RoleOf(Mine.data) = role
      BY <3>1, <3>2, Nodes, RecordParts
    <3>4. role = "admin"
      BY <2>1, <2>2, <3>3 DEF Mine
    <3> QED
      BY <2>3, <3>4
  <2>4. CASE at = "removed"
    <3>1. session.role = "admin" /\ who # session.person
      BY <2>4 DEF AccountInv, Mind
    <3> QED
      BY <2>1, <3>1
  <2> QED
    BY <2>1, <2>2, <2>3, <2>4
<1> QED
  BY <1>1, AccountInvHolds, PTL DEF Spec, AnAdministratorStays
=============================================================================
