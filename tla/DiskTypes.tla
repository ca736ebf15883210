----------------------------- MODULE DiskTypes -----------------------------
(***************************************************************************)
(* The vocabulary shared by the disk layer (Disk, system/hal/the_disk.ep)  *)
(* and by its promise to the layers above (Store): texts, what may live at *)
(* a place, the requests the disk serves and the answers it gives.         *)
(***************************************************************************)
EXTENDS Naturals, Sequences

CONSTANTS
    Chunk,      \* the pieces a text is made of
    Texts,      \* the texts the callers write
    Paths       \* the disk-relative paths that pass disk_path_is_safe

ASSUME TextsAssumption == Texts \subseteq Seq(Chunk)

Node == [kind : {"nothing", "folder", "file"}, data : Seq(Chunk)]
Nothing == [kind |-> "nothing", data |-> <<>>]
Folder == [kind |-> "folder", data |-> <<>>]
File(text) == [kind |-> "file", data |-> text]

IsFile(node) == node.kind = "file"
Extended(node, text) == File(node.data \o text)

\* Every text that is left when writing "text" stops before its end.
Cuts(text) == {SubSeq(text, 1, n) : n \in 0 .. Len(text) - 1}

\* The operations of the_disk; those in Recovering call disk_recover first.
Writing == {"write", "append"}
Recovering == Writing \cup {"read", "exists", "remove_file", "rename"}
Direct == {"is_folder", "make_folder", "remove_folder"}
Ops == Recovering \cup Direct

Request(op, p, text, q) == [op |-> op, path |-> p, text |-> text, to |-> q]

Requests ==
    {Request(op, p, <<>>, p) : op \in Ops \ (Writing \cup {"rename"}), p \in Paths}
    \cup {Request(op, p, text, p) : op \in Writing, p \in Paths, text \in Texts}
    \cup {Request("rename", p, <<>>, q) : p \in Paths, q \in Paths}

NoRequest == Request("none", "none", <<>>, "none")

\* How a request ended: with a return code and the text that was read, or
\* because the whole system stopped while the request was being served.
Answers == [how : {"waiting", "returned", "stopped"}, code : {0, 1}, seen : Seq(Chunk)]
Returned(code, seen) == [how |-> "returned", code |-> code, seen |-> seen]
Waiting == [how |-> "waiting", code |-> 0, seen |-> <<>>]
Stopped == [how |-> "stopped", code |-> 0, seen |-> <<>>]
=============================================================================
