------------------------------ MODULE MCFiles ------------------------------
(***************************************************************************)
(* A member, ben, and an administrator, ben2, whose name begins with the   *)
(* other's.  Each may have a note or a folder called x, and one with the   *)
(* name of its stage.                                                      *)
(***************************************************************************)
EXTENDS Files

ben == <<"ben">>
ben2 == <<"ben", "2">>
x == <<"x">>
xStage == <<"x", ".ern-new">>

MCPieces == {"home", "ben", "2", "x", ".ern-new"}
MCPeople == {ben, ben2}
MCAdmins == {ben2}
MCPlaces ==
    {Append(Home(ben2), x), Append(Home(ben2), xStage), Home(ben)}
    \cup {Home(ben) \o rest : rest \in {<<x>>, <<xStage>>, <<x, x>>, <<xStage, x>>}}
=============================================================================
