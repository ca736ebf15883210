------------------------------- MODULE MCDisk -------------------------------
(* A small instance of Disk for TLC: texts of at most two pieces. *)
EXTENDS Disk, TLC

CONSTANTS letters, diary, lettersStage, diaryStage, a, b

MCPaths == {letters, diary}
MCPlaces == {letters, diary, lettersStage, diaryStage}
MCStaging == (letters :> lettersStage) @@ (diary :> diaryStage)
MCChunk == {a, b}
MCTexts == {<<a>>, <<a, b>>}
=============================================================================
