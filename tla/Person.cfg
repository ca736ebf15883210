\* Three people and the three faces; one word of each sort there is a rule for;
\* two words and a blank line in notes of up to three lines; a member and an
\* administrator with up to three notes and folders.
CONSTANTS
    Faces = {"glass", "desktop", "plain"}
    Names = {"ann", "bo", "cy"}
    First = "ann"
    NoName = "nobody"
    Vocabulary = {"please", "note", "folder", "person", "make", "move", "go", "look",
                  "called", "to", "in", "saying", "hello"}
    MaxWords = 4
    Words = {"one", "two", "blank"}
    Blank = "blank"
    MaxLines = 3
    Nobody = Nobody
    MaxThings = 6
    Texts = {"hello"}
    Pieces <- MCPieces
    People <- MCPeople
    Admins <- MCAdmins
    Places <- MCPlaces
\* The bound ends the sentences, and people leave the note editor.
CHECK_DEADLOCK FALSE
SPECIFICATION PersonSpec
INVARIANTS ScreenIsTheirs PaddingIsPadding NamesAreReached ShownIsStored
PROPERTIES SilenceIsNoAnswer CloseEnds NothingIsLostUnwarned SavedThingsStay MembersChangeTheirHome
