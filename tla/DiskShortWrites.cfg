CONSTANTS
    a = a
    b = b
    letters = letters
    diary = diary
    lettersStage = lettersStage
    diaryStage = diaryStage
    Chunk <- MCChunk
    Texts <- MCTexts
    Paths <- MCPaths
    Places <- MCPlaces
    Staging <- MCStaging
    ShortWrites = TRUE
    MaxLength = 2
SPECIFICATION Spec
PROPERTIES OldOrNew
