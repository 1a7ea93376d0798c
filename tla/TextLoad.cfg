SPECIFICATION LoadSpec
CONSTANTS
    Chars <- AllChars
    Files <- Beginnings
    Later <- Alphabet
    MaxText = 7
    Documents <- SomeDocuments
    Nothing = Nothing
    Loaded = Loaded
    Ids = {i1, i2, i3, i4}
    NoVal = NoVal
    Null = Null
    MaxTokens = 20
INVARIANTS
    TypeOK
    NothingLost
    LinesCounted
    SavedIsLoaded
PROPERTIES
    LoadEnds
    KeepsThePromise
CHECK_DEADLOCK FALSE
