SPECIFICATION LoadSpec
CONSTANTS
    Chars <- AllChars
    Files = {}
    Later = {}
    MaxText = 0
    Documents <- SomeDocuments
    Nothing = Nothing
    Loaded = Loaded
    Ids = {i1, i2, i3, i4}
    NoVal = NoVal
    Null = Null
    MaxTokens = 20
INVARIANTS
    WholeDoublesStayDoubles
CHECK_DEADLOCK FALSE
