SPECIFICATION Spec
CONSTANTS
    c1 = c1
    i1 = i1  i2 = i2  i3 = i3  i4 = i4
    v1 = v1  v2 = v2
    NoName = NoName
    NaN = NaN
    NoVal = NoVal
    Null = Null
    Root = c1
    Configs = {c1}
    Ids = {i1, i2, i3}
    Names = {a}
    OddNames = {o}
    Vals = {v1, NaN}
    KindOf <- OneKind
    UsedPolicies = {"Keep", "Overwrite", "ThrowException"}
    UsedHooks = {}
    MaxHooks = 0
    MaxTokens = 10
    MaxReads = 1
SYMMETRY Symmetry
INVARIANTS
    TypeOK
    GrammarDecides
    ReadsKeepUnique
PROPERTIES
    ReadDelivers
    RefusedWithCause
