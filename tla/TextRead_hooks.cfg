SPECIFICATION Spec
CONSTANTS
    c1 = c1
    i1 = i1  i2 = i2  i3 = i3  i4 = i4
    v1 = v1  v2 = v2
    NoName = NoName
    NaN = NaN
    NoVal = NoVal
    Null = Null
    Root = c1
    Configs = {c1}
    Ids = {i1, i2}
    Names = {a}
    OddNames = {}
    Vals = {v1}
    KindOf <- OneKind
    UsedPolicies = {"Overwrite", "ThrowException"}
    UsedHooks = {"null", "hook"}
    MaxHooks = 1
    MaxTokens = 3
    MaxReads = 2
PROPERTIES
    HookProtocol
    ReadKeepsTheContract
    ReadEnds
