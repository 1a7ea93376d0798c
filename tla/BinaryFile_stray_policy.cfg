SPECIFICATION Spec
CONSTANTS
    c1 = c1  c2 = c2
    i1 = i1  i2 = i2  i3 = i3  i4 = i4  i5 = i5  i6 = i6
    v1 = v1
    NoName = NoName
    NaN = NaN
    NoVal = NoVal
    Null = Null
    Source = c1
    Loaded = c2
    Configs = {c1, c2}
    Ids = {i1, i2, i3, i4}
    Names = {a, b}
    OddNames = {}
    Vals = {v1}
    KindOf <- OneKind
    UsedKinds = {"Value", "Group"}
    UsedPolicies = {"Keep", "ThrowException"}
    MaxItems = 2
    MaxDamaged = 2
    MaxKids = 2
INVARIANT
    LoadedNamesUnique
