SPECIFICATION Spec
CONSTANTS
    c1 = c1  c2 = c2
    i1 = i1  i2 = i2  i3 = i3  i4 = i4
    v1 = v1  v2 = v2
    NoName = NoName
    NaN = NaN
    NoVal = NoVal
    Null = Null
    Configs = {c1}
    Ids = {i1, i2, i3}
    Names = {a}
    OddNames = {}
    Vals = {v1, NaN}
    KindOf <- TwoKinds
    UsedKinds = {"Value", "List"}
    UsedPolicies = {"Overwrite"}
    MaxKids = 2
    MaxPath = 1
    MaxIndex = 2
    MayNest = FALSE
SYMMETRY Symmetry
INVARIANTS
    DistinctListValues
