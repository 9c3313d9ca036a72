SPECIFICATION Spec
CONSTANTS
    Request = {p1, p2}
    Admin = {a1}
    Fields = {f1, f2}
    NotFoundField = f1
    OtherField = f2
    NotFound = {nf}
    NotAllowed = {k1}
    Options = {}
    FieldOf <- MCFieldOf
    Nil = Nil
    Overlaps <- RebuildOverlaps
    MaxAssign = 1
    MaxUse = 0
    MaxRebuild = 1
SYMMETRY Symmetry
INVARIANTS
    RebuildTakesEffect
