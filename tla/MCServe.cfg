SPECIFICATION Spec
CONSTANTS
    Request = {p1, p2}
    Admin = {a1}
    Fields = {f1}
    NotFoundField = f1
    OtherField = f1
    NotFound = {nf}
    NotAllowed = {k1}
    Options = {}
    FieldOf <- MCFieldOf
    Nil = Nil
    Overlaps <- MCOverlaps
    MaxAssign = 1
    MaxUse = 1
    MaxRebuild = 1
SYMMETRY Symmetry
INVARIANTS
    TypeOK
    LiveBinding
    ConfigCurrent
    QuietExact
