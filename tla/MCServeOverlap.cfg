SPECIFICATION Spec
CONSTANTS
    Request = {p1, p2}
    Admin = {a1}
    Fields = {}
    NotFoundField = f1
    OtherField = f1
    NotFound = {}
    NotAllowed = {}
    Options = {}
    FieldOf <- MCFieldOf
    Nil = Nil
    Overlaps <- AnyOverlap
    MaxAssign = 0
    MaxUse = 2
    MaxRebuild = 1
INVARIANTS
    RedirectCurrent
PROPERTIES
    GenerationsGrow
    Answered
