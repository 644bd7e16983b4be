SPECIFICATION Spec
CONSTANTS
    id = id  name = name  other = other  v1 = v1  v2 = v2
    Properties = {id, name, other}
    Mapped = {id, name}
    Values = {v1, v2}
    Null = Null
    Clauses <- SomeClauses
    Assignments <- SomeAssignments
    MaxClauses = 3
INVARIANTS RenderInv MeansWhatWasAsked
CHECK_DEADLOCK FALSE
