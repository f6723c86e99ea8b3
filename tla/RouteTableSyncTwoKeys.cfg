\* Two passes over one VPC whose credentials give different lock class keys.
SPECIFICATION Spec
CONSTANTS
    Vpc = {v1}
    ExtId = {x1}
    RouteType = {custom}
    Routes = {r1}
    Cred = {c1, c2}
    Syncer = {s1, s2}
    Editor = {h1}
    MaxRows = 2
    MaxPasses = 2
    MaxEdits = 0
    None = None
    Absent = Absent
SYMMETRY Symmetry
INVARIANTS
    UniqueExternalIds
