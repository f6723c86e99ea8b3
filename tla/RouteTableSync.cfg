\* Two passes that share one lock class key, over two VPCs that hold the
\* same external ids, beside one request that edits the routes of a row.
SPECIFICATION Spec
CONSTANTS
    Vpc = {v1, v2}
    ExtId = {x1, x2}
    RouteType = {custom, system}
    Routes = {r1, r2}
    Cred = {c1}
    Syncer = {s1, s2}
    Editor = {h1}
    MaxRows = 4
    MaxPasses = 2
    MaxEdits = 1
    None = None
    Absent = Absent
INVARIANTS
    TypeOK
    UniqueExternalIds
    PassConverges
    ResultFaithful
PROPERTIES
    ScopeIsolation
    PassTerminates
