\* List requests on the disks of two storages and the resources of two
\* clusters, beside the deletion of storages and clusters.
SPECIFICATION Spec
CONSTANTS
    Storage = {sa, sb}
    Cluster = {ca, cb}
    Resource = {d1, d2, d3, g1, g2}
    Zone = {z1, z2}
    Manager = {m1}
    Wire = {w1}
    Column <- MCColumn
    Row <- MCRow
    LocalTypes <- MCLocalTypes
    Field <- MCField
    Null = Null
    Unknown = Unknown
    Nil = Nil
    ErrNotFound = ErrNotFound
    ErrDatabase = ErrDatabase
    sa = sa
    sb = sb
    ca = ca
    cb = cb
    d1 = d1
    d2 = d2
    d3 = d3
    g1 = g1
    g2 = g2
    z1 = z1
    z2 = z2
    m1 = m1
    w1 = w1
INVARIANTS
    TypeOK
    OrderedFieldsAreJoined
PROPERTIES
    ListedIsAsked
    ColumnsAligned
    DistinctIsShown
