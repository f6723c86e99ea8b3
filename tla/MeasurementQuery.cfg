SPECIFICATION Spec
CONSTANTS
    Item = {cpu, mem}
    Tag = {host, vm_id}
    HiddenTag = {vm_id}
    Val = {h1, h2, uuid}
    Unshown = {uuid}
    Window = {w6h}
    DefaultWindow = w6h
    FromSent = {Missing}
    FormSent = {Missing}
    MaxSeries = 2
    Replica = {m1}
    Missing = Missing
    Empty = Empty
    None = None
INVARIANTS
    TypeOK
    AsynAgreesWithSyn
    TagValuesAreTheUnion
    SendNeverBlocks
    DefaultIsUnique
PROPERTIES
    RequestReturns
    ServiceBecomesReady
