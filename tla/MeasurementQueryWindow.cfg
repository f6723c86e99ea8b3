SPECIFICATION Spec
CONSTANTS
    Item = {cpu}
    Tag = {host}
    HiddenTag = {}
    Val = {h1}
    Unshown = {}
    Window = {w6h, w1h}
    DefaultWindow = w6h
    FromSent = {w1h, Missing}
    FormSent = {Missing}
    MaxSeries = 1
    Replica = {m1}
    Missing = Missing
    Empty = Empty
    None = None
INVARIANT
    WindowIsTheOneAsked
