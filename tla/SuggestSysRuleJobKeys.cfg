\* Rules with names of their own, created as suggestsysrule.go checks them.
SPECIFICATION Spec
CONSTANTS
    Name = {eip, n1}
    Type = {eip, disk, mem}
    Driver = {eip, disk}
    Period = {p30, p60}
    DefaultPeriod = p30
    BadPeriod = BadPeriod
    Empty = Empty
    Missing = Missing
    None = None
    Failed = Failed
    EipUnused = eip
    Setting = {nosetting, st1, junk}
    NoSetting = nosetting
    Decodable = {st1}
    NameChecked = FALSE
    NamedByType = FALSE
    FetchFails = FALSE
INVARIANT
    JobsFollowRules
