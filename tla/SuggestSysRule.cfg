\* Rules named by their type, as the creation of part_003 checks them, and a
\* start that may fail to read the rows.
SPECIFICATION Spec
CONSTANTS
    Name = {eip, disk, mem}
    Type = {eip, disk, mem}
    Driver = {eip, disk}
    Period = {p30, p60, p5m}
    DefaultPeriod = p30
    BadPeriod = BadPeriod
    Empty = Empty
    Missing = Missing
    None = None
    Failed = Failed
    EipUnused = eip
    Setting = {nosetting, st1, junk}
    NoSetting = nosetting
    Decodable = {st1}
    NameChecked = TRUE
    NamedByType = TRUE
    FetchFails = TRUE
INVARIANTS
    TypeOK
    EnabledRuleScheduled
    JobsFollowRules
    FetchedSettingsAreShown
