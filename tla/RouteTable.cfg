\* One route table, requests with up to two routes or cidrs.
SPECIFICATION Spec
CONSTANTS
    Subnet = {n1}
    Host = {a1}
    RouteType = {custom, system}
    System = system
    MaxLen = 2
    CloudRoutes <- MCCloudRoutes
    Invalid = Invalid
    Missing = Missing
    Rejected = Rejected
    NoRoute = NoRoute
INVARIANTS
    TypeOK
    StoredCidrsNormal
    RequestsTakeEffect
PROPERTIES
    ImplementsRouteMap
