\* Sharing with domains, then with projects.
SPECIFICATION Spec
CONSTANTS
    Project = {p1, p2}
    Domain = {d1, d2}
    OwnerProject = p1
    OwnerDomain = d1
    ResourceScope = {"project", "domain", "system"}
    None = None
PROPERTY
    PublicLeavesSharesOfItsScope
