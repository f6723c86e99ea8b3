----------------------------- MODULE RouteTable -----------------------------
(***************************************************************************)
(* The API requests on one route table: creation, update, add-routes,      *)
(* del-routes and purge, with the validation of routes                     *)
(* (src/pkg/compute/models/loadbalancerclusterresource.go, lines 260-589), *)
(* beside the writes of a sync pass to the same row (lines 674-766).       *)
(*                                                                         *)
(* The API framework runs every request on a row under the row's object    *)
(* lock, so a request is one step.  A destination is written in a request  *)
(* as a text; what matters of a text is the destination it denotes and     *)
(* whether it is written the way the parser prints it.                     *)
(***************************************************************************)
EXTENDS Naturals, Sequences, SequencesExt

CONSTANTS
    Subnet,     \* destinations that are networks: written with a prefix
    Host,       \* destinations that are single addresses
    RouteType,  \* values of SRoute.Type
    System,     \* the type "system"
    MaxLen,     \* bound: routes or cidrs in one request
    CloudRoutes, \* the lists of routes a provider reports for the table
    Invalid,    \* a text that is neither a CIDR nor an IPv4 address
    Missing,    \* the request has no such key
    Rejected,   \* a validation that returned an error
    NoRoute     \* no route to a destination

ASSUME /\ System \in RouteType
       /\ MaxLen \in Nat
       /\ Subnet \cap Host = {}

VARIABLES
    status,    \* of the row: "absent", "live" or "deleted"
    routes,    \* SRouteTable.Routes, a sequence of routes
    provider,  \* the cloud provider of the row: "none", "enabled", "disabled"
    last       \* the last request: its kind and the routes it named

vars == <<status, routes, provider, last>>

\* "10.0.1.0/24", "10.0.1.3/24"; "10.0.0.1/32", "10.0.0.1"
CidrText ==
    (Subnet \X {"canon", "hostbits"}) \cup (Host \X {"canon", "plain"})
        \cup {Invalid}

Route == [type : RouteType, cidr : CidrText]

Ops ==
    {"none", "create", "update", "add-routes", "del-routes", "purge", "sync"}

ASSUME \A rs \in CloudRoutes : rs \in Seq(Route)

\* A text as the table is meant to hold it.
IsNormal(t) == t # Invalid /\ t[2] # "hostbits"

Key == {t \in CidrText : IsNormal(t)}

-----------------------------------------------------------------------------
(* Validation *)

NormalizeIdentity(t) == t

NormalizeToAddress(t) == IF t[2] = "hostbits" THEN t[1] ELSE t

\* net.ParseCIDR and ipNet.String() for a text with a "/": the host bits
\* are cleared.  A text without "/" is kept as it is written.
Normalize(t) == IF t[2] = "hostbits" THEN <<t[1], "canon">> ELSE t

\* SRoute.Validate: the route with its Cidr normalised, or an error.
SRouteValidate(r) ==
    IF r.cidr = Invalid THEN Rejected ELSE [r EXCEPT !.cidr = Normalize(@)]

\* SRoutes.Validate: every route is validated, and no Cidr may occur twice
\* among the validated ones.
SRoutesValidate(rs) ==
    LET valid == [i \in DOMAIN rs |-> SRouteValidate(rs[i])]
    IN  IF \/ \E i \in DOMAIN rs : valid[i] = Rejected
           \/ \E i, j \in DOMAIN rs : i < j /\ valid[i].cidr = valid[j].cidr
        THEN Rejected
        ELSE valid

\* validateRoutes, and the StructValidator of add-routes: a missing key is
\* an error unless the key is optional; the validated value replaces the
\* one of the request.
ValidateRoutes(req, optional) ==
    CASE req # Missing -> SRoutesValidate(req)
      [] optional      -> Missing
      [] OTHER         -> Rejected

-----------------------------------------------------------------------------
(* The loops of add-routes and del-routes *)

\* A route is appended unless the table has a route with its Cidr.
AddOne(rs, add) ==
    IF \E i \in DOMAIN rs : rs[i].cidr = add.cidr THEN rs ELSE Append(rs, add)

DelOneAnyType(rs, cidr) ==
    LET i == SelectLastInSeq(rs, LAMBDA r : r.cidr = cidr)
    IN  IF i = 0 THEN rs ELSE RemoveAt(rs, i)

DelOneUpToSystem(rs, cidr) ==
    LET i == SelectLastInSeq(rs, LAMBDA r : r.type = System \/ r.cidr = cidr)
    IN  IF i = 0 \/ rs[i].type = System THEN rs ELSE RemoveAt(rs, i)

\* The last route with the Cidr that is not a system route is removed.
DelOne(rs, cidr) ==
    LET i == SelectLastInSeq(rs, LAMBDA r : r.type # System /\ r.cidr = cidr)
    IN  IF i = 0 THEN rs ELSE RemoveAt(rs, i)

-----------------------------------------------------------------------------
Init ==
    /\ status = "absent"
    /\ routes = <<>>
    /\ provider = "none"
    /\ last = [op |-> "none", arg |-> Missing]

Requests(S) == BoundedSeq(S, MaxLen) \cup {Missing}

\* A list of routes as a map from destinations to route types.
AsMap(rs) ==
    [k \in Key |->
        IF \E i \in DOMAIN rs : rs[i].cidr = k
        THEN rs[CHOOSE i \in DOMAIN rs : rs[i].cidr = k].type
        ELSE NoRoute]

\* The destinations a list of cidrs names to a table that holds normal
\* forms: PerformDelRoutes compares the texts as they are written.
AsKeys(cidrs) == [k \in Key |-> k \in Range(cidrs)]

\* The request returns an error, and nothing was written.
Refuse(op) ==
    /\ last' = [op |-> op, arg |-> Missing]
    /\ UNCHANGED <<status, routes, provider>>

\* db.Update can fail, and then nothing is written.
Write(op, arg, rs) ==
    \/ Refuse(op)
    \/ /\ routes' = rs
       /\ last' = [op |-> op, arg |-> arg]
       /\ UNCHANGED <<status, provider>>

\* ValidateCreateData and the insert of the row: the routes are required;
\* the vpc may not be found, its region may not be found, the input may
\* fail to unmarshal or to pass the validation of the base, the insert may
\* fail.
CreateRouteTable(req) ==
    /\ status # "live"
    /\ LET valid == ValidateRoutes(req, FALSE)
       IN  \/ Refuse("create")
           \/ /\ valid # Rejected
              /\ status' = "live"
              /\ routes' = valid
              /\ last' = [op |-> "create", arg |-> AsMap(valid)]
              /\ UNCHANGED provider

\* ValidateUpdateData and the update of the row: routes are optional, and
\* the validation of the base may fail.
UpdateRouteTable(req) ==
    /\ status = "live"
    /\ LET valid == ValidateRoutes(req, TRUE)
       IN  \/ Refuse("update")
           \/ /\ valid # Rejected
              /\ LET rs == IF valid = Missing THEN routes ELSE valid
                 IN  Write("update", AsMap(rs), rs)

PerformAddRoutes(req) ==
    /\ status = "live"
    /\ LET adds == ValidateRoutes(req, TRUE)
       IN  \/ adds = Rejected /\ Refuse("add-routes")
           \/ /\ adds # Rejected
              /\ LET rs == IF adds = Missing THEN <<>> ELSE adds
                 IN  Write("add-routes", AsMap(rs), FoldLeft(AddOne, routes, rs))

\* The cidrs of the request are compared as they are written.
PerformDelRoutes(cidrs) ==
    /\ status = "live"
    /\ \/ cidrs = Missing /\ Refuse("del-routes")
       \/ /\ cidrs # Missing
          /\ Write("del-routes", AsKeys(cidrs), FoldLeft(DelOne, routes, cidrs))

\* RealDelete: the row is gone, and its routes with it.
RealDelete(op) ==
    \/ Refuse(op)
    \/ /\ status' = "deleted"
       /\ routes' = <<>>
       /\ last' = [op |-> op, arg |-> Missing]
       /\ UNCHANGED provider

\* PerformPurge: refused while the delete condition fails or the row's
\* cloud provider is enabled.
PerformPurge ==
    /\ status = "live"
    /\ \/ Refuse("purge")
       \/ provider # "enabled" /\ RealDelete("purge")

\* The credential of a caller, as the checks of the requests see it.
Credential == [owner : BOOLEAN, admin : BOOLEAN]

\* AllowPerformPurge: administrators only.
AllowPerformPurge(cred) == cred.admin

\* AllowPerformAddRoutes: the owner of the table, or an administrator.
AllowPerformAddRoutes(cred) == cred.owner \/ cred.admin

AllowPerformDelRoutes(cred) == AllowPerformAddRoutes(cred)

AllowPerform ==
    [op \in {"add-routes", "del-routes", "purge"} |->
        CASE op = "add-routes" -> {c \in Credential : AllowPerformAddRoutes(c)}
          [] op = "del-routes" -> {c \in Credential : AllowPerformDelRoutes(c)}
          [] op = "purge"      -> {c \in Credential : AllowPerformPurge(c)}]

\* A request of a caller the check does not admit is answered before
\* PerformAddRoutes, PerformDelRoutes or PerformPurge runs.
Forbidden(op, cred) ==
    /\ status = "live"
    /\ cred \notin AllowPerform[op]
    /\ Refuse(op)

-----------------------------------------------------------------------------
(* The writes of a sync pass to this row *)

\* SyncWithCloudRouteTable: the routes the cloud reported replace the
\* column as they are, without SRoutes.Validate; newRouteTableFromCloud
\* (GetIRoutes, GenerateName) or the update may fail.
SyncWithCloudRouteTable(cloud) ==
    status = "live" /\ Write("sync", AsMap(cloud), cloud)

\* insertFromCloud: a row with the routes the cloud reported.
InsertFromCloud(cloud) ==
    /\ status # "live"
    /\ \/ Refuse("sync")
       \/ /\ status' = "live"
          /\ routes' = cloud
          /\ last' = [op |-> "sync", arg |-> AsMap(cloud)]
          /\ UNCHANGED provider

\* syncRemoveCloudRouteTable: the cloud has the table no longer;
\* ValidateDeleteCondition may refuse.
SyncRemoveCloudRouteTable == status = "live" /\ RealDelete("sync")

\* The account of the row is attached, enabled or disabled elsewhere.
SetProvider(p) ==
    /\ provider # p
    /\ provider' = p
    /\ UNCHANGED <<status, routes, last>>

Next ==
    \/ \E req \in Requests(Route) :
          CreateRouteTable(req) \/ UpdateRouteTable(req) \/ PerformAddRoutes(req)
    \/ \E cidrs \in Requests(CidrText) : PerformDelRoutes(cidrs)
    \/ PerformPurge
    \/ \E op \in DOMAIN AllowPerform, cred \in Credential : Forbidden(op, cred)
    \/ \E cloud \in CloudRoutes :
          SyncWithCloudRouteTable(cloud) \/ InsertFromCloud(cloud)
    \/ SyncRemoveCloudRouteTable
    \/ \E p \in {"none", "enabled", "disabled"} : SetProvider(p)

Spec == Init /\ [][Next]_vars

-----------------------------------------------------------------------------
(* Properties *)

\* The table as the route map of RouteMap, and the last request with what
\* it named.
RM == INSTANCE RouteMap
          WITH alive <- (status = "live"), rmap <- AsMap(routes),
               op <- last.op, arg <- last.arg, NoArg <- Missing

TypeOK ==
    /\ status \in {"absent", "live", "deleted"}
    /\ routes \in Seq(Route)
    /\ provider \in {"none", "enabled", "disabled"}
    /\ last \in [op : Ops, arg : RM!RouteMaps \cup RM!KeySets \cup {Missing}]

\* Whatever sequence of requests and sync passes built it, the table holds
\* at most one route per Cidr and every Cidr in normal form, so that the
\* comparisons by text in PerformAddRoutes and PerformDelRoutes compare
\* destinations (SRoute.Validate normalises, SRoutes.Validate rejects
\* duplicates after normalising, PerformAddRoutes skips the Cidrs the table
\* has, SyncWithCloudRouteTable replaces the column by what the provider
\* reported).
StoredCidrsNormal ==
    \A i \in DOMAIN routes :
        /\ IsNormal(routes[i].cidr)
        /\ \A j \in DOMAIN routes : routes[i].cidr = routes[j].cidr => i = j

\* A request that is carried out has its whole effect, whatever requests
\* and sync passes built the table: after del-routes no route that is not a
\* system route carries a Cidr the request named, although the scan removes
\* one route per Cidr and stops; after add-routes every Cidr of the request
\* has exactly one route, the routes the table had are where they were, and
\* a route is new only if the request named it (the loops of
\* PerformDelRoutes and PerformAddRoutes, which rely on the table holding
\* each Cidr once).
RequestsTakeEffect ==
    /\ \A cidrs \in BoundedSeq(CidrText, MaxLen) :
          LET left == FoldLeft(DelOne, routes, cidrs)
          IN  \A i \in DOMAIN left :
                 left[i].type # System => left[i].cidr \notin Range(cidrs)
    /\ \A req \in BoundedSeq(Route, MaxLen) :
          LET adds == SRoutesValidate(req)
              now  == IF adds = Rejected THEN routes
                                         ELSE FoldLeft(AddOne, routes, adds)
          IN  /\ IsPrefix(routes, now)
              /\ adds # Rejected =>
                    /\ \A a \in Range(adds) :
                          Cardinality({i \in DOMAIN now : now[i].cidr = a.cidr}) = 1
                    /\ \A i \in DOMAIN now :
                          i > Len(routes) => now[i] \in Range(adds)


\* The requests implement the route map, each step with the routes its
\* request named: add-routes never changes the route of a destination the
\* table has and gives every other destination it names the route it names
\* for it; del-routes removes the destinations it names in the form the
\* table stores, never a system route and no destination it does not name,
\* whatever the order and the length of the lists and whatever a sync pass
\* wrote between two requests (the scans of PerformAddRoutes and
\* PerformDelRoutes); create, update and a sync pass leave the routes they
\* were given; a refused request and a failed update leave the table as it
\* was.
ImplementsRouteMap == RM!RMSpec

=============================================================================
