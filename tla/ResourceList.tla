---------------------------- MODULE ResourceList ----------------------------
(***************************************************************************)
(* Listing the rows of a resource that belongs to a parent: the disks of a *)
(* storage (src/pkg/compute/models/storageresource.go, with the input      *)
(* types of src/pkg/apis/compute/disk.go) and the resources of a load      *)
(* balancer cluster (SLoadbalancerClusterResourceBase, the first part of   *)
(* src/pkg/compute/models/loadbalancerclusterresource.go).                 *)
(*                                                                         *)
(* A list request is answered in three reads of the database:              *)
(*   ListItemFilter         resolves the parent the request names and      *)
(*                          builds the query, with a subquery on the       *)
(*                          parents' table for the filters on their zone,  *)
(*                          manager, wire and type;                        *)
(*   the query              gives the rows;                                *)
(*   FetchCustomizeColumns  fetches the parents of those rows and fills    *)
(*                          one info per row.                              *)
(* Parents are deleted beside it.  QueryDistinctExtraField lists the       *)
(* values one field takes.                                                 *)
(*                                                                         *)
(* The columns of the tables are constants; which parents exist is state.  *)
(***************************************************************************)
EXTENDS Naturals, Sequences, FiniteSets, SequencesExt

CONSTANTS
    Storage,     \* ids of the rows of storages_tbl
    Cluster,     \* ids of the rows of loadbalancerclusters_tbl
    Resource,    \* rows with a column storage_id or cluster_id
    Zone,
    Manager,     \* cloud providers (storages)
    Wire,        \* wires (clusters)
    Column,      \* Resource -> its storage_id or cluster_id, or Null
    Row,         \* parent -> [zone, manager or wire, type]
    LocalTypes,  \* api.STORAGE_LOCAL_TYPES
    Field,       \* names QueryDistinctExtraField is asked for
    Null,        \* "", NULL, nil
    Unknown,     \* an id or name no row has
    Nil,         \* a nil slice
    ErrNotFound,
    ErrDatabase  \* any other error of a read

Parent == Storage \cup Cluster

Kind == {"storage", "cluster"}

ParentsOf(kind) == IF kind = "storage" THEN Storage ELSE Cluster

ASSUME /\ Storage \cap Cluster = {}
       /\ Column \in [Resource -> Parent \cup {Null}]
       /\ DOMAIN Row = Parent

VARIABLES
    live,   \* the parents whose row exists
    pc,     \* "idle", "filtered", "listed", "returned"
    call,   \* the request: [kind, query]
    q,      \* the query ListItemFilter built, or its error
    objs,   \* the rows the query gave, in the order it gave them
    rows    \* what the request returned

vars == <<live, pc, call, q, objs, rows>>

\* The rows of the resource of a kind: a disk has a storage_id (nullable), a
\* resource of a cluster a cluster_id.
ResourcesOf(kind) ==
    {r \in Resource : Column[r] \in ParentsOf(kind) \cup {Null}}

Tri == {Null, TRUE, FALSE}

Order == {Null, "asc"}

\* api.StorageFilterListInput with api.StorageShareFilterListInput, and
\* api.LoadbalancerClusterFilterListInput: parent is the id or name asked
\* for, other the manager or the wire.
Query == [parent : Parent \cup {Unknown, Null}, zone : Zone \cup {Unknown, Null},
          other : Manager \cup Wire \cup {Null}, share : Tri, local : Tri]

\* The queries a request of a kind can carry: a cluster has a wire and no
\* manager, and no filter on a type.
QueriesOf(kind) ==
    {m \in Query :
        /\ m.parent \in ParentsOf(kind) \cup {Unknown, Null}
        /\ m.other \in (IF kind = "storage" THEN Manager ELSE Wire) \cup {Null}
        /\ kind = "cluster" => m.share = Null /\ m.local = Null}

\* order_by_zone, order_by_manager (a storage's only) and order_by_storage or
\* order_by_cluster.
OrderQuery == [orderZone : Order, orderOther : Order, orderParent : Order]

OrdersOf(kind) == {o \in OrderQuery : kind = "cluster" => o.orderOther = Null}

-----------------------------------------------------------------------------
(* FetchCustomizeColumns *)

\* api.StorageResourceInfo and api.LoadbalancerClusterResourceInfo.
NoInfo == [parent |-> Null, type |-> Null, zone |-> Null, other |-> Null]

InfoOf(p) == [parent |-> p, type |-> Row[p].type, zone |-> Row[p].zone,
              other |-> Row[p].other]

\* storageIds[i], clusterIds[i]: the column of the object, "" for one that
\* has no such base.
ParentIds(os) == [i \in DOMAIN os |-> IF os[i] \in Resource THEN Column[os[i]] ELSE Null]

FilledSkippingOrphans(os, found) ==
    SelectSeq([i \in DOMAIN os |-> IF ParentIds(os)[i] \in found
                                   THEN InfoOf(ParentIds(os)[i]) ELSE NoInfo],
              LAMBDA info : info # NoInfo)

\* The loop over rows: the info of the parent, and an empty one for a row
\* whose parent was not fetched.
Filled(os, found) ==
    [i \in DOMAIN os |-> IF ParentIds(os)[i] \in found
                         THEN InfoOf(ParentIds(os)[i]) ELSE NoInfo]

\* SStorageResourceBaseManager.FetchCustomizeColumns: nil when the storages
\* cannot be fetched.
StorageColumns(os, fetched) == IF fetched THEN Filled(os, live) ELSE Nil

\* SLoadbalancerClusterResourceBaseManager.FetchCustomizeColumns: empty
\* infos, one per object, when the clusters cannot be fetched.
ClusterColumns(os, fetched) == Filled(os, IF fetched THEN live ELSE {})

-----------------------------------------------------------------------------
(* ListItemFilter *)

\* FetchByIdOrName of the parents' manager: the row of that id or name,
\* sql.ErrNoRows, or another error.
FetchByIdOrName(kind, key) ==
    IF key \in live \cap ParentsOf(kind) THEN key ELSE ErrNotFound

FetchOutcomesUnchecked(kind, key) == {key, ErrDatabase}

FetchOutcomes(kind, key) == {FetchByIdOrName(kind, key), ErrDatabase}

Errors == {ErrNotFound, ErrDatabase}

\* query.Share and query.Local are pointers: a condition is added for true
\* only.
IsTrue(b) == b # Null /\ b

\* The conditions the filters of the zone and of the manager or wire add to
\* the subquery.
BaseFilters(query, p) ==
    /\ query.zone # Null => Row[p].zone = query.zone
    /\ query.other # Null => Row[p].other = query.other

\* They resolve what they are given and fail when there is none of that id
\* or name.
BaseFilterFails(query) == query.zone = Unknown

\* The storages the subquery selects when the query runs.
StorageSubQuery(query) ==
    {p \in live \cap Storage :
        /\ BaseFilters(query, p)
        /\ IsTrue(query.share) => Row[p].type \notin LocalTypes
        /\ IsTrue(query.local) => Row[p].type \in LocalTypes}

\* The clusters the subquery selects when the query runs.
ClusterSubQuery(query) == {p \in live \cap Cluster : BaseFilters(query, p)}

AlteredAlways(query) == TRUE

\* subq.IsAltered(): some filter added a condition to the subquery on the
\* storages.
StorageAltered(query) ==
    query.zone # Null \/ query.other # Null \/ IsTrue(query.share) \/ IsTrue(query.local)

\* subq.IsAltered() of the subquery on the clusters.
ClusterAltered(query) == query.zone # Null \/ query.other # Null

\* What both ListItemFilter return, read being what FetchByIdOrName gave: an
\* error, or the query: the parent the rows must have, and whether they must
\* be among the subquery's.
Built(query, read, altered) ==
    CASE query.parent # Null /\ read \in Errors -> read
      [] BaseFilterFails(query)                 -> ErrNotFound
      [] OTHER -> [equals  |-> IF query.parent = Null THEN Null ELSE read,
                   altered |-> altered]

StorageListItemFilter(query, read) == Built(query, read, StorageAltered(query))

ClusterListItemFilter(query, read) == Built(query, read, ClusterAltered(query))

\* The rows of the resource the query gives when it runs.
Selected(kind, query, built) ==
    {r \in ResourcesOf(kind) :
        /\ built.equals # Null => Column[r] = built.equals
        /\ built.altered => Column[r] \in (IF kind = "storage" THEN StorageSubQuery(query)
                                                               ELSE ClusterSubQuery(query))}

-----------------------------------------------------------------------------
(* OrderByExtraFields *)

\* db.NeedOrderQuery: some field asks for an order.
NeedOrderQuery(fields) == \E i \in DOMAIN fields : fields[i] # Null

\* GetOrderBySubQuery of the base of the zone or of the manager: its orders.
BaseOrders(name, by) == IF NeedOrderQuery(<<by>>) THEN <<<<name, by>>>> ELSE <<>>

StorageOrderByFieldsOwn(order) == <<order.orderParent>>

\* SStorageResourceBaseManager.GetOrderByFields: the fields of the zone, of
\* the manager, and order_by_storage.
StorageOrderByFields(order) ==
    <<order.orderZone>> \o <<order.orderOther>> \o <<order.orderParent>>

\* SLoadbalancerClusterResourceBaseManager.GetOrderByFields: the fields of
\* the zone, and order_by_cluster.
ClusterOrderByFields(order) == <<order.orderZone>> \o <<order.orderParent>>

\* The end of both GetOrderBySubQuery: the parents' table is joined when
\* some field asks for an order, and the order on the parent's name is added
\* to those of the bases.
JoinedAndOrdered(name, order, fields, orders) ==
    LET joined == NeedOrderQuery(fields)
    IN  [joined |-> joined,
         orders |-> IF joined THEN orders \o BaseOrders(name, order.orderParent) ELSE orders]

StorageOrderBySubQuery(order) ==
    JoinedAndOrdered("storage", order, StorageOrderByFields(order),
                     BaseOrders("zone", order.orderZone) \o BaseOrders("manager", order.orderOther))

ClusterOrderBySubQuery(order) ==
    JoinedAndOrdered("cluster", order, ClusterOrderByFields(order),
                     BaseOrders("zone", order.orderZone))

\* OrderByExtraFields: the query with the join and the orders.
OrderByExtraFields(kind, order) ==
    IF kind = "storage" THEN StorageOrderBySubQuery(order) ELSE ClusterOrderBySubQuery(order)

-----------------------------------------------------------------------------
(* QueryDistinctExtraField *)

\* q.LeftJoin: every row, with NULL for the parent of a row that has none.
LeftJoin(kind) == ResourcesOf(kind)

InnerJoinAsLeft(kind) == LeftJoin(kind)

\* q.Join: the rows whose parent exists.
InnerJoin(kind) == {r \in ResourcesOf(kind) : Column[r] \in live}

\* The value of a column of the parent joined to row r.
Joined(r, column) == IF Column[r] \in live THEN InfoOf(Column[r])[column] ELSE Null

\* The column of the parents' table a field is read from.
ColumnOf(f) ==
    CASE f \in {"storage", "cluster"} -> "parent"
      [] f = "storage_type"           -> "type"
      [] f = "zone"                   -> "zone"
      [] f \in {"manager", "wire"}    -> "other"

\* The resource's own fields: a join and a GROUP BY.
OwnDistinct(kind, f) == {Joined(r, ColumnOf(f)) : r \in InnerJoin(kind)}

\* QueryDistinctExtraField of the base of the zone, the manager or the wire:
\* it joins its own table to the query, which drops the rows that have none.
BaseDistinct(kind, f) == {Joined(r, ColumnOf(f)) : r \in LeftJoin(kind)} \ {Null}

StorageDistinct(f) ==
    CASE f \in {"storage", "storage_type"} -> OwnDistinct("storage", f)
      [] f \in {"manager", "zone"}         -> BaseDistinct("storage", f)
      [] OTHER                             -> ErrNotFound

ClusterDistinct(f) ==
    CASE f = "cluster"          -> OwnDistinct("cluster", f)
      [] f \in {"zone", "wire"} -> BaseDistinct("cluster", f)
      [] OTHER                  -> ErrNotFound

-----------------------------------------------------------------------------
(* The requests *)

Init ==
    /\ live = Parent
    /\ pc = "idle"
    /\ call = Null
    /\ q = Null
    /\ objs = <<>>
    /\ rows = Null

\* ListItemFilter, then OrderByExtraFields: neither reads the rows of the
\* resource.  An error ends the request.
Filter(kind, query, order) ==
    \E read \in FetchOutcomes(kind, query.parent) :
    LET built == IF kind = "storage" THEN StorageListItemFilter(query, read)
                                     ELSE ClusterListItemFilter(query, read)
        by    == OrderByExtraFields(kind, order)
    IN  /\ pc = "idle"
        /\ call' = [kind |-> kind, query |-> query]
        /\ IF built \in Errors
           THEN pc' = "returned" /\ rows' = built /\ q' = Null
           ELSE /\ pc' = "filtered"
                /\ q' = [equals |-> built.equals, altered |-> built.altered,
                         joined |-> by.joined, orders |-> by.orders]
                /\ rows' = Null
        /\ UNCHANGED <<live, objs>>

\* The query runs: the rows come in the order the database gives them.
Run ==
    /\ pc = "filtered"
    /\ objs' \in SetToSeqs(Selected(call.kind, call.query, q))
    /\ pc' = "listed"
    /\ q' = Null
    /\ UNCHANGED <<live, call, rows>>

\* FetchCustomizeColumns of the rows listed.
Details ==
    /\ pc = "listed"
    /\ \E fetched \in BOOLEAN :
          rows' = IF call.kind = "storage" THEN StorageColumns(objs, fetched)
                                           ELSE ClusterColumns(objs, fetched)
    /\ pc' = "returned"
    /\ UNCHANGED <<live, call, q, objs>>

\* A request for the values of one field.
Distinct(kind, f) ==
    /\ pc = "idle"
    /\ call' = [kind |-> kind, field |-> f]
    /\ rows' = IF kind = "storage" THEN StorageDistinct(f) ELSE ClusterDistinct(f)
    /\ pc' = "returned"
    /\ UNCHANGED <<live, q, objs>>

\* The next request.
Forget ==
    /\ pc = "returned"
    /\ pc' = "idle"
    /\ call' = Null /\ q' = Null /\ objs' = <<>> /\ rows' = Null
    /\ UNCHANGED live

\* A storage or a cluster is deleted; the rows that name it stay.
Delete(p) ==
    /\ p \in live
    /\ live' = live \ {p}
    /\ UNCHANGED <<pc, call, q, objs, rows>>

Next ==
    \/ \E kind \in Kind : \E query \in QueriesOf(kind), order \in OrdersOf(kind) :
          Filter(kind, query, order)
    \/ Run
    \/ Details
    \/ \E kind \in Kind, f \in Field : Distinct(kind, f)
    \/ Forget
    \/ \E p \in Parent : Delete(p)

Spec == Init /\ [][Next]_vars

-----------------------------------------------------------------------------
(* Properties *)

Infos == [parent : Parent \cup {Null}, type : {Row[p].type : p \in Parent} \cup {Null},
          zone : Zone \cup {Null}, other : Manager \cup Wire \cup {Null}]

\* What a column of the parents' table can hold.
Values == Parent \cup Zone \cup Manager \cup Wire \cup {Row[p].type : p \in Parent}

\* The request is one for the values of a field.
IsDistinct == call # Null /\ "field" \in DOMAIN call

TypeOK ==
    /\ live \subseteq Parent
    /\ pc \in {"idle", "filtered", "listed", "returned"}
    /\ call \in {Null} \cup [kind : Kind, query : Query] \cup [kind : Kind, field : Field]
    /\ q \in {Null} \cup [equals : Parent \cup {Null}, altered : BOOLEAN, joined : BOOLEAN,
                          orders : Seq((Kind \cup {"zone", "manager"}) \X Order)]
    /\ objs \in Seq(Resource)
    /\ IF IsDistinct
       THEN rows = ErrNotFound \/ rows \subseteq Values
       ELSE rows \in {Null, Nil} \cup Errors \/ rows \in Seq(Infos)

\* What the details of a row show now.
Shown(r) == IF Column[r] \in live THEN InfoOf(Column[r]) ELSE NoInfo

\* The rows a request asks for, said with what their details show: the rows
\* of the parent named, whose zone and manager or wire are the ones named, on
\* a storage that is not local when share is asked and on a local one when
\* local is asked.
Asked(kind, query) ==
    {r \in ResourcesOf(kind) :
        /\ query.parent # Null => Column[r] = query.parent
        /\ query.zone # Null => Shown(r).zone = query.zone
        /\ query.other # Null => Shown(r).other = query.other
        /\ IsTrue(query.share) => Shown(r) # NoInfo /\ Shown(r).type \notin LocalTypes
        /\ IsTrue(query.local) => Shown(r).type \in LocalTypes}

\* ListItemFilter of both bases: the rows the query gives are the rows asked
\* for, whatever was deleted since the filter was built.  In particular a
\* request with no filter on the parent lists the rows that have no parent,
\* or a deleted one, because the subquery is left out when it has no
\* condition (subq.IsAltered), and a filter on the parent leaves them out.
ListedIsAsked ==
    [][pc = "filtered" /\ pc' = "listed"
         => Range(objs') = Asked(call.kind, call.query)]_vars

\* FetchCustomizeColumns of both bases: the infos returned are one per row
\* listed and in the order of the rows, the info at i naming the parent of
\* row i or nothing; the callers copy rows[i] into the details of object i.
ColumnsAligned ==
    [][pc = "listed" /\ pc' = "returned" /\ rows' # Nil
         => /\ Len(rows') = Len(objs)
            /\ \A i \in DOMAIN objs : rows'[i] \in {InfoOf(p) : p \in {Column[objs[i]]} \cap live}
                                              \cup {NoInfo}]_vars

\* QueryDistinctExtraField of both bases: the values offered for a field are
\* values the details of some row show for it, every such value is offered,
\* and the empty value is not: the join drops the rows with no parent.
DistinctIsShown ==
    [][pc = "idle" /\ pc' = "returned" /\ "field" \in DOMAIN call' /\ rows' # ErrNotFound
         => rows' = {Shown(r)[ColumnOf(call'.field)] : r \in ResourcesOf(call'.kind)} \ {Null}]_vars

\* GetOrderBySubQuery with GetOrderByFields of both bases: an order on a
\* column of the parents' table, or of a table joined to it, is given only
\* when the parents' table is joined to the query; the join is decided from
\* GetOrderByFields, the orders from the fields one by one.
OrderedFieldsAreJoined ==
    pc = "filtered" /\ q.orders # <<>> => q.joined

=============================================================================
