--------------------------- MODULE RouteTableSync ---------------------------
(***************************************************************************)
(* The synchronisation pass of route tables,                               *)
(* SRouteTableManager.SyncRouteTables in                                   *)
(* src/pkg/compute/models/loadbalancerclusterresource.go (lines 618-766).  *)
(*                                                                         *)
(* A pass is called with a VPC, a credential and the list of route tables  *)
(* the cloud reported.  It takes the class lock keyed by the credential,   *)
(* reads the VPC's rows, partitions them against the cloud's list with     *)
(* CompareSets, and then deletes, updates and inserts one row at a time,   *)
(* counting every success and every failure in a SyncResult.  API handlers *)
(* that edit the routes of a row under its object lock run beside it, and  *)
(* so do other passes.                                                     *)
(*                                                                         *)
(* Data is abstract: an external id, a route-table type and a list of      *)
(* routes are members of small sets.  Names and metadata are left out.     *)
(***************************************************************************)
EXTENDS Naturals, FiniteSets, FiniteSetsExt

CONSTANTS
    Vpc,        \* the VPCs whose route tables are synchronised
    ExtId,      \* external (global) ids the cloud gives its route tables
    RouteType,  \* values of SRouteTable.Type
    Routes,     \* values of SRouteTable.Routes
    Cred,       \* lock class keys: what GetLockClassKey(man, userCred) yields
    Syncer,     \* goroutines that call SyncRouteTables
    Editor,     \* API requests that edit the routes of a row
    MaxRows,    \* bound: ids the table can hand out
    MaxPasses,  \* bound: calls of SyncRouteTables in a behaviour
    MaxEdits,   \* bound: edit requests in a behaviour
    None,       \* no holder, no row, no argument
    Absent      \* the cloud has no route table of that id

ASSUME /\ MaxRows \in Nat \ {0}
       /\ MaxPasses \in Nat
       /\ MaxEdits \in Nat
       /\ Syncer \cap Editor = {}

VARIABLES
    rows,       \* route_tables_tbl: row id -> row, None when never inserted
    nextId,     \* the id the next insert gets
    classLock,  \* lockman class lock: key -> holder
    objLock,    \* lockman object lock: row id -> holder
    pass,       \* per syncer: the locals of its call of SyncRouteTables
    editing,    \* per editor: the row whose object lock it holds
    calls       \* <<passes started, edits started>>, for the bounds

vars == <<rows, nextId, classLock, objLock, pass, editing, calls>>

RowId == 1 .. MaxRows

Item == [type : RouteType, routes : Routes]

Row == [vpc : Vpc, ext : ExtId, type : RouteType, routes : Routes,
        owner : Cred, deleted : BOOLEAN]

SyncResult == [add : Nat, addErr : Nat, upd : Nat, updErr : Nat,
               del : Nat, delErr : Nat, err : BOOLEAN]

NoResult == [add |-> 0, addErr |-> 0, upd |-> 0, updErr |-> 0,
             del |-> 0, delErr |-> 0, err |-> FALSE]

NoSnapshot == [id \in {} |-> None]

IdlePass == [pc |-> "idle", vpc |-> None, cred |-> None,
             remote |-> [e \in ExtId |-> Absent], snap |-> NoSnapshot,
             todoDb |-> {}, todoExt |-> {}, out |-> {}, edited |-> {},
             res |-> NoResult]

-----------------------------------------------------------------------------
(* The table and its queries *)

Live(id) == rows[id] # None /\ ~rows[id].deleted

\* man.Query().Equals("vpc_id", vpc.Id): the live rows of one VPC.
QueryAnyVpc(v) == {id \in RowId : Live(id)}

QueryByVpc(v) == {id \in RowId : Live(id) /\ rows[id].vpc = v}

\* db.FetchModelObjects: the rows as they are now, copied into memory.
FetchModelObjects(v) == [id \in QueryByVpc(v) |-> rows[id]]

-----------------------------------------------------------------------------
(* compare.CompareSets: both sides are keyed by external id; a key held by  *)
(* two elements of the local side is an error.                             *)

AmbiguousKey(snap) ==
    \E i, j \in DOMAIN snap : i # j /\ snap[i].ext = snap[j].ext

Removed(snap, remote) == {id \in DOMAIN snap : remote[snap[id].ext] = Absent}

Common(snap, remote) == {id \in DOMAIN snap : remote[snap[id].ext] # Absent}

AddedWhateverIsLocal(snap, remote) == {e \in ExtId : remote[e] # Absent}

Added(snap, remote) ==
    {e \in ExtId : remote[e] # Absent /\ \A id \in DOMAIN snap : snap[id].ext # e}

-----------------------------------------------------------------------------
(* Locks *)

\* lockman.LockClass blocks until the lock of the key is free.
ClassLockFree(c) == classLock[c] = None

ReleaseClassUnlessError(p) ==
    IF p.res.err THEN classLock ELSE [classLock EXCEPT ![p.cred] = None]

\* The deferred lockman.ReleaseClass: runs on every return.
ReleaseClass(p) == [classLock EXCEPT ![p.cred] = None]

-----------------------------------------------------------------------------
(* The per-item outcomes of the three loops, as changes of the locals *)

Counted(p, field) == [p EXCEPT !.res[field] = @ + 1]

DbUpdateTypeOnly(row, mem, item) ==
    [row EXCEPT !.type = IF mem.type # item.type THEN item.type ELSE @]

\* db.Update inside SyncWithCloudRouteTable: the closure assigns Type and
\* Routes (VpcId is the queried one already) to the object in memory, and
\* the fields whose value in memory changed are written to the row.
DbUpdate(row, mem, item) ==
    [row EXCEPT !.type   = IF mem.type # item.type THEN item.type ELSE @,
                !.routes = IF mem.routes # item.routes THEN item.routes ELSE @]

NewRouteTableFromCloudNoVpc(p, e) ==
    [vpc |-> None, ext |-> e, type |-> p.remote[e].type,
     routes |-> p.remote[e].routes, owner |-> p.cred, deleted |-> FALSE]

\* newRouteTableFromCloud: the row a cloud route table becomes.
NewRouteTableFromCloud(p, e) ==
    [vpc |-> p.vpc, ext |-> e, type |-> p.remote[e].type,
     routes |-> p.remote[e].routes, owner |-> p.cred, deleted |-> FALSE]

RemoveDone(p, id, ok) ==
    Counted([p EXCEPT !.todoDb = @ \ {id}], IF ok THEN "del" ELSE "delErr")

UpdateFailedNoContinue(p, id) ==
    Counted(Counted([p EXCEPT !.todoDb = @ \ {id}, !.out = @ \cup {id}],
                    "updErr"), "upd")

\* An update that failed: counted, and the loop continues with the next.
UpdateFailed(p, id) == Counted([p EXCEPT !.todoDb = @ \ {id}], "updErr")

UpdateDone(p, id) ==
    Counted([p EXCEPT !.todoDb = @ \ {id}, !.out = @ \cup {id}], "upd")

InsertFailed(p, e) == Counted([p EXCEPT !.todoExt = @ \ {e}], "addErr")

InsertDone(p, e, id) ==
    Counted([p EXCEPT !.todoExt = @ \ {e}, !.out = @ \cup {id}], "add")

\* The loops run in this order: the removed, then the common, then the added.
ToRemove(p) == p.todoDb \cap Removed(p.snap, p.remote)

ToUpdate(p) == IF ToRemove(p) = {} THEN p.todoDb ELSE {}

ToInsert(p) == IF p.todoDb = {} THEN p.todoExt ELSE {}

Finished(p) == p.pc = "apply" /\ p.todoDb = {} /\ p.todoExt = {}

-----------------------------------------------------------------------------
(* Initial state: the service has started and nothing was synchronised yet *)

Init ==
    /\ rows = [id \in RowId |-> None]
    /\ nextId = 1
    /\ classLock = [c \in Cred |-> None]
    /\ objLock = [id \in RowId |-> None]
    /\ pass = [s \in Syncer |-> IdlePass]
    /\ editing = [h \in Editor |-> None]
    /\ calls = <<0, 0>>

-----------------------------------------------------------------------------
(* A pass *)

\* The call: the arguments are fixed here.  cloudRouteTables is whatever the
\* caller fetched from the provider, any list with one element per external
\* id.  A pass is started only while the table has ids left for everything
\* it could insert.
Call(s, c, v, remote) ==
    /\ pass[s].pc = "idle"
    /\ calls[1] < MaxPasses
    /\ nextId + Cardinality(ExtId) <= MaxRows + 1
    /\ pass' = [pass EXCEPT ![s] = [IdlePass EXCEPT !.pc = "lock", !.cred = c,
                                      !.vpc = v, !.remote = remote]]
    /\ calls' = <<calls[1] + 1, calls[2]>>
    /\ UNCHANGED <<rows, nextId, classLock, objLock, editing>>

LockClass(s) ==
    /\ pass[s].pc = "lock"
    /\ ClassLockFree(pass[s].cred)
    /\ classLock' = [classLock EXCEPT ![pass[s].cred] = s]
    /\ pass' = [pass EXCEPT ![s].pc = "fetch"]
    /\ UNCHANGED <<rows, nextId, objLock, editing, calls>>

\* The query fails, or CompareSets rejects the snapshot: syncResult.Error,
\* and nothing is applied.
FetchFailed(p) == [p EXCEPT !.pc = "apply", !.res.err = TRUE]

FetchDone(p, snap) ==
    [p EXCEPT !.pc = "apply", !.snap = snap, !.todoDb = DOMAIN snap,
              !.todoExt = Added(snap, p.remote)]

FetchAndCompare(s) ==
    /\ pass[s].pc = "fetch"
    /\ LET snap == FetchModelObjects(pass[s].vpc)
       IN  \/ pass' = [pass EXCEPT ![s] = FetchFailed(@)]
           \/ /\ ~AmbiguousKey(snap)
              /\ pass' = [pass EXCEPT ![s] = FetchDone(@, snap)]
    /\ UNCHANGED <<rows, nextId, classLock, objLock, editing, calls>>

\* removed[i].syncRemoveCloudRouteTable: under the row's object lock,
\* ValidateDeleteCondition and RealDelete, either of which may fail.
SyncRemove(s) ==
    /\ pass[s].pc = "apply"
    /\ ToRemove(pass[s]) # {}
    /\ LET id == Min(ToRemove(pass[s]))
       IN  /\ objLock[id] = None
           /\ \E ok \in BOOLEAN :
                /\ rows' = IF ok THEN [rows EXCEPT ![id].deleted = TRUE] ELSE rows
                /\ pass' = [pass EXCEPT ![s] = RemoveDone(@, id, ok)]
    /\ UNCHANGED <<nextId, classLock, objLock, editing, calls>>

\* commondb[i].SyncWithCloudRouteTable: newRouteTableFromCloud may fail
\* before any lock is taken; db.UpdateWithLock takes the object lock and
\* may fail too.
SyncUpdate(s) ==
    /\ pass[s].pc = "apply"
    /\ ToUpdate(pass[s]) # {}
    /\ LET p    == pass[s]
           id   == Min(ToUpdate(p))
           item == p.remote[p.snap[id].ext]
       IN  \/ /\ pass' = [pass EXCEPT ![s] = UpdateFailed(@, id)]
              /\ rows' = rows
           \/ /\ objLock[id] = None
              /\ rows' = [rows EXCEPT ![id] = DbUpdate(@, p.snap[id], item)]
              /\ pass' = [pass EXCEPT ![s] = UpdateDone(@, id)]
    /\ UNCHANGED <<nextId, classLock, objLock, editing, calls>>

\* man.insertFromCloud: newRouteTableFromCloud or the insert may fail.
SyncInsert(s) ==
    /\ pass[s].pc = "apply"
    /\ ToInsert(pass[s]) # {}
    /\ LET p == pass[s]
           e == CHOOSE x \in ToInsert(p) : TRUE
       IN  \/ /\ pass' = [pass EXCEPT ![s] = InsertFailed(@, e)]
              /\ UNCHANGED <<rows, nextId>>
           \/ /\ rows' = [rows EXCEPT ![nextId] = NewRouteTableFromCloud(p, e)]
              /\ nextId' = nextId + 1
              /\ pass' = [pass EXCEPT ![s] = InsertDone(@, e, nextId)]
    /\ UNCHANGED <<classLock, objLock, editing, calls>>

\* The return, with the deferred release of the class lock.
Return(s) ==
    /\ Finished(pass[s])
    /\ classLock' = ReleaseClass(pass[s])
    /\ pass' = [pass EXCEPT ![s] = IdlePass]
    /\ UNCHANGED <<rows, nextId, objLock, editing, calls>>

-----------------------------------------------------------------------------
(* An API request on one row: PerformAddRoutes and PerformDelRoutes run    *)
(* under the row's object lock and write a new value of Routes.            *)

EditBegin(h, id) ==
    /\ editing[h] = None
    /\ calls[2] < MaxEdits
    /\ Live(id)
    /\ objLock[id] = None
    /\ objLock' = [objLock EXCEPT ![id] = h]
    /\ editing' = [editing EXCEPT ![h] = id]
    /\ calls' = <<calls[1], calls[2] + 1>>
    /\ UNCHANGED <<rows, nextId, classLock, pass>>

\* db.Update(rt, ...) of the handler, and the release of the object lock.
\* Every pass that is applying its result learns (in `edited`, which no
\* action reads) that the row was written beside it.
EditEnd(h, r) ==
    /\ editing[h] # None
    /\ LET id == editing[h]
       IN  /\ rows' = [rows EXCEPT ![id].routes = r]
           /\ objLock' = [objLock EXCEPT ![id] = None]
           /\ pass' = [s \in Syncer |->
                         IF pass[s].pc = "apply"
                         THEN [pass[s] EXCEPT !.edited = @ \cup {id}]
                         ELSE pass[s]]
    /\ editing' = [editing EXCEPT ![h] = None]
    /\ UNCHANGED <<nextId, classLock, calls>>

\* Nothing is running: the service waits for the next call or request.
Quiescent ==
    /\ \A s \in Syncer : pass[s].pc = "idle"
    /\ \A h \in Editor : editing[h] = None
    /\ UNCHANGED vars

SyncStep(s) ==
    \/ LockClass(s)
    \/ FetchAndCompare(s)
    \/ SyncRemove(s)
    \/ SyncUpdate(s)
    \/ SyncInsert(s)
    \/ Return(s)

Next ==
    \/ \E s \in Syncer, c \in Cred, v \in Vpc,
          remote \in [ExtId -> Item \cup {Absent}] : Call(s, c, v, remote)
    \/ \E s \in Syncer : SyncStep(s)
    \/ \E h \in Editor, id \in RowId : EditBegin(h, id)
    \/ \E h \in Editor, r \in Routes : EditEnd(h, r)
    \/ Quiescent

\* A pass that can take a step takes it, and a request that holds an object
\* lock finishes: both are goroutines the runtime keeps scheduling.
Fairness ==
    /\ \A s \in Syncer : WF_vars(SyncStep(s))
    /\ \A h \in Editor : WF_vars(\E r \in Routes : EditEnd(h, r))

Spec == Init /\ [][Next]_vars /\ Fairness

-----------------------------------------------------------------------------
(* Properties *)

TypeOK ==
    /\ rows \in [RowId -> Row \cup {None}]
    /\ nextId \in 1 .. MaxRows + 1
    /\ classLock \in [Cred -> Syncer \cup {None}]
    /\ objLock \in [RowId -> Editor \cup {None}]
    /\ editing \in [Editor -> RowId \cup {None}]
    /\ calls \in (0 .. MaxPasses) \X (0 .. MaxEdits)
    /\ \A s \in Syncer :
         LET p == pass[s]
         IN  /\ p.pc \in {"idle", "lock", "fetch", "apply"}
             /\ p.vpc \in Vpc \cup {None}
             /\ p.cred \in Cred \cup {None}
             /\ p.remote \in [ExtId -> Item \cup {Absent}]
             /\ DOMAIN p.snap \subseteq RowId
             /\ \A id \in DOMAIN p.snap : p.snap[id] \in Row
             /\ p.todoDb \subseteq DOMAIN p.snap
             /\ p.todoExt \subseteq ExtId
             /\ p.out \subseteq RowId
             /\ p.edited \subseteq RowId
             /\ p.res \in SyncResult

\* No two live rows of a VPC stand for the same cloud route table.  Two
\* passes over one VPC must not both find an external id missing and both
\* insert it (SyncRouteTables fetches, compares and inserts under the class
\* lock it takes in its first line).
UniqueExternalIds ==
    \A i, j \in RowId :
        (i # j /\ Live(i) /\ Live(j) /\ rows[i].vpc = rows[j].vpc)
            => rows[i].ext # rows[j].ext

NoErrors(res) ==
    ~res.err /\ res.addErr = 0 /\ res.updErr = 0 /\ res.delErr = 0

\* A pass that reports no error has made the VPC's live rows the image of
\* the list it was called with: one row per reported route table, with its
\* type and (unless a request wrote the row beside the pass) its routes,
\* every such row returned in localRouteTables, and no other live row
\* (SyncRouteTables, its three loops and SyncWithCloudRouteTable).
PassConverges ==
    \A s \in Syncer :
        LET p == pass[s]
            local == QueryByVpc(p.vpc)
        IN  (Finished(p) /\ NoErrors(p.res)) =>
              /\ \A id \in local : p.remote[rows[id].ext] # Absent
              /\ \A e \in ExtId :
                   p.remote[e] # Absent =>
                     \E id \in local \cap p.out :
                        /\ rows[id].ext = e
                        /\ rows[id].type = p.remote[e].type
                        /\ rows[id].routes = p.remote[e].routes \/ id \in p.edited

\* The SyncResult tells what happened, item by item, whatever failed: every
\* element of removed, common and added is counted once, as a success or as
\* an error; the deletions counted are rows that are gone, and the rows
\* returned in localRouteTables are the updated and the inserted ones (the
\* `continue` after UpdateError and AddError, and the absence of any return
\* inside the loops of SyncRouteTables).
ResultFaithful ==
    \A s \in Syncer :
        LET p == pass[s]
            removed == Removed(p.snap, p.remote)
            common  == Common(p.snap, p.remote)
            added   == Added(p.snap, p.remote)
        IN  (Finished(p) /\ ~p.res.err) =>
              /\ p.res.del = Cardinality({id \in removed : ~Live(id)})
              /\ p.res.del + p.res.delErr = Cardinality(removed)
              /\ p.res.upd = Cardinality(p.out \cap common)
              /\ p.res.upd + p.res.updErr = Cardinality(common)
              /\ p.res.add = Cardinality(p.out \ common)
              /\ p.res.add + p.res.addErr = Cardinality(added)
              /\ \A id \in p.out \ common : Live(id) /\ rows[id].ext \in added

\* A row changes only by a pass over the row's own VPC or by the request
\* that holds the row's object lock: a pass never deletes or rewrites the
\* route tables of another VPC (the vpc_id filter of the query in
\* SyncRouteTables).
RowChangedInScope(id) ==
    \/ \E s \in Syncer :
         /\ pass[s].pc = "apply"
         /\ rows[id] # None => rows[id].vpc = pass[s].vpc
         /\ rows'[id].vpc = pass[s].vpc
    \/ \E h \in Editor : editing[h] = id /\ objLock[id] = h

ScopeIsolation ==
    [][\A id \in RowId : rows'[id] # rows[id] => RowChangedInScope(id)]_vars

\* Every call of SyncRouteTables returns, and so gives the class lock back:
\* a pass waiting for the lock is not left behind by one that returned on
\* an error path (the deferred ReleaseClass of SyncRouteTables).
PassTerminates ==
    \A s \in Syncer : (pass[s].pc # "idle") ~> (pass[s].pc = "idle")

=============================================================================
