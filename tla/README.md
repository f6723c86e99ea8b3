# TLA+ models of OneCloud

This directory holds the TLA+ specifications of the parts of the OneCloud
sources under `src/` whose correctness depends on the order in which things
happen or on cases a test hardly reaches, the TLC configurations that check
them, and `PROJECT.json`, which records for every definition the source
lines it models, for every run what it checks, and the hazards of the code
with the properties that cover them.

To check a run: `tlc -workers 2 -config <cfg> <module>` with the config and
the module `PROJECT.json` names for it.

## 1. The system

OneCloud is a multi-cloud management platform.  The sources under `src/` are
a slice of it:

| Part | Source | What it does |
|---|---|---|
| Route tables: sync orchestrator | `pkg/compute/models/loadbalancerclusterresource.go` 618-766 | `SyncRouteTables` reconciles the route tables of one VPC with the list a cloud provider reported: class lock, read the rows, `compare.CompareSets`, then delete / update / insert item by item, counting successes and failures in a `SyncResult` |
| Route tables: API handlers | same file, 260-589 | `SRoute.Validate`, `SRoutes.Validate`, `ValidateCreateData`, `ValidateUpdateData`, `PerformAddRoutes`, `PerformDelRoutes`, `PerformPurge`, `RealDelete` |
| Sharable resources | `pkg/cloudcommon/db/sharablebase.go` | `SharablePerformPublic` / `SharablePerformPrivate`: share a resource with projects or domains, check the requested scope, rewrite the `shared_resources` rows; the list filter and the check of one resource that decide who sees it |
| Suggest-system rules | `pkg/monitor/models/suggestsysrule.go`, its later revision `unnamed/part_003`, `pkg/monitor/suggestsysdrivers/driverconfig.go`, `pkg/apis/monitor/suggestsysrule.go` | rules with a type, a period and a driver; a cron job per rule, kept up to date by `PostCreate`, `PostUpdate` and rebuilt at start by `InitSuggestSysRuleCronjob` |
| Monitor data source | `pkg/monitor/models/datasource.go` | `initDefaultDataSource`: every 30 seconds, insert the row `default` when the table has none; `GetDefaultSource` before every statement; `GetMeasurements`, `GetMetricMeasurement`: one query per measurement or field key, fanned out to goroutines of an `errgroup`, gathered over a buffered channel under a timeout |
| HTTP client | `pkg/util/httputils/httputils.go` | `Request`, `JSONRequest`, `JSONRequestUseBufio`, `JsonClient.Send`, and the parsers that turn a response into a body or a `JSONClientError` |
| List filters and joined columns | `pkg/compute/models/storageresource.go`, `loadbalancerclusterresource.go` 34-219, `pkg/apis/compute/disk.go` | `ListItemFilter`, `OrderByExtraFields`, `FetchCustomizeColumns`, `QueryDistinctExtraField` of the resources of a storage and of a load balancer cluster: the query of a list request, and the details of the rows it gives |
| Other list filters | `unnamed/part_001`, the filters of the route tables and of the rules | build SQL queries for list requests |
| Security-rule comparison test | `unnamed/part_002` | a test of `CompareRules` for one provider |
| CLI and API types | `unnamed/part_000`, `part_004`, `part_005`, `pkg/apis/compute/disk.go`, `pkg/apis/monitor/suggestsysalert.go`, `pkg/multicloud/openstack/monitor.go` | command registration, constants, request and response structs |

Called but not in `src/`: the lock manager (`lockman`), the row store (`db`,
`sqlchemy`), the set comparator (`compare`), the cloud providers
(`cloudprovider`), the cron manager (`cronman`), `jsonutils`, and Go's
`errgroup`, `context`, `bufio` and `net/http`.  Where a model needs one of
them, it is modelled by its documented contract, and the definition is
marked `spec_modelled` in `PROJECT.json` when no source line stands for it.

### How the parts interact

* The sync orchestrator and the route-table handlers write the same table.
  A pass holds the *class lock* of its manager under a key computed from the
  caller's credential; each deletion and update of a row is done under that
  row's *object lock*; the API framework runs every `Perform...` handler
  under the object lock of the row it addresses.  Passes are started one
  goroutine per cloud account, so several run at once.
* A sharing request rewrites rows of `shared_resources` and then the columns
  `is_public` and `public_scope` of the resource, in separate statements;
  list queries read both.
* A suggest-system rule is a row; its cron job lives in the memory of the
  process.  Requests change both, a restart rebuilds the jobs from the rows.
* A measurement query starts one goroutine per item; the goroutines meet the
  gatherer at a channel and the caller at `Wait`.
* The monitor service is usable once the table of data sources has exactly
  one row `default`; every instance of the service looks for it and inserts
  it, in two statements.
* A list request resolves the storage or cluster it names, builds a query,
  runs it and then fetches the storages or clusters of the rows: three
  reads, between which rows can be deleted.
* The HTTP client is called by all of them; it keeps no state between calls.

## 2. Modules

| Module | Models | Abstract specification |
|---|---|---|
| `RouteTableSync`, `MCRouteTableSync` | `SyncRouteTables` with its three loops, run by several goroutines beside route-editing requests | |
| `RouteTable`, `MCRouteTable` | one route table and the requests create, update, add-routes, del-routes, purge, with their authorisation, `SRoute.Validate` and `SRoutes.Validate`, beside the writes of a sync pass to the row | `RouteMap` |
| `RouteMap` | what the handlers promise: the table as a map from destinations to route types | |
| `Sharable` | one sharable resource: creation, `PerformPublic`, `PerformPrivate`, the list filters, the details of the list, `IsSharable` and the other reads of the rows with their dropped errors, the candidates for a change of owner and the two merges over several resources | |
| `SuggestSysRule` | the rules with their settings, their cron jobs, creation, update, start and stop of the process, and the reads: the settings the drivers fetch, the list filter and the details of the list | |
| `MeasurementQuery` | the default data source and its periodic initialisation; one `GetMeasurements` or `GetMetricMeasurement` request from arrival to return; the single statements `GetDatabases`, `AddSubscription`, `DropSubscription` | the sequential `getfilterMeasurementsSyn`, as operator `Syn` |
| `ResourceList`, `MCResourceList` | list and distinct-field requests on the resources of a storage and of a load balancer cluster, beside deletions | the rows asked for, said with what the details show (`Asked`) |
| `HttpClient`, `MCHttpClient` | the clients `GetClient` builds and one call of the HTTP client with one of them, for every answer a server can give, one that never comes included | |

Every module keeps the control of the code (each state change, guard, early
return and error path, in the code's order) and abstracts the data: names,
texts of queries, log lines and metadata are left out, and a payload is a
model value.

### `RouteTableSync`

| Variable | In the code |
|---|---|
| `rows` | `route_tables_tbl`: for each id the row (`vpc`, `ext`, `type`, `routes`, `owner`, `deleted`), or `None` |
| `nextId` | ids are fresh on every insert |
| `classLock`, `objLock` | `lockman`'s class locks by key and object locks by row |
| `pass[s]` | the locals of goroutine `s` inside `SyncRouteTables`: `pc`, arguments, `snap` = `dbRouteTables`, the items still to do, `out` = `localRouteTables`, `res` = `syncResult` |
| `editing[h]` | the row whose object lock request `h` holds |
| `calls` | counters for the bounds `MaxPasses` and `MaxEdits` |

| Action | Code | Lines |
|---|---|---|
| `Call` | entry of `SyncRouteTables`, locals initialised | 618, 622-624 |
| `LockClass` | `lockman.LockClass(ctx, man, GetLockClassKey(man, userCred))` | 619 |
| `FetchAndCompare` | `db.FetchModelObjects` with the `vpc_id` filter and `compare.CompareSets`; either may fail | 626-638 |
| `SyncRemove` | one iteration of the first loop, under the object lock | 640-647, 736-746 |
| `SyncUpdate` | one iteration of the second loop; on error `UpdateError` and `continue` | 649-659, 748-766 |
| `SyncInsert` | one iteration of the third loop | 661-671, 724-734 |
| `Return` | `return`, which runs the deferred `ReleaseClass` | 620, 672 |
| `EditBegin`, `EditEnd` | an add-routes or del-routes request: object lock, then `db.Update` | 519-589 |
| `Quiescent` | nothing is running; the service waits | |

A step of a loop is one action because every write of it happens under one
object lock or in one SQL statement.  `db.Update` is modelled by what it
does: the fields whose value in memory changed are written, the others are
left as they are in the table.

### `RouteTable` and `RouteMap`

State: `status` of the row, `routes` (the column, a sequence of routes),
`provider` (the state of the row's cloud provider, which `PerformPurge`
reads), `last` (the last request: its operation, and the routes or the
destinations it named when it went through).  A cidr text is a pair of a
destination and its written form (`"canon"`, `"hostbits"`), so that
`net.ParseCIDR` followed by `String()` is modelled by what it does: it
clears the host bits of a text with a prefix and keeps other texts.

Actions: `CreateRouteTable`, `UpdateRouteTable`, `PerformAddRoutes`,
`PerformDelRoutes`, `PerformPurge` (with `RealDelete`), each a whole handler
including its validation and its failing write, `SetProvider`, and
`Forbidden(op, cred)`: a request whose credential `AllowPerformAddRoutes`,
`AllowPerformDelRoutes` or `AllowPerformPurge` turns away changes nothing.
A credential is what the three tests read of it: whether it owns the row
and whether it is an administrator.

`RouteTable` also has the three writes of a sync pass to the row,
`SyncWithCloudRouteTable`, `InsertFromCloud` and
`SyncRemoveCloudRouteTable`: `RouteTableSync` has the pass with its locks
and loops and takes routes for opaque values, this module has what the pass
writes into the column the handlers read.  The routes come from the
provider as they are (`newRouteTableFromCloud` copies `GetCidr()` without
`SRoute.Validate`); the constant `CloudRoutes` says which lists a provider
reports.

`RouteMap` has the variables `alive`, `rmap`, `op` and `arg`: every step
names its operation and its argument, a map of routes for create, update,
add-routes and a pass, a set of destinations for del-routes, nothing for a
purge and for a request that was refused, and says what the map becomes
for that argument.  The refinement mapping is `rmap <- AsMap(routes)`,
`alive <- status = "live"`, `op <- last.op`, `arg <- last.arg`, where the
handlers record `AsMap` of the routes they validated and `AsKeys` of the
cidrs of a del-routes request as they were written; `ImplementsRouteMap`
is `RM!RMSpec`.  A sync pass is the step `Reconcile` of the route map: the
table becomes what the cloud reported, or is gone.

### `Sharable`

State: `rscope` (the scope of the resource's manager), `isPublic`,
`publicScope`, `shares` (the `shared_resources` rows by target type),
`last`.  Actions: `Create` (`SharableManagerValidateCreateData` and
`SharableModelCustomizeCreate`), `PerformPublic`, `PerformPrivate`.  A
request is one step because it runs under the object lock; inside the step
the model chooses after which statement the request fails, so that the rows
can be rewritten while the columns are not.  `Listed` is the list filter
(`SharableManagerFilterByOwner`), `IsSharable` the check of one resource,
`ListItemFilter` the filter on the two columns, `FetchCustomizeColumns` the
shares the list shows.  The reads of the rows that drop their error
(`SharableModelIsSharable`, `SharableModelIsShared`,
`SharableGetSharedProjects`) take a parameter that says whether the query
succeeded: a failed count is 0, a failed fetch no row.
`MergeShareRequireDomainIds` and `MergeChangeOwnerCandidateDomainIds` are
folds over the lists of several resources, in the code's order.

Two things the module takes from outside `src/`.  `GetOwnerId` is a method
of the models: `Owner` is a project and its domain for a project resource,
a domain for a domain resource, and nil for a resource of a manager of
system scope; the tests `ownerId != nil` of the code are `OwnerIs` and
`OwnerDomainIds`.  `shareToTarget` is given the list of the request with
the candidates and the required domains of the resource: the model takes a
call that returns no error to have stored the list it was asked to store,
and a call that returns one to have changed nothing.

### `SuggestSysRule`

State: `rules` (the rows, by name), `jobs` (the cron jobs of the process),
`status` (`down`, `up`, `panicked`).  Actions: `Create`, `Update` (each with
its validation, the write and `PostCreate` / `PostUpdate`), `Start`
(`InitSuggestSysRuleCronjob`), `Crash`.  Three constants choose the
deployment: `NameChecked` (the creation of `part_003`, which validates the
type as a name, or that of `suggestsysrule.go`), `NamedByType` (clients name
a rule by its type, a habit of the clients that nothing in the code
enforces; `rule_job_keys` runs without it), `FetchFails` (the read of the
rows at start may fail).  `Driver` is the set of types a driver is
registered for: `driverconfig.go` registers one, the registry takes any
number, and the runs give it two so that the job of one rule can be
mistaken for the job of another.  `Update` validates as the code does, the
period first and then the setting with the driver of the rule's present
type, so that a rule whose type has no driver refuses a bad period and
panics on a good one.
`time.ParseDuration` is modelled by `PeriodOf`: a text that is no duration
gives an error, an absent one the default.  The column `setting` of a row
is one of `Setting`: absent (`NoSetting`), a value that unmarshals
(`Decodable`), or one that does not.  The reads are operators over the
rows: `GetSuggestSysAlertSetting` (the setting of one row, which only the
type `EipUnused` has), `FetchSuggestSysAlartSettings` (a fold over the rows
in the order the query gave them, which stops at the first row it cannot
decode), `ListItemFilter`, `GetMoreDetails` and `FetchCustomizeColumns`.

### `MeasurementQuery`

State: `sources` (the number of rows named `default` in
`datasources_tbl`), `up` (whether the table, the identity service and its
catalog answer), `initF[m]` (where instance `m` of the service is in its
turn of `initF`), and of the request `pc`, `req`, `worker[i]` (`running`,
`sending`, `sent`, `failed`), `chan` (the buffered channel), `gatherer`
(answers received, and how it ended), `timedOut` (the context's deadline
passed), `err` (the first error of the group), `out`, `result`.

| Action | Code |
|---|---|
| `GetMeasurements`, `GetMetricMeasurement` | the handler up to the start of the goroutines: channel of capacity `len(items)`, context with timeout, workers and gatherer started |
| `InitCheck(m)` | a turn of `initF` up to its read of the table: it ends there unless the read says there is no row |
| `InitGiveUp(m)` | the turn ends without an insert, during an outage: no admin session, no address of InfluxDB in the catalog, or an insert that failed |
| `InitInsert(m)` | the insert of the row `default` |
| `Outage` | the table and the identity service stop answering, or answer again; a read of the table during an outage is an error |
| `RefusedInput`, `RefusedSource`, `RefusedLater(e)` | the early returns before any goroutine exists: a request without database, a default source that is missing, doubled or unreadable, a failed first query |
| `GetDatabases`, `AddSubscription`, `DropSubscription` | `GetDefaultSource`, then one statement, whose error is returned |
| `Query(i)` | the query of worker `i`: it fails and returns its error, or has an answer to send |
| `Send(i)` | the send on the channel, which waits while the channel is full |
| `Gather` | one turn of the gatherer's `select`: receive an answer, or leave at `ctx.Done()`, or finish after the last answer |
| `Timeout` | the deadline of the context passes |
| `Return` | `Wait` returns once every goroutine has returned; the first error wins |
| `Forget` | the handler is done; requests share no state |

`errgroup.WithContext` returns a context that is cancelled on the first
error; the code discards it (`measurementQueryGroup, _ :=`), so a failed
query is noticed only at the deadline.  The model has exactly that.

`GetDefaultSource` is `FetchByName`: it fails when no row has the name and
when more than one has.  `initF` is started with `wait.Forever`, so a turn
follows 30 seconds after the last, whether or not that one inserted.

### `ResourceList`

State: `live` (the storages and clusters whose row exists), and of the
request `pc`, `call`, `q` (the query built), `objs` (the rows the query
gave), `rows` (what was returned).  The columns of the tables are constants
(`Column`, `Row`); `MCResourceList` gives them.

| Action | Code |
|---|---|
| `Filter(kind, query, order)` | `ListItemFilter`, then `OrderByExtraFields`, of the storage base or of the cluster base: the parent named is resolved (`FetchByIdOrName`: found, not found, another error), the subquery on the parents is built and added when some filter altered it, the join and the orders are decided |
| `Run` | the query runs, on the tables as they are then |
| `Details` | `FetchCustomizeColumns` of the rows listed: the storage base returns nil when the fetch fails, the cluster base empty infos |
| `Distinct(kind, f)` | `QueryDistinctExtraField`: an inner join for the resource's own fields, a left join handed on to the base of the zone, manager or wire, `ErrNotFound` for any other field |
| `Delete(p)` | a storage or cluster is deleted; the rows that name it stay |
| `Forget` | the next request |

The operators are written once for what the two bases share (`Built`,
`Filled`, `JoinedAndOrdered`, `BaseFilters`) and once per base where they
differ (`StorageSubQuery` with the filters `share` and `local`,
`StorageColumns` against `ClusterColumns`, `StorageDistinct` against
`ClusterDistinct`, the fields of `GetOrderByFields`).

### `HttpClient`

State: `pc`, `call`, `resp`, `closed`, `result`.  Actions: `Request` (from
the entry of `Request` to `client.Do`, with the early return when a traced
call cannot take the address of its URL), `Do` (an answer, or none),
`Parse(fn)` (the parser of the calling function, with the deferred
`CloseResponse`), `Forget`.  The parsers are operators: `ParseResponse`,
`ParseJSONResponse`, `ParseJSONResponseUseBufio`, `Send`,
`ParseErrorFromJsonResponse`, `ErrorOf`.  A body is told apart by what the
parsers look at: empty, text, broken JSON or an object; for an object its
top-level fields and the value of a single wrapping key.  `MCHttpClient`
lists one body of each form.

A client is what the timers of a call read of it: the `Timeout` of the
whole call, the `ResponseHeaderTimeout` of its transport, and whether its
connections carry a deadline (`adptiveDial`, which `getTransport` installs
for a `Timeout` of zero).  `Clients` are the clients the package builds:
`defaultHttpClient`, `GetTimeoutClient(t)`, `GetAdaptiveTimeoutClient`.  A
server may accept the request and never answer (`HeaderTimeout` ends the
wait), or answer and stall in the body (`Parse` then returns only with a
client whose read ends, `Wait` is the goroutine blocked in the read).

## 3. Runs

| Run | Module, config | Properties | Result | Distinct states |
|---|---|---|---|---|
| `sync_passes` | `MCRouteTableSync`, `RouteTableSync.cfg` | `TypeOK`, `UniqueExternalIds`, `PassConverges`, `ResultFaithful`, `ScopeIsolation`, `PassTerminates` | pass | 375 775 |
| `sync_two_keys` | `MCRouteTableSync`, `RouteTableSyncTwoKeys.cfg` | `UniqueExternalIds` | violated | |
| `route_requests` | `MCRouteTable`, `RouteTable.cfg` | `TypeOK`, `StoredCidrsNormal`, `RequestsTakeEffect`, `ImplementsRouteMap` | pass | 5 961 |
| `share_visibility` | `Sharable`, `Sharable.cfg` | `TypeOK`, `PublicFlagMatchesScope`, `GrantedIsListed`, `MergedCandidatesAreAllowedByAll`, `RequiredIsUnionUnlessAny` | pass | 446 |
| `share_stale_rows` | `Sharable`, `SharableStale.cfg` | `PublicLeavesSharesOfItsScope` | violated | |
| `rule_jobs` | `SuggestSysRule`, `SuggestSysRule.cfg` | `TypeOK`, `EnabledRuleScheduled`, `JobsFollowRules`, `FetchedSettingsAreShown` | pass | 1 553 |
| `rule_job_keys` | `SuggestSysRule`, `SuggestSysRuleJobKeys.cfg` | `JobsFollowRules` | violated | |
| `query_gather` | `MeasurementQuery`, `MeasurementQuery.cfg` | `TypeOK`, `AsynAgreesWithSyn`, `TagValuesAreTheUnion`, `SendNeverBlocks`, `DefaultIsUnique`, `RequestReturns`, `ServiceBecomesReady` | pass | 740 854 |
| `query_window` | `MeasurementQuery`, `MeasurementQueryWindow.cfg` | `WindowIsTheOneAsked` | violated | |
| `http_errors` | `MCHttpClient`, `HttpClient.cfg` | `TypeOK`, `ErrorIffNotSuccess`, `ErrorCodeTellsFailure`, `CallReturns` | pass | 71 002 |
| `http_error_body` | `MCHttpClient`, `HttpClientPanic.cfg` | `ParserReturns` | violated | |
| `list_filters` | `MCResourceList`, `ResourceList.cfg` | `TypeOK`, `OrderedFieldsAreJoined`, `ListedIsAsked`, `ColumnsAligned`, `DistinctIsShown` | pass | 41 784 |

The small state counts of `route_requests`, `share_visibility` and
`rule_jobs` are those of one row with few fields; their runs take hundreds
of thousands of steps, because every request is tried with every input in
every state.

### What the properties say

Route-table sync:

* **`UniqueExternalIds`**: no two live rows of a VPC carry the same external
  id.  It takes two passes to break: both must read before either inserts.
* **`PassConverges`**: when a pass returns without any error, the live rows
  of its VPC are exactly the route tables of the list it was called with,
  each with the cloud's type and routes and each returned in
  `localRouteTables`; the one exception the code has, a row a request
  rewrote while the pass was applying its snapshot, is part of the property.
* **`ResultFaithful`**: every element of `removed`, `common` and `added` is
  counted exactly once, as a success or an error, whatever failed, and
  `localRouteTables` holds no row whose update failed.
* **`ScopeIsolation`** (action property): a step changes a row only if a
  pass over that row's VPC is applying its result or a request holds the
  row's object lock.
* **`PassTerminates`** (liveness): every call returns, so the class lock is
  released on every path.

Route-table handlers:

* **`StoredCidrsNormal`**: whatever sequence of requests and sync passes
  built it, the table holds at most one route per cidr and every cidr in
  normal form.  For the passes this rests on the provider: the run gives
  `CloudRoutes` the lists that name each destination once and in normal
  form (`MCCloudRoutes`).  With `MCCloudRoutesAsWritten`, a provider that
  reports `10.0.1.3/24`, TLC breaks the invariant in two steps, and
  del-routes of `10.0.1.0/24` then removes nothing; nothing under `src/`
  says which forms the providers report.
* **`RequestsTakeEffect`**: on every table the handlers and the passes can
  build, a del-routes request leaves no route of a cidr it names, system
  routes apart, and an add-routes request keeps the table as a prefix of
  the new one, appends only routes it names and leaves every destination
  it names in the table exactly once.  `DelOne` removes the last route of a cidr only,
  so this rests on `StoredCidrsNormal`: with a cidr held twice one copy
  would survive the request.  The comparison is by the text of the cidr,
  as in the code; a request that writes a destination in another form than
  the table does (`loadbalancerclusterresource.go:574`) removes nothing,
  which is the hazard `PROJECT.json` lists without a property.
* **`ImplementsRouteMap`** (refinement): every step of the table is the
  step of the route map for the operation and the argument the request
  named.  Create, update and a pass leave exactly the routes given;
  add-routes adds the destinations that were free and never changes the
  route of one the table has; del-routes removes the destinations it names
  as it writes them, system routes apart, and no other; a request that is
  refused changes nothing.

Sharing:

* **`PublicFlagMatchesScope`**: `is_public` holds exactly when
  `public_scope` is not `none`, also after requests that failed half-way.
* **`GrantedIsListed`**: the list filter returns the resource to every
  requester that the check of a single resource lets use it; the two
  definitions of visibility, kept by hand in two places, never contradict
  each other in that direction, whether or not the check could read the
  rows (its queries drop their errors).
* **`RequiredIsUnionUnlessAny`**: the domains a group of resources requires
  of a change are the union of what each requires, unless one of them
  takes any domain; `ISharableMergeShareRequireDomainIds` returns nil at the
  first empty list, whatever the lists before it held.
* **`MergedCandidatesAreAllowedByAll`**: the domains a resource that has
  an owner may be handed to together with the resources that depend on it
  are the domains all of them allow;
  `ISharableMergeChangeOwnerCandidateDomainIds` intersects the lists from
  left to right and starts again when the result is empty, which is right
  only because the owner's domain is in every list.  The code adds it only
  when there is an owner (`sharablebase.go:298`): for a resource of a
  manager of system scope the lists `{d1}`, `{d2}`, `{d2}` merge into
  `{d2}`, a domain the first resource excludes.  Nothing under `src/` calls
  the merge, so whether it is ever given such a resource is not known.
* **`PublicLeavesSharesOfItsScope`** (action property, violated): after a
  successful request `public`, the shares the list shows
  (`FetchCustomizeColumns`) are those of the scope its filter
  (`ListItemFilter`) finds the resource under.

Suggest-system rules:

* **`JobsFollowRules`**: no request panics, and a driver that has rules runs
  at exactly the periods of its enabled rules, over creations, updates,
  stops and restarts; the one exception is the default job of a start that
  could not read the rows, until a request replaces it.
* **`EnabledRuleScheduled`**: the driver of every enabled rule has a job,
  also after a start that could not read the rows.
* **`FetchedSettingsAreShown`**: the settings the drivers fetch and the
  settings the list shows are one reading of the table, in whatever order
  the rows come: a fetch without error gives every rule asked for the
  setting the list shows for it, and a fetch with an error means the list
  shows a rule without its setting.  The fetch keeps one setting per type
  and stops at the first row it cannot decode; the list reads row by row
  and goes on.

Measurement queries:

* **`AsynAgreesWithSyn`**: an answer without error lists the measurements
  the sequential `getfilterMeasurementsSyn` lists, each once, whatever the
  order the goroutines finished in; a list gathered in part, before the
  timeout or a failed query, is never returned as an answer.
* **`TagValuesAreTheUnion`**: for every tag key the values returned are the
  union of the values of the series, each once, whatever the order of the
  answers.
* **`SendNeverBlocks`**: a worker never waits at its send, so it cannot be
  left behind by a gatherer that went away at the timeout.
* **`RequestReturns`** (liveness): every request returns, also when a query
  fails and no answer will come.
* **`DefaultIsUnique`**: the table never holds two rows `default`, however
  many turns of `initF` run: a turn inserts only after a read that found no
  row, never after a read that failed.
* **`ServiceBecomesReady`** (liveness): once the table and the identity
  service answer for good, `GetDefaultSource` finds its row from some
  moment on, so that requests are no longer refused for the lack of it.
  The turns of `initF` that ended early during the outages leave nothing
  behind that keeps a later turn from inserting.  Nothing is promised
  while the outages go on.

List filters:

* **`ListedIsAsked`** (action property): the rows a query gives are the rows
  whose details, as `FetchCustomizeColumns` shows them at that moment, match
  every filter of the request.  A request without filter lists the rows
  that have no storage, or a deleted one, because the subquery is added only
  when it is altered; a request with a filter on the zone, the manager, the
  wire or the type leaves them out.
* **`ColumnsAligned`** (action property): the infos returned are one per row
  and in the order of the rows, each naming the parent of its row or
  nothing; the callers copy `rows[i]` to object `i`.
* **`DistinctIsShown`** (action property): the values offered for a field
  are the values the details of the rows show for it, without the empty
  one.
* **`OrderedFieldsAreJoined`**: an order on a column of the parents' table is
  given only when that table is joined to the query; the join is decided
  from `GetOrderByFields`, each order from the test of its own field.

HTTP client:

* **`ErrorIffNotSuccess`**: `JSONRequest` and `ParseResponse` return without
  error exactly when the server answered, the body was read and the status
  is below 300.
* **`ErrorCodeTellsFailure`**: `ErrorCode(err)` is 0 only for no error,
  whatever the body of a failed answer names as its code.
* **`CallReturns`** (liveness): a call that was sent returns, also when the
  server never answers or stalls in the body, with every client the package
  builds; a `Timeout` of zero is no timeout, and the call then ends only
  because `GetClient` asks for the transport whose connections have a
  deadline.
* **`ParserReturns`** (violated): no answer makes a parser panic.

### Findings

| Run | Source | What the code does |
|---|---|---|
| `sync_two_keys` | `loadbalancerclusterresource.go:619` | The class lock is taken under `GetLockClassKey(man, userCred)`, a function of the credential; the specification asks for an exclusive lock on the VPC for the whole pass.  Two passes over one VPC under different keys both read an empty table and both insert external id `x1`: two rows of one VPC with one external id. |
| `share_stale_rows` | `sharablebase.go:413` | The domain and system cases of `SharablePerformPublic` clean the shares of the other target types; the project case does not.  In the trace a domain resource is shared with a domain and then made public with scope project and no projects: it ends private and keeps its domain row.  When the second request names a project, the resource stays public and the list filter (240-243) still returns it to the domain of the first request. |
| `rule_job_keys` | `suggestsysrule.go:205` | `PostCreate` and `PostUpdate` keep the job under the name of the rule; `InitSuggestSysRuleCronjob` keeps it under the type.  In the trace the service starts with the default jobs `eip` and `disk`, and a disabled rule named `eip` of type `disk` is created: `PostCreate` removes the job `eip`, which belongs to another driver, and the job `disk` keeps running for a rule that is disabled.  `PostCreate` takes the driver from the type (line 209), `PostUpdate` from the name (line 221), so the update of an enabled rule whose name is no registered type calls a method of a nil driver. |
| `query_window` | `datasource.go:284` | `getFromAndToFromParam` reads the key `form`; the `from` of a request is ignored and the window is always the default of six hours. |
| `http_error_body` | `httputils.go:687` | For a status of 400 or more with the body `{}`, `jrbody2` stays the nil interface and `jrbody2.GetString("code")` panics. |

Two more things the models show, which no run states as a property because
nothing says what the code is to do: `ParseJSONResponseUseBufio` reads into
a slice of length 0 and so never returns a body
(`httputils.go:729`); `JsonClient.Send` with a `JSONClientError` returns no
error for a status of 400 or more whose body names no code, class or
details (`httputils.go:560`).

In `SharablePerformPublic` the privilege of the caller is tested
(`sharablebase.go:449`) after `shareToTarget` has rewritten the rows: a
request that is refused there has changed the shares already, and the list
filter reads them.  `Sharable` has that order; `GrantedIsListed` and
`PublicFlagMatchesScope` hold over the states it leaves.  What does not
hold over them is that a private resource is listed for its owner only:
`SharablePerformPrivate` returns at once when the resource is not public
and its scope is `none` (`sharablebase.go:472`), which is the state the
refused request left the columns in, so the rows that request wrote stay.
After create, a refused share with project `p2` and a successful
`private`, the filter of a project-scope list still returns the resource
to `p2`; TLC finds the four states when the statement is added to
`Sharable.cfg` as an action property.  No run keeps it, because the one
run of `Sharable` that states a disagreement is `share_stale_rows`.

A third: with two instances of the monitor service (`Replica = {m1, m2}`
in `MeasurementQuery.cfg`) TLC breaks `DefaultIsUnique` in four steps, both
instances reading an empty table before either inserts; from then on
`GetDefaultSource` fails in every instance.  The run keeps one instance,
because nothing under `src/` says whether the service is run more than
once or whether the table refuses a second row of a name
(`datasource.go:118`, a hazard in `PROJECT.json`).  A fourth:
`SStorageResourceBaseManager.FetchCustomizeColumns` returns nil when the
storages cannot be fetched, where the cluster base returns one empty info
per row (`storageresource.go:69`).

### Bounds

| Run | Bounds | Why they are enough |
|---|---|---|
| `sync_passes` | 2 passes at a time, `MaxPasses` 2, 1 editor, `MaxEdits` 1, 2 VPCs, 2 external ids, 2 route types, 2 route values, `MaxRows` 4 | every race is between two passes or a pass and a request; with two ids a pass removes one row and keeps or adds another, so all three loops run in one pass; a second pass runs on what the first left, or on the other VPC with the same external ids, the case a lost filter would confuse; the edit falls before or after the snapshot |
| `route_requests` | 1 network and 1 host address, each in two written forms, requests and reports of the provider of up to 2 routes | a duplicate needs two routes, a confusion of forms two forms of one destination; a pass can replace a table of two routes by one of none, one or two; the provider reports normal, distinct destinations (`MCCloudRoutes`), an assumption about the environment |
| `share_visibility` | 2 projects, 2 domains, all scopes, every well- and ill-formed scope word; reads that succeed and reads that fail; the owner's list and up to 2 lists of other resources; up to 3 lists of required domains | owner and stranger in the same and in another domain; an empty list can come first, last or between two that are not |
| `rule_jobs` | 3 types of which 2 have a driver, 3 periods and a bad one, 3 settings (absent, decodable, not decodable) | a type without a driver, a change between two periods that are not the default; a row that cannot be decoded before and after one that can |
| `query_gather` | 1 instance of the service, outages that begin and end at any time, 2 items, 2 tag keys (1 hidden), 3 values (1 filtered), series of up to 2 points | the turns of one instance repeat without bound, the case a lost test would insert in; two answers can arrive in both orders, one can fail while the other is sent, a value can occur in both series |
| `list_filters` | 2 storages (one local, one shared, in two zones, one without manager), 2 clusters in two zones, 3 disks of which one has no storage, 2 resources of clusters; every query over these and an unknown name; orders asked or not per field | a row without parent and a row whose parent is deleted are the cases the subquery and the joins treat apart; two rows make an order of the details; a filter can match one storage and not the other |
| `http_errors` | statuses 200, 300, 400, 500; ten bodies; every method; `Timeouts` 0 and 30 | the edges of the three classes of status, and one body of each form the parsers tell apart; a client with a timeout, one without, and the default |

Counters that the code does not bound are bounded in guards by a named
constant (`MaxPasses`, `MaxEdits`, `MaxRows`, `MaxLen`, `MaxSeries`).  A
pass is started only while `nextId + |ExtId| <= MaxRows + 1`, so that an
insert never lacks an id; this is a bound of the model, not a condition of
the code.

### Fairness

* `RouteTableSync` assumes weak fairness of each pass's next step and of
  each request's final write: both are goroutines, and the Go scheduler
  keeps running a goroutine that is able to run.  No fairness is assumed of
  `Call` or `EditBegin`: nothing obliges a client to send a request.  Weak
  fairness is enough for `PassTerminates` because the numbers of passes and
  requests are bounded; with unboundedly many requests on one row,
  termination would depend on the fairness of `lockman`.
* `MeasurementQuery` assumes weak fairness of `Query`, `Send`, `Gather` and
  `Return` (goroutines) and of `Timeout`: the context is made with
  `context.WithTimeout`, and its timer fires.  The query of a worker is
  assumed to end, with an answer or an error; the HTTP client it uses has a
  timeout of its own.  No fairness is assumed of the arrival of requests.
  Of the default source it assumes weak fairness of the two steps of a
  turn of `initF`, and nothing else: `wait.Forever` starts the turn again,
  and a turn that has read the table goes on to its end.  `Outage` is a
  step of the environment and has no fairness; that the outages end is the
  hypothesis of `ServiceBecomesReady`, written in the property, not an
  assumption of the specification.
* `HttpClient` assumes weak fairness of `HeaderTimeout` and of `Parse`:
  the first is a timer of the client or of its transport, the second the
  calling goroutine, which runs when it can.  `HeaderTimeout` is enabled
  only for a client that has one of the two timers, and `Parse` of a
  stalled body only for a client whose read ends, so the property depends on
  what `GetClient` builds.  No fairness is assumed of `Do`: the server owes
  no answer.
* The other modules state safety only.

Deadlock is checked in every run; no module has a state without a
successor, because a service that is idle can always be called again
(`Quiescent`, `Forget`, and requests that are always possible).  `Wait`
of `HttpClient` is a goroutine blocked in a read: a step that changes
nothing, so that a call no timer ends shows as a call that never returns.

## 4. Not modelled

* The list of the route tables (`ListItemFilter`, `OrderByExtraFields`,
  `QueryDistinctExtraField`, `FetchCustomizeColumns`, `getVpc`,
  `getRegion`): each passes the request on to the managers of the VPC and
  of the region, which are not under `src/`.  `routeTableBasename` and the
  names of rows: the sync pass does not branch on them.
* `ToServerCreateInput` and `ToDiskCreateInput` of `disk.go`: copies of
  fields without a branch; their callers are not under `src/`, so nothing
  says which fields must survive the two conversions.
* `cloudprovider.CompareRules` and the global VPC: the specification
  describes them, `src/` has no code of theirs to translate.
* The filters, orders and distinct fields of the zone, the manager and the
  wire, which the storage and cluster bases call: not under `src/`;
  `ResourceList` has what the bases pass to them and read from them.
* The CLI (`unnamed/part_000`), constants and request structs (`part_004`,
  `part_005`, `pkg/apis/...`), `GetMonitorData` of OpenStack: declarations
  and single calls.
* Names, metadata and the operation log of the sync pass: they do not
  influence its control flow.
* Of `datasource.go`: `getTagValue` (its one call is commented out),
  `GetSource` and `ToTSDBDataSource` (one read and a copy of fields),
  `renderTimeFilter` and the texts of the queries (the window of a request
  is a model value), and the address of InfluxDB in the row.
* Of `httputils.go`: `SetClientProxyFunc` (it sets a field of a transport
  no call of the model reads), the accessors of `JsonBaseRequest`, the
  options of the transports other than their timers, the dump of requests
  and responses, trace headers.  `getConnDelegate`, which gives the
  connections their deadline, is not under `src/`; `adptiveDial` is modelled
  by what its comment and its use say of it.
* `EIPUnused.Validate` of the API types: nothing under `src/` calls it.

## 5. Plan

Done: `RouteTableSync`, `RouteTable` with `RouteMap` and the authorisation
of its requests, `Sharable` with its reads and merges, `SuggestSysRule` with
its reads, `MeasurementQuery` with the default data source, `HttpClient`
with its clients and timers, `ResourceList`.

Next, in this order:

1. `RouteTable`: the forms of cidr the providers report, once their code is
   at hand, in place of the assumption `MCCloudRoutes`.
2. `HttpClient`: a property that compares a traced call with an untraced
   one (`GetAddrPort` and IPv6 literals).
3. `Sharable`: the privilege test of `SharablePerformPublic` that comes
   after the rows were rewritten, and the early return of
   `SharablePerformPrivate` that keeps them, stated as a property of
   refused requests once it is settled which of the two the code is to
   change.
4. `MeasurementQuery` with two instances of the service, once it is known
   whether the table refuses a second row of a name.
