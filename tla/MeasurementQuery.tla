-------------------------- MODULE MeasurementQuery --------------------------
(***************************************************************************)
(* The two requests of the monitor service that fan a question out to one  *)
(* goroutine per item and gather the answers from a channel                *)
(* (src/pkg/monitor/models/datasource.go):                                 *)
(*                                                                         *)
(*   GetMeasurements       one query per measurement, keeping the          *)
(*                         measurements that have data in the time window; *)
(*   GetMetricMeasurement  one query per field key of a measurement,       *)
(*                         merging the tag values the series carry.        *)
(*                                                                         *)
(* Both start an errgroup: the workers send their answer on a buffered     *)
(* channel, a gatherer receives count answers or gives up when the         *)
(* context of the request times out, and the request returns when every    *)
(* goroutine of the group has returned.                                    *)
(*                                                                         *)
(* Every request reads the data source named "default" first.  The row is  *)
(* written by initDefaultDataSource, which every instance of the service   *)
(* runs every 30 seconds for as long as it lives: it looks for the row     *)
(* and, when there is none, asks the identity service for the address of   *)
(* InfluxDB and inserts one.                                               *)
(***************************************************************************)
EXTENDS Naturals, Sequences, FiniteSets, SequencesExt

CONSTANTS
    Item,          \* measurements, and field keys of a measurement
    Tag,           \* tag keys
    HiddenTag,     \* the tag keys filterTagKey drops ("..._id", filterKey)
    Val,           \* tag values
    Unshown,       \* the values that are empty, "null" or look like an id
    Window,        \* time windows a request can name
    FromSent,      \* what requests carry under the key "from"
    FormSent,      \* what requests carry under the key "form"
    DefaultWindow, \* "6h"
    MaxSeries,     \* bound: tagged values one query returns
    Replica,       \* the instances of the monitor service
    Missing,       \* the request has no such key
    Empty,         \* an InfluxMeasurement without a name
    None

ASSUME /\ HiddenTag \subseteq Tag
       /\ Unshown \subseteq Val
       /\ DefaultWindow \in Window
       /\ FromSent \cup FormSent \subseteq Window \cup {Missing}
       /\ MaxSeries \in Nat

VARIABLES
    sources,   \* datasources_tbl: the number of rows named "default"
    initF,     \* per instance: "idle", or "missing" after it found no row
    up,        \* the table, the identity service and its catalog answer
    pc,        \* "idle", "waiting" in Wait() of the group, "returned"
    req,       \* the request and what the database holds for it
    worker,    \* the goroutine of each item
    chan,      \* queryRtnChan / rtnChan
    gatherer,  \* the goroutine that receives: [n received, st]
    timedOut,  \* ctx.Done() is closed
    err,       \* the first error of the errgroup
    out,       \* filterMeasurements, and output.TagValue
    result     \* what the request returned

table   == <<sources, initF, up>>
request == <<pc, req, worker, chan, gatherer, timedOut, err, out, result>>
vars    == <<table, request>>

TagValues == [Tag -> Seq(Val)]

NoTagValues == [t \in Tag |-> <<>>]

\* What a query of a field returns, flattened: the tags of its series.
Series == BoundedSeq(Tag \X Val, MaxSeries)

-----------------------------------------------------------------------------
(* Helpers of the handlers *)

WindowAsked(q) == IF q.from = Missing THEN DefaultWindow ELSE q.from

\* getFromAndToFromParam: the window of the request, read under the key
\* "form".
WindowOf(q) == IF q.form = Missing THEN DefaultWindow ELSE q.form

\* filterTagKey: a key that holds "_id" or is one of filterKey.
FilterTagKey(k) == k \in HiddenTag

\* filterTagValue: a value that holds something of the form of an id; here
\* also the values the worker drops as empty or "null".
FilterTagValue(v) == v \in Unshown

ShownKeysAll(keys) == keys

\* getAttributesOnMeasurement: the keys the database lists, less the hidden.
ShownKeys(keys) == {k \in keys : ~FilterTagKey(k)}

CapacityOne(items) == 1

\* make(chan ..., len(measurements))
Capacity(items) == Cardinality(items)

\* getfilterMeasurementsSyn: one query for all measurements, in the order of
\* the list.
Syn(measurements, data) == SelectSeq(measurements, LAMBDA i : i \in data)

AnsweredWithName(i, data) == i

\* getFilterMeasurement: the name when the count query has a result.
Answered(i, data) == IF i \in data THEN i ELSE Empty

UnionAppending(s1, s2) == s1 \o s2

\* union: slice1 and the values of slice2 that slice1 has not.
Union(s1, s2) == s1 \o SelectSeq(s2, LAMBDA v : v \notin ToSet(s1))

\* tagValUnion
TagValUnion(tv, rtn, tagKeys) ==
    [t \in Tag |-> IF t \in tagKeys THEN Union(tv[t], rtn[t]) ELSE tv[t]]

\* getFilterMeasurementTagValue: the values of the tag keys of the
\* measurement, each once, without the unshown ones.
TagValMap(series, tagKeys) ==
    FoldLeft(LAMBDA tv, p :
                 IF \/ FilterTagValue(p[2])
                    \/ p[1] \notin tagKeys
                    \/ p[2] \in ToSet(tv[p[1]])
                 THEN tv ELSE [tv EXCEPT ![p[1]] = Append(@, p[2])],
             NoTagValues, series)

-----------------------------------------------------------------------------
(* The default data source *)

\* db.FetchByName: the row of that name, when there is exactly one.
FetchByName(rows) ==
    CASE rows = 0 -> "notfound"
      [] rows = 1 -> "found"
      [] OTHER    -> "duplicate"

\* GetDefaultSource: what a caller is told now; the read fails while the
\* table does not answer.
DefaultSourceRead == {IF up THEN FetchByName(sources) ELSE "dberror"}

InsertsUnlessError(r) == r # "dberror"

InsertsNever(r) == FALSE

\* initF inserts only when GetDefaultSource said ErrDataSourceDefaultNotFound.
InsertsAfter(r) == r = "notfound"

\* The first half of initF: the table is read.  Whatever is not "no such
\* row" ends this turn.
InitCheck(m) ==
    /\ initF[m] = "idle"
    /\ \E r \in DefaultSourceRead :
          initF' = [initF EXCEPT ![m] = IF InsertsAfter(r) THEN "missing" ELSE @]
    /\ UNCHANGED <<sources, up, request>>

\* There is no admin session, or the catalog has no public address for
\* influxdb, or the insert fails: logged, and the turn is over.
InitGiveUp(m) ==
    /\ initF[m] = "missing"
    /\ ~up
    /\ initF' = [initF EXCEPT ![m] = "idle"]
    /\ UNCHANGED <<sources, up, request>>

\* The second half: the row is inserted, without another look at the table.
InitInsert(m) ==
    /\ initF[m] = "missing"
    /\ up
    /\ sources' = sources + 1
    /\ initF' = [initF EXCEPT ![m] = "idle"]
    /\ UNCHANGED <<up, request>>

\* The database or the identity service goes away or comes back, at any
\* moment and as often as it likes.
Outage ==
    /\ up' = ~up
    /\ UNCHANGED <<sources, initF, request>>

-----------------------------------------------------------------------------
(* The request *)

\* A request of either kind; the fields of the other kind are empty.
RequestOK(q) ==
    /\ q.kind \in {"measurements", "metric"}
    /\ {q.from, q.form} \subseteq Window \cup {Missing}
    /\ q.items \subseteq Item
    /\ q.data \subseteq q.items
    /\ q.tagKeys \subseteq Tag \ HiddenTag
    /\ DOMAIN q.series = q.items
    /\ \A i \in q.items : /\ Len(q.series[i]) <= MaxSeries
                          /\ ToSet(q.series[i]) \subseteq Tag \X Val

\* A new deployment: the table is empty and no instance has looked yet.
Init ==
    /\ sources = 0
    /\ initF = [m \in Replica |-> "idle"]
    /\ up \in BOOLEAN
    /\ pc = "idle"
    /\ req = None
    /\ worker = [i \in Item |-> "none"]
    /\ chan = <<>>
    /\ gatherer = [n |-> 0, st |-> "none"]
    /\ timedOut = FALSE
    /\ err = None
    /\ out = [list |-> <<>>, tags |-> NoTagValues]
    /\ result = None

NoResult(e) == [err |-> e, list |-> <<>>, tags |-> NoTagValues]

\* A request returns before any goroutine starts.
Refused(e) ==
    /\ pc = "idle"
    /\ pc' = "returned"
    /\ result' = NoResult(e)
    /\ UNCHANGED <<req, worker, chan, gatherer, timedOut, err, out, table>>

\* No database or no measurement is named: refused before the table is
\* read.
RefusedInput == Refused("input")

\* GetDefaultSource fails: there is no row "default", or FetchByName finds
\* several, or the table cannot be read.
RefusedSource == \E r \in DefaultSourceRead \ {"found"} : Refused(r)

\* With the data source at hand a query that prepares the request fails,
\* or the window of the request is not valid.
RefusedLater(e) ==
    /\ "found" \in DefaultSourceRead
    /\ Refused(e)

\* GetDatabases, AddSubscription and DropSubscription: the data source is
\* read, one statement is sent to it, and its answer or its error returned.
Statement ==
    \/ RefusedSource
    \/ RefusedLater("query")
    \/ RefusedLater(None)

GetDatabases == Statement

AddSubscription == Statement

DropSubscription == Statement

\* The goroutines of the group are started, one for each item of q and the
\* gatherer.
Start(items, q) ==
    /\ pc = "idle"
    /\ "found" \in DefaultSourceRead
    /\ pc' = "waiting"
    /\ req' = q
    /\ worker' = [i \in Item |-> IF i \in items THEN "running" ELSE "none"]
    /\ chan' = <<>>
    /\ gatherer' = [n |-> 0, st |-> "running"]
    /\ timedOut' = FALSE
    /\ err' = None
    /\ out' = [list |-> <<>>, tags |-> NoTagValues]
    /\ result' = None
    /\ UNCHANGED table

\* GetMeasurements: SHOW MEASUREMENTS lists the items, data are the ones
\* with values in the window of the request.
GetMeasurements(from, form, items, data) ==
    Start(items, [from |-> from, form |-> form, items |-> items,
                  data |-> data, tagKeys |-> {},
                  series |-> [i \in items |-> <<>>], kind |-> "measurements"])

\* GetMetricMeasurement: the field keys and the tag keys of the measurement
\* are read first; series is what the query of each field returns.
GetMetricMeasurement(from, form, fields, keys, series) ==
    Start(fields, [from |-> from, form |-> form, items |-> fields,
                   data |-> {}, tagKeys |-> ShownKeys(keys),
                   series |-> series, kind |-> "metric"])

\* The answer of the worker of item i.
Reply(i) ==
    IF req.kind = "measurements"
    THEN Answered(i, req.data)
    ELSE TagValMap(req.series[i], req.tagKeys)

\* The first error of the group is the one Wait returns.
FirstError(e) == IF err = None THEN e ELSE err

\* A worker: its query fails and it returns the error without sending, or
\* it has an answer to send.
Query(i) ==
    /\ worker[i] = "running"
    /\ \/ /\ worker' = [worker EXCEPT ![i] = "failed"]
          /\ err' = FirstError("query")
       \/ /\ worker' = [worker EXCEPT ![i] = "sending"]
          /\ UNCHANGED err
    /\ UNCHANGED <<pc, req, chan, gatherer, timedOut, out, result, table>>

\* The worker sends its answer, which waits while the channel is full, and
\* returns nil.
Send(i) ==
    /\ worker[i] = "sending"
    /\ Len(chan) < Capacity(req.items)
    /\ chan' = Append(chan, Reply(i))
    /\ worker' = [worker EXCEPT ![i] = "sent"]
    /\ UNCHANGED <<pc, req, gatherer, timedOut, err, out, result, table>>

\* What the gatherer does with an answer.
Gathered(a) ==
    IF req.kind = "measurements"
    THEN [out EXCEPT !.list = IF a = Empty THEN @ ELSE Append(@, a)]
    ELSE [out EXCEPT !.tags = TagValUnion(@, a, req.tagKeys)]

Count == Cardinality(req.items)

\* One turn of the loop of the gatherer: an answer, or the end of the time
\* the request has; after count answers it returns nil.
Gather ==
    /\ gatherer.st = "running"
    /\ \/ /\ gatherer.n < Count
          /\ chan # <<>>
          /\ out' = Gathered(Head(chan))
          /\ chan' = Tail(chan)
          /\ gatherer' = [gatherer EXCEPT !.n = @ + 1]
          /\ UNCHANGED err
       \/ /\ gatherer.n < Count
          /\ timedOut
          /\ gatherer' = [gatherer EXCEPT !.st = "timeout"]
          /\ err' = FirstError("timeout")
          /\ UNCHANGED <<chan, out>>
       \/ /\ gatherer.n = Count
          /\ gatherer' = [gatherer EXCEPT !.st = "done"]
          /\ UNCHANGED <<chan, out, err>>
    /\ UNCHANGED <<pc, req, worker, timedOut, result, table>>

TimeoutNever ==
    /\ pc = "waiting"
    /\ UNCHANGED vars

\* context.WithTimeout: the time of the request is over.
Timeout ==
    /\ pc = "waiting"
    /\ ~timedOut
    /\ timedOut' = TRUE
    /\ UNCHANGED <<pc, req, worker, chan, gatherer, err, out, result, table>>

AllReturned ==
    /\ \A i \in Item : worker[i] \notin {"running", "sending"}
    /\ gatherer.st # "running"

\* measurementQueryGroup.Wait() returns, and the request with it: the
\* answer, or the first error.
Return ==
    /\ pc = "waiting"
    /\ AllReturned
    /\ pc' = "returned"
    /\ result' = IF err = None
                 THEN [err |-> None, list |-> out.list, tags |-> out.tags]
                 ELSE NoResult(err)
    /\ UNCHANGED <<req, worker, chan, gatherer, timedOut, err, out, table>>

\* The request is over, and nothing of it is kept: the next one makes its
\* own channel, context and group.
Forget ==
    /\ pc = "returned"
    /\ pc' = "idle"
    /\ req' = None
    /\ worker' = [i \in Item |-> "none"]
    /\ chan' = <<>>
    /\ gatherer' = [n |-> 0, st |-> "none"]
    /\ timedOut' = FALSE
    /\ err' = None
    /\ out' = [list |-> <<>>, tags |-> NoTagValues]
    /\ result' = None
    /\ UNCHANGED table

\* One request is followed from its arrival to its return: requests share
\* no state, so inputs are drawn only while none is being served.
Arriving(S) == IF pc = "idle" THEN S ELSE {}

Next ==
    \/ \E m \in Replica : InitCheck(m) \/ InitGiveUp(m) \/ InitInsert(m)
    \/ Outage
    \/ RefusedInput
    \/ RefusedSource
    \/ \E e \in {"query", "window"} : RefusedLater(e)
    \/ GetDatabases
    \/ AddSubscription
    \/ DropSubscription
    \/ \E items \in Arriving(SUBSET Item), from \in FromSent, form \in FormSent :
          \E data \in SUBSET items :
            GetMeasurements(from, form, items, data)
    \/ \E fields \in Arriving(SUBSET Item), from \in FromSent, form \in FormSent,
          keys \in SUBSET Tag :
          \E series \in [fields -> Series] :
            GetMetricMeasurement(from, form, fields, keys, series)
    \/ \E i \in Item : Query(i)
    \/ \E i \in Item : Send(i)
    \/ Gather
    \/ Timeout
    \/ Return
    \/ Forget

\* The goroutines run when they can, the queries of the workers are
\* answered or fail, and the timer of the context fires.
\* initF is called again every 30 seconds (wait.Forever) and a turn of it
\* runs to its end; nothing is assumed of the table and of the identity
\* service, whose outages are not fair.
Fairness ==
    /\ \A m \in Replica : /\ WF_vars(InitCheck(m))
                           /\ WF_vars(InitInsert(m) \/ InitGiveUp(m))
    /\ \A i \in Item : WF_vars(Query(i)) /\ WF_vars(Send(i))
    /\ WF_vars(Gather)
    /\ WF_vars(Timeout)
    /\ WF_vars(Return)

Spec == Init /\ [][Next]_vars /\ Fairness

-----------------------------------------------------------------------------
(* Properties *)

TypeOK ==
    /\ sources \in Nat
    /\ initF \in [Replica -> {"idle", "missing"}]
    /\ up \in BOOLEAN
    /\ pc \in {"idle", "waiting", "returned"}
    /\ req # None => RequestOK(req)
    /\ worker \in [Item -> {"none", "running", "sending", "sent", "failed"}]
    /\ chan \in Seq(Item \cup {Empty} \cup TagValues)
    /\ gatherer \in [n : 0..Cardinality(Item),
                     st : {"none", "running", "done", "timeout"}]
    /\ timedOut \in BOOLEAN
    /\ err \in {None, "query", "timeout"}
    /\ out \in [list : Seq(Item), tags : TagValues]
    /\ result \in {None} \cup [err : {None, "input", "notfound", "duplicate",
                                      "dberror", "query", "window", "timeout"},
                               list : Seq(Item), tags : TagValues]

Answer == pc = "returned" /\ req # None /\ result.err = None

\* A list of measurements that is returned without an error holds, each
\* once and in whatever order the goroutines answered, exactly the
\* measurements the one query of getfilterMeasurementsSyn would have kept.
AsynAgreesWithSyn ==
    (Answer /\ req.kind = "measurements") =>
        /\ ToSet(result.list) = ToSet(Syn(SetToSeq(req.items), req.data))
        /\ Len(result.list) = Cardinality(ToSet(result.list))

\* The tag values that are returned without an error are, for every tag
\* key of the measurement, the values some series of some field carries,
\* each once, whatever the order in which tagValUnion met the answers; a
\* hidden key and an unshown value are never among them.
TagValuesAreTheUnion ==
    (Answer /\ req.kind = "metric") =>
        \A t \in Tag :
            /\ ToSet(result.tags[t]) =
                  {v \in Val \ Unshown :
                      /\ t \in req.tagKeys
                      /\ \E i \in req.items : <<t, v>> \in ToSet(req.series[i])}
            /\ Len(result.tags[t]) = Cardinality(ToSet(result.tags[t]))

\* A worker that has its answer never waits to send it, whether the
\* gatherer is still receiving, has given up at the timeout or was never
\* scheduled: the channel has room for the answers of all workers
\* (getFilterMeasurement and getFilterMeasurementTagValue send without a
\* select, so a worker that had to wait after the gatherer left would keep
\* Wait, and the request, for ever).
SendNeverBlocks ==
    \A i \in Item : worker[i] = "sending" => Len(chan) < Capacity(req.items)

\* Every request returns, also when a query failed and its answer never
\* comes: the gatherer then leaves at the timeout of the context, and Wait
\* has nobody left to wait for.
RequestReturns == (pc = "waiting") ~> (pc = "returned")

\* The table never holds two rows named "default", however often initF
\* runs and wherever a turn of it ends: an instance inserts only after it
\* has read the table and found none (the two returns at the head of initF
\* in initDefaultDataSource).  With two rows GetDefaultSource fails for
\* every request, and initF no longer repairs it.
DefaultIsUnique == sources <= 1

\* Once the table and the identity service answer for good, the service
\* becomes ready and stays so, however many turns of initF found the table
\* unreadable, no session, no address or a failing insert before: initF
\* comes again every 30 seconds, a turn that finds no row inserts one, and
\* from then on GetDefaultSource finds it for every request
\* (initDefaultDataSource under wait.Forever).  Nothing is promised while
\* the outages go on.
ServiceBecomesReady == <>[]up => <>[](FetchByName(sources) = "found")

\* The time window a request names is the one its queries use
\* (getFromAndToFromParam).
WindowIsTheOneAsked ==
    (pc = "waiting") => WindowOf(req) = WindowAsked(req)

=============================================================================
