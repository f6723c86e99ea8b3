------------------------------ MODULE RouteMap ------------------------------
(***************************************************************************)
(* What the route-editing requests of a route table promise, whatever the  *)
(* representation: the table is a map from destinations to route types.   *)
(* Routes are added without touching the destinations the table already    *)
(* has, and removed by destination unless they are system routes.  Every   *)
(* step is that of one request, and arg is what the request named.         *)
(***************************************************************************)
CONSTANTS
    Key,        \* destinations, in the form the table stores them
    RouteType,  \* types of routes
    System,     \* the type of the routes a request cannot delete
    NoRoute,    \* the table has no route to that destination
    NoArg       \* the request named no routes, or was refused

ASSUME System \in RouteType /\ NoRoute \notin RouteType

VARIABLES
    alive,  \* the route table exists
    rmap,   \* destination -> type of its route, or NoRoute
    op,     \* the kind of the last request
    arg     \* the routes, or the destinations, the last request named

rmvars == <<alive, rmap, op, arg>>

RouteMaps == [Key -> RouteType \cup {NoRoute}]

\* The destinations a del-routes request names, as their indicator.
KeySets == [Key -> BOOLEAN]

Empty == [k \in Key |-> NoRoute]

Ops ==
    {"none", "create", "update", "add-routes", "del-routes", "purge", "sync"}

RMInit == alive = FALSE /\ rmap = Empty /\ op = "none" /\ arg = NoArg

Named(o, A) == op' = o /\ arg' \in A

\* A table is created with the routes of the request.
Create == ~alive /\ alive' = TRUE /\ Named("create", RouteMaps) /\ rmap' = arg'

\* An update replaces the routes as a whole.
Replace == alive /\ Named("update", RouteMaps) /\ rmap' = arg' /\ UNCHANGED alive

\* Adding never changes the route of a destination the table has, and
\* gives every other destination the route the request names for it.
Add ==
    /\ alive
    /\ Named("add-routes", RouteMaps)
    /\ rmap' = [k \in Key |-> IF rmap[k] # NoRoute THEN rmap[k] ELSE arg'[k]]
    /\ UNCHANGED alive

\* Deleting removes the named destinations, system routes excepted, and no
\* other.
Del ==
    /\ alive
    /\ Named("del-routes", KeySets)
    /\ rmap' = [k \in Key |-> IF arg'[k] /\ rmap[k] # System THEN NoRoute
                                                               ELSE rmap[k]]
    /\ UNCHANGED alive

Drop == alive /\ alive' = FALSE /\ rmap' = Empty /\ Named("purge", {NoArg})

\* A sync pass makes the table what the cloud has: the routes it reports,
\* or no table.
Reconcile ==
    \/ alive' = TRUE /\ Named("sync", RouteMaps) /\ rmap' = arg'
    \/ alive /\ alive' = FALSE /\ rmap' = Empty /\ Named("sync", {NoArg})

\* A request that is refused changes nothing.
Refused == op' \in Ops /\ arg' = NoArg /\ UNCHANGED <<alive, rmap>>

RMNext == Refused \/ Drop \/ Del \/ Create \/ Replace \/ Add \/ Reconcile

RMSpec == RMInit /\ [][RMNext]_rmvars

=============================================================================
