------------------------------ MODULE Sharable ------------------------------
(***************************************************************************)
(* Sharing of one resource (src/pkg/cloudcommon/db/sharablebase.go): its   *)
(* creation, the requests "public" and "private", and the two definitions  *)
(* of who sees the resource, the filter of list queries and the check of   *)
(* a single resource.                                                      *)
(*                                                                         *)
(* A request runs under the object lock of the resource, so it is one      *)
(* step; it writes the shared_resources rows and the row of the resource   *)
(* in separate statements, and may fail between them.                      *)
(***************************************************************************)
EXTENDS Naturals, Sequences

LOCAL INSTANCE SequencesExt

CONSTANTS
    Project,        \* projects a resource can be shared with
    Domain,         \* domains a resource can be shared with
    OwnerProject,   \* the project that owns the resource
    OwnerDomain,    \* the domain that owns the resource
    ResourceScope,  \* scopes of the managers: of "project", "domain", "system"
    None            \* no resource, no value

ASSUME /\ OwnerProject \in Project
       /\ OwnerDomain \in Domain
       /\ ResourceScope \subseteq {"project", "domain", "system"}

VARIABLES
    rscope,       \* ResourceScope() of the resource's manager, None: no resource
    isPublic,     \* SSharableBaseResource.IsPublic
    publicScope,  \* SSharableBaseResource.PublicScope
    shares,       \* shared_resources rows of the resource, by target type
    last          \* the last request and whether it returned without error

vars == <<rscope, isPublic, publicScope, shares, last>>

Scope == {"none", "project", "domain", "system"}

\* The order of the scopes; a word that is no scope ranks lowest.
Rank(s) ==
    CASE s = "project" -> 1
      [] s = "domain"  -> 2
      [] s = "system"  -> 3
      [] OTHER         -> 0

\* rbacutils.TRbacScope.HigherThan
HigherThan(a, b) == Rank(a) > Rank(b)

\* What a request can carry as a scope: a scope, nothing, or another word.
InputScope == Scope \cup {"", "other"}

NoShares == [project |-> {}, domain |-> {}]

Requester == [project : Project, domain : Domain]

\* GetOwnerId() of the models: a project resource is owned by a project of
\* a domain, a domain resource by a domain, and a resource of a manager of
\* system scope by nobody (nil).
Owner ==
    IF rscope \in {"project", "domain"}
    THEN [project |-> IF rscope = "project" THEN OwnerProject ELSE None,
          domain  |-> OwnerDomain]
    ELSE None

\* ownerId != nil && ownerId.GetProjectId() == id, and the same of the
\* domain.
OwnerIs(field, id) == Owner # None /\ Owner[field] = id

\* The domain of the owner, for ownerId != nil &&
\* len(ownerId.GetProjectDomainId()) > 0.
OwnerDomainIds ==
    IF Owner # None /\ Owner.domain # None THEN {Owner.domain} ELSE {}

-----------------------------------------------------------------------------
(* Who sees the resource *)

ListedByDomainOnly(req, qscope) ==
    CASE rscope = "project" /\ qscope = "project" ->
            \/ Owner.project = req.project
            \/ isPublic /\ publicScope = "system"
            \/ /\ isPublic /\ publicScope = "domain"
               /\ Owner.domain = req.domain \/ req.domain \in shares.domain
      [] \/ rscope = "domain" /\ qscope \in {"project", "domain"}
         \/ rscope = "project" /\ qscope = "domain" ->
            \/ Owner.domain = req.domain
            \/ isPublic /\ publicScope = "system"
            \/ isPublic /\ req.domain \in shares.domain
      [] OTHER -> TRUE

\* SharableManagerFilterByOwner: does a list query of the requester, made
\* with the query scope qscope, return the resource?
Listed(req, qscope) ==
    CASE rscope = "project" /\ qscope = "project" ->
            \/ Owner.project = req.project
            \/ isPublic /\ publicScope = "system"
            \/ /\ isPublic /\ publicScope = "domain"
               /\ Owner.domain = req.domain \/ req.domain \in shares.domain
            \/ req.project \in shares.project
      [] \/ rscope = "domain" /\ qscope \in {"project", "domain"}
         \/ rscope = "project" /\ qscope = "domain" ->
            \/ Owner.domain = req.domain
            \/ isPublic /\ publicScope = "system"
            \/ isPublic /\ req.domain \in shares.domain
      [] OTHER -> TRUE

\* SSharableBaseResource.GetIsPublic and GetPublicScope: the two columns.
GetIsPublic == isPublic

GetPublicScope == publicScope

\* SharableGetSharedProjects: the targets of one type as the rows name
\* them, and none when the query failed (the error is not returned).
SharableGetSharedProjects(targetType, queried) ==
    IF queried THEN shares[targetType] ELSE {}

\* SharableModelIsShared: has the resource a row?  A count that failed is
\* taken for zero.
SharableModelIsShared(counted) ==
    counted /\ shares.project \cup shares.domain # {}

\* SharableModelIsSharable: may the requester use the resource?  The rows
\* are counted by a query whose error is dropped: a count that failed is
\* zero.
IsSharable(req, counted) ==
    \/ GetIsPublic /\ GetPublicScope = "system"
    \/ /\ GetIsPublic /\ GetPublicScope = "domain"
       /\ \/ OwnerIs("domain", req.domain)
          \/ counted /\ req.domain \in shares.domain
    \/ /\ GetPublicScope = "project"
       /\ \/ OwnerIs("project", req.project)
          \/ counted /\ req.project \in shares.project

\* ISharableChangeOwnerCandidateDomainIds: the domains the resource may be
\* handed to; the empty set stands for "any".  GetSharedDomains of the
\* models reads the rows with SharableGetSharedProjects.
ChangeOwnerCandidateDomainIds(queried) ==
    IF GetIsPublic /\ GetPublicScope = "system"
    THEN {}
    ELSE (IF GetIsPublic /\ GetPublicScope = "domain"
          THEN SharableGetSharedProjects("domain", queried)
          ELSE {})
            \cup OwnerDomainIds

MergeWithoutOwner(candidates) ==
    FoldLeft(LAMBDA ret, cand : CASE cand = {} -> ret
                                  [] ret # {}  -> ret \cap cand
                                  [] OTHER     -> cand,
             {}, candidates)

\* ISharableMergeChangeOwnerCandidateDomainIds: the candidates of several
\* resources that change owner together, merged from left to right.  A list
\* that is empty allows any domain and is passed over; the domain of the
\* owner, when the resource has one, is added to every other list; the
\* lists are intersected, and a result that is empty is taken for "nothing
\* merged yet".
MergeChangeOwnerCandidateDomainIds(candidates) ==
    FoldLeft(LAMBDA ret, c : CASE c = {}      -> ret
                               [] ret # {}    -> ret \cap (c \cup OwnerDomainIds)
                               [] OTHER       -> c \cup OwnerDomainIds,
             {}, candidates)

\* ISharableMergeShareRequireDomainIds without its early return: a list that
\* is empty is passed over.
MergeSkippingEmpty(requiredIds) ==
    UNION {requiredIds[i] : i \in DOMAIN requiredIds}

\* ISharableMergeShareRequireDomainIds: the domains a resource must be shared
\* with, merged from the domains that each of its users requires.  The loop
\* stops at the first list that is empty and returns nothing, which the
\* request "public" reads as "require to be shared to system".
MergeShareRequireDomainIds(requiredIds) ==
    LET step(acc, req) ==
            CASE acc.stop -> acc
              [] req = {} -> [ret |-> {}, stop |-> TRUE]
              [] OTHER    -> [acc EXCEPT !.ret = @ \cup req]
    IN  FoldLeft(step, [ret |-> {}, stop |-> FALSE], requiredIds).ret

-----------------------------------------------------------------------------
(* The list: its filter on the two columns and the details of a row *)

\* SSharableBaseResourceManager.ListItemFilter: is the resource returned to
\* a query with is_public (None: not given) and public_scope ("": not
\* given)?
ListItemFilter(pub, scope) ==
    /\ rscope # None
    /\ pub # None => isPublic = pub
    /\ scope # "" => publicScope = scope

NoInfo == NoShares

\* SSharableBaseResourceManager.FetchCustomizeColumns: the targets shown with
\* the resource in a list, taken from the rows of its id in one query for
\* all the resources of the list; rows without targets when that query
\* failed.  The names of the projects and domains are left out.
FetchCustomizeColumns(fetched) ==
    IF fetched
    THEN [project |-> shares.project, domain |-> shares.domain]
    ELSE NoInfo

-----------------------------------------------------------------------------
(* Creation *)

SetShareAlwaysPublic(scope) == [pub |-> TRUE, scope |-> scope]

\* SetShare: the two columns for a scope.
SetShare(scope) == [pub |-> scope # "none", scope |-> scope]

\* SharableManagerValidateCreateData: the input as it is returned, with the
\* scope the caller must be allowed; Rejected for the two errors.
CreateInput(rs, pub, ps) ==
    CASE ps = ""                           -> [pub |-> pub, ps |-> ps, req |-> "none"]
      [] rs = "system"                     -> None
      [] ps = "system"                     -> [pub |-> TRUE, ps |-> ps, req |-> "system"]
      [] rs = "project" /\ ps = "domain"   -> [pub |-> TRUE, ps |-> ps, req |-> "domain"]
      [] pub = TRUE                        -> None
      [] OTHER                             -> [pub |-> None, ps |-> "none", req |-> rs]

\* SharableModelCustomizeCreate: without public_scope in the request, a
\* domain resource of an administrator's own domain starts shared with the
\* system, and every other resource starts private.
CustomizeCreate(rs, adminInOwnDomain) ==
    IF rs = "domain" /\ adminInOwnDomain THEN "system" ELSE "none"

Create(rs, pub, ps, allow, adminInOwnDomain) ==
    /\ rscope = None
    /\ LET in == CreateInput(rs, pub, ps)
           refused == IF in = None THEN TRUE ELSE HigherThan(in.req, allow)
       IN  \/ /\ refused
              /\ last' = [op |-> "create", ok |-> FALSE]
              /\ UNCHANGED <<rscope, isPublic, publicScope, shares>>
           \/ /\ ~refused
              /\ rscope' = rs
              /\ LET set == IF in.ps = ""
                            THEN SetShare(CustomizeCreate(rs, adminInOwnDomain))
                            ELSE [pub |-> in.pub = TRUE, scope |-> in.ps]
                 IN  isPublic' = set.pub /\ publicScope' = set.scope
              /\ last' = [op |-> "create", ok |-> TRUE]
              /\ UNCHANGED shares

-----------------------------------------------------------------------------
(* The request "public" *)

\* String2ScopeDefault(input.Scope, ScopeSystem), then the scope the lists
\* of the request imply.
TargetScope(scope, projects, domains) ==
    CASE projects # {} -> "project"
      [] domains # {}  -> "domain"
      [] OTHER         -> IF scope \in Scope THEN scope ELSE "system"

\* The shares as the calls of shareToTarget for one target scope leave
\* them when all succeed.  shareToTarget is not under src/: a call that
\* returns no error is taken to leave the rows of its target type equal to
\* the list it was given, whatever candidateIds and requireIds it is passed.
SharedTo(target, projects, domains) ==
    CASE target = "project" -> [shares EXCEPT !.project = projects]
      [] target = "domain"  -> [project |-> {}, domain |-> domains]
      [] target = "system"  -> NoShares
      [] OTHER              -> shares

\* The states of the rows a failure between two calls of shareToTarget
\* leaves: the projects are cleaned before the domains are written.
SharedPartly(target) ==
    IF target \in {"domain", "system"}
    THEN {[shares EXCEPT !.project = {}]}
    ELSE {}

ScopeSetZeroValue(target, now) ==
    CASE target = "project" /\ now.project = {}                    -> ""
      [] target = "domain" /\ now.domain = {} /\ rscope = "domain" -> ""
      [] OTHER                                                     -> target

\* The scope that is set: none when nothing is left to share with.
ScopeSet(target, now) ==
    CASE target = "project" /\ now.project = {}                    -> "none"
      [] target = "domain" /\ now.domain = {} /\ rscope = "domain" -> "none"
      [] OTHER                                                     -> target

\* The checks made before anything is written: the scope asked for against
\* the scope of the resource, the two lists, and what the resource requires
\* (limited: GetSharableTargetDomainIds is not empty; required: the number
\* of GetRequiredSharedDomainIds, 2 for any larger number).
PublicRefused(scope, projects, domains, limited, required) ==
    LET target == TargetScope(scope, projects, domains)
    IN  \/ HigherThan(rscope, TargetScope(scope, {}, {}))
        \/ projects # {} /\ domains # {}
        \/ target = "project" /\ required # 1
        \/ target = "domain" /\ required = 0
        \/ target = "system" /\ limited

Fail(op) == last' = [op |-> op, ok |-> FALSE]

\* SharablePerformPublic.
PerformPublic(scope, projects, domains, limited, required, allow) ==
    /\ rscope # None
    /\ LET target == TargetScope(scope, projects, domains)
           now    == SharedTo(target, projects, domains)
           set    == ScopeSet(target, now)
       IN  \/ /\ PublicRefused(scope, projects, domains, limited, required)
              /\ Fail("public")
              /\ UNCHANGED <<rscope, isPublic, publicScope, shares>>
           \/ /\ ~PublicRefused(scope, projects, domains, limited, required)
              /\ \/ /\ shares' \in {shares} \cup SharedPartly(target)
                    /\ Fail("public")
                    /\ UNCHANGED <<rscope, isPublic, publicScope>>
                 \/ /\ shares' = now
                    /\ \/ /\ Fail("public")
                          /\ UNCHANGED <<rscope, isPublic, publicScope>>
                       \/ /\ ~HigherThan(set, allow)
                          /\ isPublic' = SetShare(set).pub
                          /\ publicScope' = SetShare(set).scope
                          /\ last' = [op |-> "public", ok |-> TRUE]
                          /\ UNCHANGED rscope

-----------------------------------------------------------------------------
(* The request "private" *)

PrivateRefused(required, allow) ==
    \/ required # 1
    \/ HigherThan(GetPublicScope, allow)

\* SharablePerformPrivate.
PerformPrivate(required, allow) ==
    /\ rscope # None
    /\ \/ /\ ~GetIsPublic /\ GetPublicScope = "none"
          /\ last' = [op |-> "private", ok |-> TRUE]
          /\ UNCHANGED <<rscope, isPublic, publicScope, shares>>
       \/ /\ GetIsPublic \/ GetPublicScope # "none"
          /\ \/ /\ Fail("private")
                /\ UNCHANGED <<rscope, isPublic, publicScope, shares>>
             \/ /\ ~PrivateRefused(required, allow)
                /\ shares' = NoShares
                /\ \/ /\ Fail("private")
                      /\ UNCHANGED <<rscope, isPublic, publicScope>>
                   \/ /\ isPublic' = SetShare("none").pub
                      /\ publicScope' = SetShare("none").scope
                      /\ last' = [op |-> "private", ok |-> TRUE]
                      /\ UNCHANGED rscope

-----------------------------------------------------------------------------
Init ==
    /\ rscope = None
    /\ isPublic = FALSE
    /\ publicScope = "none"
    /\ shares = NoShares
    /\ last = [op |-> "none", ok |-> TRUE]

Next ==
    \/ \E rs \in ResourceScope, pub \in {None, TRUE, FALSE},
          ps \in InputScope, allow \in Scope, admin \in BOOLEAN :
            Create(rs, pub, ps, allow, admin)
    \/ \E scope \in InputScope, projects \in SUBSET Project,
          domains \in SUBSET Domain, limited \in BOOLEAN,
          required \in 0 .. 2, allow \in Scope :
            PerformPublic(scope, projects, domains, limited, required, allow)
    \/ \E required \in 0 .. 2, allow \in Scope :
            PerformPrivate(required, allow)

Spec == Init /\ [][Next]_vars

-----------------------------------------------------------------------------
(* Properties *)

TypeOK ==
    /\ rscope \in ResourceScope \cup {None}
    /\ isPublic \in BOOLEAN
    /\ publicScope \in Scope
    /\ shares \in [project : SUBSET Project, domain : SUBSET Domain]
    /\ last \in [op : {"none", "create", "public", "private"}, ok : BOOLEAN]

\* The two columns of a resource agree at all times: it is public exactly
\* when its scope is not "none", however it was created and whichever
\* requests succeeded or failed half-way (SetShare, and the rewriting of
\* the input in SharableManagerValidateCreateData).
PublicFlagMatchesScope == isPublic <=> publicScope # "none"

\* While a resource is shared at or above the scope of its manager, the
\* list filter returns it to every requester that the check of a single
\* resource lets use it, and to every domain it may be handed to: the two
\* definitions of visibility never contradict each other, also over rows a
\* failed request left behind and whether or not the checks could read the
\* rows (SharableManagerFilterByOwner against SharableModelIsSharable and
\* ISharableChangeOwnerCandidateDomainIds, whose queries drop their errors).
GrantedIsListed ==
    (rscope \in {"project", "domain"}
        /\ (isPublic => ~HigherThan(rscope, publicScope))) =>
        \A req \in Requester, read \in BOOLEAN :
            /\ IsSharable(req, read) => Listed(req, "project")
            /\ req.domain \in ChangeOwnerCandidateDomainIds(read)
                  => Listed(req, "domain")

\* The domains a resource that has an owner may be handed to together with
\* up to two resources that depend on it are the domains every one of them
\* allows, a resource with an empty list allowing any; the owner's domain
\* is always among them, so the merged list is empty only when nothing
\* restricts the change (ISharableMergeChangeOwnerCandidateDomainIds, which
\* intersects from left to right and starts again from a result that is
\* empty).  Where there is no owner the intersection can be empty and the
\* lists that follow start again: {d1}, {d2}, {d2} merge into {d2}.
MergedCandidatesAreAllowedByAll ==
    OwnerDomainIds # {} =>
        \A others \in BoundedSeq(SUBSET Domain, 2) :
            LET all      == <<ChangeOwnerCandidateDomainIds(TRUE)>> \o others
                limiting == {i \in DOMAIN all : all[i] # {}}
                merged   == MergeChangeOwnerCandidateDomainIds(all)
            IN  merged = {d \in Domain : /\ limiting # {}
                                         /\ \A i \in limiting :
                                               d \in all[i] \cup OwnerDomainIds}

\* The domains a resource must be shared with are the domains that any of
\* its users requires, and none, which the request "public" takes for
\* "require to be shared to system", as soon as one user requires none: for
\* up to three users the result does not depend on their order
\* (ISharableMergeShareRequireDomainIds, which returns from the middle of
\* its loop).
RequiredIsUnionUnlessAny ==
    rscope # None =>
        \A requiredIds \in BoundedSeq(SUBSET Domain, 3) :
            LET users  == DOMAIN requiredIds
                merged == MergeShareRequireDomainIds(requiredIds)
            IN  /\ (\E i \in users : requiredIds[i] = {}) => merged = {}
                /\ (\A i \in users : requiredIds[i] # {}) =>
                      merged = UNION {requiredIds[i] : i \in users}

\* When a request "public" succeeds, the shares that remain are those of
\* the scope it set: the list shows projects only with a resource it
\* returns for public_scope=project, domains only with one it returns for
\* public_scope=domain, and a resource it returns for is_public=false is
\* not shared (SharablePerformPublic cleans the shares of the other kinds,
\* "shareToTarget clean projects", "shareToTarget clean domains"; the list
\* is SSharableBaseResourceManager.ListItemFilter and FetchCustomizeColumns).
SharesFollowScope ==
    LET shown == FetchCustomizeColumns(TRUE)
    IN  /\ shown.project # {} => ListItemFilter(TRUE, "project")
        /\ shown.domain # {} => ListItemFilter(TRUE, "domain")
        /\ ListItemFilter(FALSE, "") => ~SharableModelIsShared(TRUE)

PublicLeavesSharesOfItsScope ==
    [][(last' = [op |-> "public", ok |-> TRUE] /\ SharesFollowScope)
            => SharesFollowScope']_vars

=============================================================================
