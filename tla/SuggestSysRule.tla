--------------------------- MODULE SuggestSysRule ---------------------------
(***************************************************************************)
(* The suggest-system rules of the monitor service and their cron jobs     *)
(* (src/pkg/monitor/models/suggestsysrule.go, its later revision           *)
(* src/unnamed/part_003, and                                               *)
(* src/pkg/monitor/suggestsysdrivers/driverconfig.go).                     *)
(*                                                                         *)
(* The rules are rows of suggestsysrule_tbl and survive a restart; the     *)
(* cron jobs live in the memory of the process and are rebuilt from the    *)
(* rows by InitSuggestSysRuleCronjob.  A request validates its input,      *)
(* writes the row, and then brings the job of the rule up to date.         *)
(***************************************************************************)
EXTENDS Naturals, FiniteSets, Sequences, TLC

SeqX == INSTANCE SequencesExt

CONSTANTS
    Name,           \* names of rules
    Type,           \* what a request can carry as the type of a rule
    Driver,         \* the types with a registered driver
    EipUnused,      \* the type monitor.EIP_UN_USED
    Setting,        \* what the column Setting of a row can hold
    NoSetting,      \* the column of a row written without the key "setting"
    Decodable,      \* the values of the column that unmarshal into EIPUnused
    Period,         \* texts time.ParseDuration accepts
    DefaultPeriod,  \* "30s"
    BadPeriod,      \* a text time.ParseDuration rejects
    Empty,          \* the empty text
    Missing,        \* the request has no such key
    None,           \* no row, no value
    Failed,         \* a call that returned an error
    NameChecked,    \* TRUE: ValidateCreateData of part_003 (NewNameValidator)
    NamedByType,    \* TRUE: clients name a rule by its type and never retype it
    FetchFails      \* TRUE: the read of the rows at start may fail

ASSUME /\ Driver \subseteq Type
       /\ EipUnused \in Type
       /\ NoSetting \in Setting
       /\ Decodable \subseteq Setting
       /\ DefaultPeriod \in Period
       /\ {NameChecked, NamedByType, FetchFails} \subseteq BOOLEAN

VARIABLES
    rules,   \* suggestsysrule_tbl: for each name the row, or None
    jobs,    \* the jobs of cronman.GetCronJobManager()
    status   \* of the process: "down", "up", or "panicked"

vars == <<rules, jobs, status>>

\* DSuggestSysRuleConfig
Rule == [type : Type, period : Period, enabled : BOOLEAN, setting : Setting]

\* A job: its name, its interval, and the driver whose DoSuggestSysRule
\* it runs.
Job == [name : Name \cup Type, period : Period, driver : Driver]

Rows == {n \in Name : rules[n] # None}

-----------------------------------------------------------------------------
(* The cron job manager and the registry of drivers *)

\* cronman: Remove(name)
Remove(js, n) == {j \in js : j.name # n}

\* cronman: AddJobAtIntervalsWithStartRun(name, dur, driver.DoSuggestSysRule)
AddJob(js, n, p, d) == js \cup {[name |-> n, period |-> p, driver |-> d]}

\* suggestSysRuleDrivers[key].DoSuggestSysRule: the method value of a nil
\* interface cannot be taken, the goroutine panics.
Registered(key) == key \in Driver

-----------------------------------------------------------------------------
(* Validation *)

PeriodAsGiven(p) == p

\* An empty period stands for 30s.
PeriodOf(p) == IF p = Empty THEN DefaultPeriod ELSE p

\* SSuggestSysRuleManager.ValidateCreateData of suggestsysrule.go.
ValidCreate(type, period, settingOk) ==
    /\ PeriodOf(period) # BadPeriod
    /\ Registered(type)
    /\ settingOk

\* The same of part_003: "Type is uniq", checked as a name.
ValidCreateUniq(type, period, settingOk) ==
    /\ PeriodOf(period) # BadPeriod
    /\ Registered(type)
    /\ ~(type \in Name /\ rules[type] # None)
    /\ settingOk

\* DSuggestSysRuleConfig.ValidateUpdateData, once the driver of the rule's
\* type is found.
ValidUpdate(period, settingOk) ==
    /\ PeriodOf(period) # BadPeriod
    /\ settingOk

-----------------------------------------------------------------------------
(* Requests *)

\* The request returns an error and nothing was written.
Refuse == UNCHANGED vars

\* A handler panicked after it left the rows as rs and the jobs as js:
\* the framework recovers and the request fails, or the process dies.
Panic(rs, js) ==
    /\ rules' = rs
    /\ \/ jobs' = js /\ status' = status
       \/ jobs' = {} /\ status' = "panicked"

\* PostCreate: the job of the rule's name, running the driver of its type.
PostCreate(n, r) ==
    IF r.enabled
    THEN AddJob(Remove(jobs, n), n, r.period, r.type)
    ELSE Remove(jobs, n)

\* Creation of a rule: the name must be free, the input valid, and the
\* insert may fail.
Create(n, type, period, enabled, setting, settingOk) ==
    /\ status = "up"
    /\ \/ Refuse
       \/ /\ rules[n] = None
          /\ IF NameChecked THEN ValidCreateUniq(type, period, settingOk)
                            ELSE ValidCreate(type, period, settingOk)
          /\ LET r == [type |-> type, period |-> PeriodOf(period),
                       enabled |-> enabled,
                       setting |-> IF setting = Missing THEN NoSetting
                                                        ELSE setting]
             IN  /\ rules' = [rules EXCEPT ![n] = r]
                 /\ jobs' = PostCreate(n, r)
                 /\ UNCHANGED status

\* The row after the update: the keys of the request replace the columns,
\* and the period is always one of them.
Updated(r, type, period, enabled, setting) ==
    [type    |-> IF type = Missing THEN r.type ELSE type,
     period  |-> PeriodOf(period),
     enabled |-> IF enabled = Missing THEN r.enabled ELSE enabled,
     setting |-> IF setting = Missing THEN r.setting ELSE setting]

PostUpdateKeepingJob(n, r) ==
    AddJob(jobs, n, r.period, n)

\* PostUpdate, for an enabled rule whose name has a driver: the job of the
\* rule's name, running the driver registered under that name.
PostUpdate(n, r) ==
    AddJob(Remove(jobs, n), n, r.period, n)

\* Update of a rule: validation of the period, then of the setting with the
\* driver of the rule's present type, which is a call on nil when the type
\* has no driver; the write of the row; PostUpdate.
Update(n, type, period, enabled, setting, settingOk) ==
    /\ status = "up"
    /\ rules[n] # None
    /\ \/ Refuse
       \/ /\ ~Registered(rules[n].type)
          /\ PeriodOf(period) # BadPeriod
          /\ Panic(rules, jobs)
       \/ /\ Registered(rules[n].type)
          /\ ValidUpdate(period, settingOk)
          /\ LET r  == Updated(rules[n], type, period, enabled, setting)
                 rs == [rules EXCEPT ![n] = r]
             IN  \/ /\ ~r.enabled
                    /\ rules' = rs
                    /\ jobs' = Remove(jobs, n)
                    /\ UNCHANGED status
                 \/ /\ r.enabled /\ Registered(n)
                    /\ rules' = rs
                    /\ jobs' = PostUpdate(n, r)
                    /\ UNCHANGED status
                 \/ /\ r.enabled /\ ~Registered(n)
                    /\ Panic(rs, Remove(jobs, n))

-----------------------------------------------------------------------------
(* The process *)

\* The jobs every driver gets while the table has no rows.
DefaultJobs ==
    {[name |-> d, period |-> DefaultPeriod, driver |-> d] : d \in Driver}

InitJobsNoDefault(objs) ==
    {[name |-> rules[n].type, period |-> rules[n].period,
      driver |-> rules[n].type] : n \in {o \in objs : rules[o].enabled}}

\* InitSuggestSysRuleCronjob, for the rows it fetched: a job per enabled
\* rule under the name of its type, and the default jobs when there is no
\* row.
InitJobs(objs) ==
    IF objs = {}
    THEN DefaultJobs
    ELSE {[name |-> rules[n].type, period |-> rules[n].period,
           driver |-> rules[n].type] : n \in {o \in objs : rules[o].enabled}}

\* The process starts.  A failed fetch is logged and leaves no rows to go
\* through; an enabled row whose type has no driver panics.
Start ==
    /\ status # "up"
    /\ UNCHANGED rules
    /\ \E objs \in {Rows} \cup (IF FetchFails THEN {{}} ELSE {}) :
          IF \E n \in objs : rules[n].enabled /\ ~Registered(rules[n].type)
          THEN jobs' = {} /\ status' = "panicked"
          ELSE jobs' = InitJobs(objs) /\ status' = "up"

\* The process stops or dies; its jobs are gone with it.
Crash ==
    /\ status = "up"
    /\ status' = "down"
    /\ jobs' = {}
    /\ UNCHANGED rules

Init ==
    /\ rules = [n \in Name |-> None]
    /\ jobs = {}
    /\ status = "down"

\* What clients send: by the convention the creation of part_003 checks, a
\* rule is named by its type, and an update leaves the type alone.
CreateTypes(n) == IF NamedByType THEN {n} \cap Type ELSE Type

UpdateTypes == IF NamedByType THEN {Missing} ELSE Type \cup {Missing}

Next ==
    \/ \E n \in Name : \E type \in CreateTypes(n) :
          \E period \in Period \cup {BadPeriod, Empty},
             setting \in Setting \cup {Missing},
             enabled, settingOk \in BOOLEAN :
                Create(n, type, period, enabled, setting, settingOk)
    \/ \E n \in Name, type \in UpdateTypes,
          period \in Period \cup {BadPeriod, Empty},
          enabled \in BOOLEAN \cup {Missing},
          setting \in Setting \cup {Missing}, settingOk \in BOOLEAN :
            Update(n, type, period, enabled, setting, settingOk)
    \/ Start
    \/ Crash

Spec == Init /\ [][Next]_vars

-----------------------------------------------------------------------------
(* Reading the rules: the settings the drivers fetch, the list, the details *)

\* new(monitor.SSuggestSysAlertSetting): a setting of no kind.
EmptySetting == [eip |-> None]

\* getSuggestSysAlertSetting: only the column of a rule of the type
\* EIP_UN_USED is unmarshalled, and that may fail.
GetSuggestSysAlertSetting(r) ==
    CASE r.type # EipUnused     -> EmptySetting
      [] r.setting \in Decodable -> [eip |-> r.setting]
      [] OTHER                  -> Failed

\* The rows a query for the given types returns; no type asks for all.
OfTypes(ruleTypes) ==
    {n \in Rows : ruleTypes = {} \/ rules[n].type \in ruleTypes}

NoSettings == [map |-> <<>>, err |-> FALSE]

PutSettingSkippingFailed(got, n) ==
    LET setting == GetSuggestSysAlertSetting(rules[n])
    IN  IF setting = Failed THEN got
        ELSE [got EXCEPT !.map = (rules[n].type :> setting) @@ @]

\* One turn of the loop of FetchSuggestSysAlartSettings: the setting of the
\* row is put under the type of the row, and the first row that fails ends
\* the loop with what was gathered.
PutSetting(got, n) ==
    LET setting == GetSuggestSysAlertSetting(rules[n])
    IN  CASE got.err          -> got
          [] setting = Failed -> [got EXCEPT !.err = TRUE]
          [] OTHER -> [got EXCEPT !.map = (rules[n].type :> setting) @@ @]

\* FetchSuggestSysAlartSettings, for the rows in the order the query gave
\* them; a query that fails gives no rows and an error.
FetchSuggestSysAlartSettings(objs) == SeqX!FoldLeft(PutSetting, NoSettings, objs)

\* SSuggestSysRuleManager.ListItemFilter: the filter of the enabled-resource
\* base; the filters of the virtual-resource base are not under src/.
ListItemFilter(enabled) ==
    {n \in Rows : enabled = Missing \/ rules[n].enabled = enabled}

\* getMoreDetails: a setting that cannot be read is logged and shown as none.
GetMoreDetails(n) ==
    LET setting == GetSuggestSysAlertSetting(rules[n])
    IN  [name    |-> n,
         setting |-> IF setting = Failed THEN None ELSE setting,
         enabled |-> rules[n].enabled]

\* SSuggestSysRuleManager.FetchCustomizeColumns: one row of details for every
\* object of the list, in the order of the list.
FetchCustomizeColumns(objs) == [i \in DOMAIN objs |-> GetMoreDetails(objs[i])]

-----------------------------------------------------------------------------
(* Properties *)

TypeOK ==
    /\ rules \in [Name -> Rule \cup {None}]
    /\ jobs \subseteq Job
    /\ status \in {"down", "up", "panicked"}

RulesOf(d) == {n \in Rows : rules[n].type = d}

JobsOf(d) == {j \in jobs : j.driver = d}

\* No request makes a handler panic, and while the process runs, a driver
\* that has rules is scheduled at exactly the periods of its enabled rules:
\* whatever was created, updated, enabled or disabled, before or after a
\* restart ("after create, update Cronjob's info" and "after update, update
\* Cronjob's info": PostCreate, PostUpdate and InitSuggestSysRuleCronjob
\* keep the jobs under different keys).  The one exception is the default
\* job of a start that could not read the rows, until a request replaces it.
JobsFollowRules ==
    /\ status # "panicked"
    /\ status = "up" =>
          \A d \in Driver :
              RulesOf(d) # {} =>
                  \/ {j.period : j \in JobsOf(d)}
                       = {rules[n].period : n \in {o \in RulesOf(d) : rules[o].enabled}}
                  \/ FetchFails /\ JobsOf(d) = {j \in DefaultJobs : j.driver = d}

\* While the process runs, the driver of every enabled rule is scheduled,
\* also when the rows could not be read at start (the default jobs of
\* InitSuggestSysRuleCronjob).
EnabledRuleScheduled ==
    status = "up" =>
        \A n \in Rows :
            rules[n].enabled => \E j \in jobs : j.driver = rules[n].type

\* What the drivers fetch and what the list shows are one reading of the
\* table: when FetchSuggestSysAlartSettings returns without error, every
\* rule it was asked for is shown in the list with the setting fetched for
\* its type, in whatever order the rows came; when it returns an error, the
\* list shows a rule without its setting (FetchSuggestSysAlartSettings keeps
\* one setting per type and stops at the first row it cannot read,
\* getMoreDetails reads row by row and goes on).
FetchedSettingsAreShown ==
    \A ruleTypes \in SUBSET Driver, enabled \in BOOLEAN \cup {Missing} :
        \A objs \in SeqX!SetToSeqs(OfTypes(ruleTypes)) :
            LET got   == FetchSuggestSysAlartSettings(objs)
                shown == FetchCustomizeColumns(objs)
            IN  IF got.err
                THEN \E i \in DOMAIN shown : shown[i].setting = None
                ELSE \A i \in DOMAIN shown :
                        /\ rules[objs[i]].type \in DOMAIN got.map
                        /\ got.map[rules[objs[i]].type] = shown[i].setting
                        /\ objs[i] \in ListItemFilter(enabled)
                              <=> shown[i].enabled = enabled \/ enabled = Missing


=============================================================================
