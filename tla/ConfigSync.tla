----------------------------- MODULE ConfigSync -----------------------------
(***************************************************************************)
(* The External Config Synchronizer: GraylogReconciler.configureGraylog   *)
(* (src/controllers/graylog/reconciler.go) and the Manage* steps of        *)
(* src/controllers/graylog/utils, which bring Graylog's own objects in     *)
(* line with the CR through its REST API, once per reconcile cycle.        *)
(*                                                                         *)
(* Graylog's store is a count of objects per title (the code finds objects *)
(* by title only, so two objects with one title are a duplicate).  Every   *)
(* step reads the collections it needs (GET) and then sends requests; the *)
(* decisions are taken on what the GET returned, as in the code, so a step *)
(* is modelled as a PLAN (the requests the code sends for that snapshot)   *)
(* followed by one action per request.  A request either succeeds, fails   *)
(* deterministically (Graylog answers 404 because the id in the URL is    *)
(* empty or gone: any non-expected status code aborts), or fails on the    *)
(* transport: before Graylog applied it, or after (the response is lost). *)
(* Any error aborts configureGraylog; GraylogReconciler.Run returns it, so *)
(* the cycle fails and is requeued with back-off (ReconcileCycle).         *)
(*                                                                         *)
(* One object of each kind stands for the set the code iterates over, two *)
(* where the code ranges over a Go map (whose order is random).           *)
(***************************************************************************)
EXTENDS Naturals, Sequences, SequencesExt

CONSTANTS
    AuthProxy,      \* cr.Spec.Graylog.AuthProxy.Install
    MaxFailures,    \* model bound on transport failures of requests
    MaxCopies,      \* objects of one title counted up to this bound
    MaxEdits,       \* model bound on CR edits that change the policy
    CustomSavedSearches \* the unzipped content packs hold saved-searches/

\* ContentDeployPolicy: "skip" bypasses configureGraylog (reconciler.go:74).
Policies == {"only-create", "force-update", "skip"}

\* Titles of the Graylog objects the synchronizer manages or depends on.
GrokPattern     == "grok pattern"           \* one of grok_patterns.json
DefaultIndexSet == "Default index set"
AuditIndexSet   == "Audit index set"
DefaultInput    == "input-<port>"
Extractor       == "extractor"              \* one of Graylog{4,5}Extractors
OsExtractor     == "os_extractor"           \* legacy duplicate extractor
AuditStream     == "Audit logs"             \* one enabled log stream
DefaultStream   == "Default Stream"         \* or "All messages" (built in)
RoutingRule     == "audit routing rule"     \* GraylogStreamsRules[stream]
StructuralRule  == "remove kubernetes rule" \* targets the Default Stream
Pipeline        == "Logs routing"
ContentPack     == "content pack"           \* oobContentPackId
Installation    == "installation"           \* brings "Sources by Service"
SavedSearch     == "Cloud events search"
SavedView       == "Cloud events"
Role            == "AuditViewer"
User            == "auditViewer"
CustomSearch    == "custom search.json"     \* files of saved-searches/
CustomView      == "custom view.json"

\* The saved searches and views uploaded from the content packs' directory.
Custom == {CustomSearch, CustomView}

Objs == {GrokPattern, DefaultIndexSet, AuditIndexSet, DefaultInput, Extractor,
         OsExtractor, AuditStream, DefaultStream, RoutingRule, StructuralRule,
         Pipeline, ContentPack, Installation, SavedSearch, SavedView, Role,
         User} \cup Custom

\* Objects whose template carries their own id: a search is not titled and
\* the view refers to it by that id, and a custom view's id is what
\* UploadCustomSavedSearch looks up.  A POST of one stores it under that
\* id, replacing what was there, and never adds a second copy.
ById == {SavedSearch} \cup Custom

\* Endpoints that hold a setting rather than a titled object.
Settings == {"authHeader", "messageProcessors", "resume", "connection",
             "archives"}

\* GraylogStreamsRules and GetProcessingRules: the stream a rule routes to.
RuleStream == [r \in {RoutingRule, StructuralRule} |->
                  IF r = RoutingRule THEN AuditStream ELSE DefaultStream]

Requests == [m : {"POST", "PUT", "DELETE", "SET"}, o : Objs \cup Settings,
             refs : SUBSET Objs, strict : BOOLEAN]
\* A check of the code that returns an error before any request.
Err == [m |-> "ERR", o |-> "none", refs |-> {}, strict |-> FALSE]
NoRequest == [m |-> "none", o |-> "none", refs |-> {}, strict |-> FALSE]

\* refs: objects whose ids the request carries; strict: an empty id makes
\* Graylog reject it (the id is in the URL, or names the target).
Req(m, o, refs, strict) == [m |-> m, o |-> o, refs |-> refs, strict |-> strict]
Post(o, refs)  == Req("POST", o, refs, FALSE)
Put(o, refs)   == Req("PUT", o, refs, FALSE)
Delete(o)      == Req("DELETE", o, {}, FALSE)
SetConfig(o, refs) == Req("SET", o, refs, TRUE)

\* The store of a fresh Graylog (the default index set and the built-in
\* streams exist: the code requires them), and of one a previous version
\* of the operator configured, legacy extractor included.
FreshStore == [o \in Objs |-> IF o \in {DefaultIndexSet, DefaultStream}
                               THEN 1 ELSE 0]
ConfiguredStore == [o \in Objs |-> 1]

VARIABLES
    remote,        \* remote[o]: objects titled o in Graylog
    spec,          \* ContentDeployPolicy in the stored CR
    policy,        \* ContentDeployPolicy in the copy this cycle fetched
    phase,         \* 0 between syncs, else the index of the step in Phases
    planned,       \* the step's GETs are done and its requests chosen
    todo,          \* requests of the step still to send
    queued,        \* a reconcile request waits in the work queue
    lastSync,      \* result of the last configureGraylog
    sent,          \* the last request sent in this sync
    failures, edits

vars == <<remote, spec, policy, phase, planned, todo, queued, lastSync, sent,
          failures, edits>>

(***************************************************************************)
(* The requests each step sends, given the snapshot `snap` of the store    *)
(* its GETs returned and the policy p of the fetched CR.                   *)
(***************************************************************************)
\* `for k, v := range m` over a Go map: the keys in any order.
\* calls[k] is the requests of the loop body for key k.
InAnyOrder(calls) ==
    {FlattenSeq([i \in 1..Len(ord) |-> calls[ord[i]]]) :
        ord \in SetToSeqs(DOMAIN calls)}

\* The idiom of the Create*/Update* pairs: under only-create POST what is
\* missing; under force-update PUT what exists and POST what is missing.
Upsert(snap, p, o, refs) ==
    CASE snap[o] = 0 /\ p \in {"only-create", "force-update"} -> <<Post(o, refs)>>
      [] snap[o] > 0 /\ p = "force-update" -> <<Put(o, refs)>>
      [] OTHER -> <<>>

\* ManageAuthHeaderConfig: PUT the header-auth configuration.
AuthHeaderPlan == IF AuthProxy THEN <<SetConfig("authHeader", {})>> ELSE <<>>

\* ManageGrokPatterns: only-create POSTs the missing patterns; force-update
\* PUTs the patterns that exist and are known, and creates none.
GrokPlan(snap, p) ==
    CASE p = "only-create" /\ snap[GrokPattern] = 0 -> <<Post(GrokPattern, {})>>
      [] p = "force-update" /\ snap[GrokPattern] > 0 -> <<Put(GrokPattern, {})>>
      [] OTHER -> <<>>

\* CreateOrUpdateIndexSet: the default index set must exist and is always
\* updated; the others are created whatever the policy.
IndexSetCalls(snap, p, title) ==
    IF snap[title] = 0
    THEN IF title = DefaultIndexSet THEN <<Err>> ELSE <<Post(title, {})>>
    ELSE IF p = "force-update" \/ title = DefaultIndexSet
         THEN <<Put(title, {})>> ELSE <<>>

IndexSetPlans(snap, p) ==
    InAnyOrder([t \in {DefaultIndexSet, AuditIndexSet} |->
                   IndexSetCalls(snap, p, t)])

\* CreateOrUpdateDefaultInput: created whatever the policy.
InputPlan(snap, p) ==
    IF snap[DefaultInput] = 0 THEN <<Post(DefaultInput, {})>>
    ELSE IF p = "force-update" THEN <<Put(DefaultInput, {})>> ELSE <<>>

\* ManageExtractors: the input's id is in every URL; force-update also
\* deletes the legacy extractor; the processor order is always PUT.
ExtractorPlan(snap, p) ==
    LET onInput(m, o) == Req(m, o, {DefaultInput}, TRUE)
        extractors ==
          CASE p = "only-create" /\ snap[Extractor] = 0 ->
                  <<onInput("POST", Extractor)>>
            [] p = "force-update" ->
                  <<onInput(IF snap[Extractor] > 0 THEN "PUT" ELSE "POST",
                            Extractor)>>
                  \o (IF snap[OsExtractor] > 0
                      THEN <<onInput("DELETE", OsExtractor)>> ELSE <<>>)
            [] OTHER -> <<>>
    IN  extractors \o <<SetConfig("messageProcessors", {})>>

\* CreateOrUpdateStreams: the body carries the index set's id.
StreamPlan(snap, p) == Upsert(snap, p, AuditStream, {AuditIndexSet})

\* ResumeStreams, after a fresh GET: the stream's id is in the URL.
ResumePlan == <<SetConfig("resume", {AuditStream})>>

\* CreateOrUpdateRules: the rule's source carries its stream's id;
\* CreateRuleData fails when the Default Stream (or "All messages") is
\* missing, and leaves the id empty for any other missing stream.
RuleCalls(snap, p, r) ==
    LET calls == Upsert(snap, p, r, {RuleStream[r]})
    IN  IF calls # <<>> /\ RuleStream[r] = DefaultStream
              /\ snap[DefaultStream] = 0
        THEN <<Err>> ELSE calls

RulePlans(snap, p) ==
    InAnyOrder([r \in DOMAIN RuleStream |-> RuleCalls(snap, p, r)])

\* CreateOrUpdatePipelines.
PipelinePlan(snap, p) == Upsert(snap, p, Pipeline, {})

\* ConnectPipeline, after a fresh GET of the pipelines.
ConnectPlan(snap) ==
    IF snap[DefaultStream] = 0 THEN <<Err>>
    ELSE <<SetConfig("connection", {Pipeline, DefaultStream})>>

\* Mutant: the pack is deleted without deleting its installations first.
DeletePackOnly(snap) == <<Delete(ContentPack)>>

\* DeleteDefaultContentPack: delete every installation of the pack (Graylog
\* refuses to delete an installed pack), then the pack.
DeleteDefaultContentPack(snap) ==
    [i \in 1..snap[Installation] |->
        Req("DELETE", Installation, {ContentPack}, TRUE)]
    \o <<Delete(ContentPack)>>

\* UploadDefaultContentPack, then InstallDefaultContentPack of its id.
UploadAndInstall ==
    <<Post(ContentPack, {}), Req("POST", Installation, {ContentPack}, TRUE)>>

\* Mutant: the pack is deleted whenever it exists, whatever the policy.
DashboardPlanDeleteAlways(snap, p) ==
    CASE p = "skip" -> <<>>
      [] snap[ContentPack] > 0 -> DeleteDefaultContentPack(snap) \o UploadAndInstall
      [] OTHER -> UploadAndInstall

\* ManageDashboards: force-update deletes the pack if it exists and uploads
\* and installs it again; only-create uploads and installs it when missing.
DashboardPlan(snap, p) ==
    CASE p = "force-update" ->
           (IF snap[ContentPack] > 0 THEN DeleteDefaultContentPack(snap)
            ELSE <<>>) \o UploadAndInstall
      [] p = "only-create" /\ snap[ContentPack] = 0 -> UploadAndInstall
      [] OTHER -> <<>>

\* ManageArchivesDirectory: the status code of the request is not checked.
ArchivesPlan == <<Req("SET", "archives", {}, FALSE)>>

\* UploadCustomSavedSearch of one file: a search is POSTed; a view whose
\* id is found among the views (a fresh GET) is DELETEd, then POSTed.
CustomUpload(snap, f) ==
    IF f = CustomView /\ snap[CustomView] > 0
    THEN <<Delete(CustomView), Post(CustomView, {})>>
    ELSE <<Post(f, {})>>

\* ManageCustomSavedSearches: every file of the directory, in the order
\* os.ReadDir lists them, whatever the policy.
CustomSavedSearchPlans(snap) ==
    IF CustomSavedSearches
    THEN InAnyOrder([f \in Custom |-> CustomUpload(snap, f)])
    ELSE {<<>>}

\* Mutant: the view is POSTed without looking its title up.
SavedSearchPlanNoLookup(snap, p) ==
    LET search ==
          CASE p = "only-create" /\ snap[SavedView] = 0 -> <<Post(SavedSearch, {})>>
            [] p = "force-update" -> <<Post(SavedSearch, {})>>
            [] OTHER -> <<>>
    IN  search \o <<Post(SavedView, {})>>

\* ManageSavedSearches: the existence check looks up the search's title in
\* the list of VIEWS; force-update POSTs the search unconditionally; the
\* view is created when missing, whatever the policy.
SavedSearchPlan(snap, p) ==
    LET search ==
          CASE p = "only-create" /\ snap[SavedView] = 0 -> <<Post(SavedSearch, {})>>
            [] p = "force-update" -> <<Post(SavedSearch, {})>>
            [] OTHER -> <<>>
    IN  search \o (IF snap[SavedView] = 0 THEN <<Post(SavedView, {})>> ELSE <<>>)

\* CreateOrUpdateRole: CreateAuditViewerData needs the built-in streams, the
\* audit stream and the "Sources by Service" dashboard; then GetRole's code
\* decides, and an error of GetRole (code -1) is ignored: nothing is sent.
RolePlan(snap, p, probeFailed) ==
    LET refs == {DefaultStream, AuditStream, Installation}
    IN  IF \E x \in refs : snap[x] = 0 THEN <<Err>>
        ELSE IF probeFailed THEN <<>>
        ELSE IF snap[Role] = 0 THEN <<Post(Role, refs)>>
        ELSE IF p = "force-update" THEN <<Put(Role, refs)>> ELSE <<>>

\* CreateOrUpdateUser: the same use of GetUser; UpdateUser puts to the id
\* GetUserIdByName finds.
UserPlan(snap, p, probeFailed) ==
    IF probeFailed THEN <<>>
    ELSE IF snap[User] = 0 THEN <<Post(User, {})>>
    ELSE IF p = "force-update" THEN <<Req("PUT", User, {User}, TRUE)>>
    ELSE <<>>

\* Mutant: the processing rules are created before the streams they target.
PhasesRulesFirst ==
    <<"authHeader", "grok", "indexSets", "inputs", "extractors", "rules",
      "streams", "resumeStreams", "pipelines", "connectPipeline", "dashboards",
      "archives", "savedSearches", "roles", "users">>

\* configureGraylog calls the steps in this order.
Phases ==
    <<"authHeader", "grok", "indexSets", "inputs", "extractors", "streams",
      "resumeStreams", "rules", "pipelines", "connectPipeline", "dashboards",
      "archives", "savedSearches", "roles", "users">>

\* Steps that start with a GET (which may fail), and steps whose existence
\* probe may fail without failing the step.
StartsWithGet == {"grok", "indexSets", "inputs", "extractors", "streams",
                  "resumeStreams", "rules", "pipelines", "connectPipeline",
                  "dashboards", "savedSearches", "roles"}
Probing == {"roles", "users"}

Plans(step, snap, p, probeFailed) ==
    CASE step = "authHeader"      -> {AuthHeaderPlan}
      [] step = "grok"            -> {GrokPlan(snap, p)}
      [] step = "indexSets"       -> IndexSetPlans(snap, p)
      [] step = "inputs"          -> {InputPlan(snap, p)}
      [] step = "extractors"      -> {ExtractorPlan(snap, p)}
      [] step = "streams"         -> {StreamPlan(snap, p)}
      [] step = "resumeStreams"   -> {ResumePlan}
      [] step = "rules"           -> RulePlans(snap, p)
      [] step = "pipelines"       -> {PipelinePlan(snap, p)}
      [] step = "connectPipeline" -> {ConnectPlan(snap)}
      [] step = "dashboards"      -> {DashboardPlan(snap, p)}
      [] step = "archives"        -> {ArchivesPlan}
      [] step = "savedSearches"   -> {SavedSearchPlan(snap, p) \o c :
                                          c \in CustomSavedSearchPlans(snap)}
      [] step = "roles"           -> {RolePlan(snap, p, probeFailed)}
      [] step = "users"           -> {UserPlan(snap, p, probeFailed)}

TypeOK ==
    /\ remote \in [Objs -> 0..MaxCopies]
    /\ spec \in Policies /\ policy \in Policies
    /\ phase \in 0..Len(Phases) /\ planned \in BOOLEAN
    /\ todo \in Seq(Requests \cup {Err})
    /\ queued \in BOOLEAN /\ lastSync \in {"none", "ok", "failed"}
    /\ sent \in Requests \cup {NoRequest}
    /\ failures \in 0..MaxFailures /\ edits \in 0..MaxEdits

CONSTANT InitialPolicies   \* ContentDeployPolicy values the CR may start with

Init ==
    /\ remote \in {FreshStore, ConfiguredStore}
    /\ spec \in InitialPolicies /\ policy = spec
    /\ phase = 0 /\ planned = FALSE /\ todo = <<>>
    /\ queued = TRUE /\ lastSync = "none" /\ sent = NoRequest
    /\ failures = 0 /\ edits = 0

\* configureGraylog returns an error: Run fails, the cycle is requeued.
Abort ==
    /\ phase' = 0 /\ planned' = FALSE /\ todo' = <<>>
    /\ lastSync' = "failed" /\ queued' = TRUE

\* GraylogReconciler.Run reaches configureGraylog with the CR it fetched;
\* under "skip" it is not called.
StartSync ==
    /\ phase = 0 /\ queued
    /\ queued' = FALSE /\ policy' = spec /\ sent' = NoRequest
    /\ IF spec = "skip"
       THEN phase' = 0 /\ lastSync' = "ok"
       ELSE phase' = 1 /\ UNCHANGED lastSync
    /\ UNCHANGED <<remote, spec, planned, todo, failures, edits>>

\* A step's GETs: one may fail, else the code decides its requests; a failed
\* existence probe of a role or user is counted as a transport failure.
Plan ==
    /\ phase # 0 /\ ~planned
    /\ LET step == Phases[phase] IN
       \/ /\ step \in StartsWithGet /\ failures < MaxFailures
          /\ failures' = failures + 1
          /\ Abort
          /\ UNCHANGED <<remote, spec, policy, sent, edits>>
       \/ /\ \E probeFailed \in IF step \in Probing /\ failures < MaxFailures
                                THEN BOOLEAN ELSE {FALSE} :
                /\ \E calls \in Plans(step, remote, policy, probeFailed) :
                      todo' = calls
                /\ failures' = IF probeFailed THEN failures + 1 ELSE failures
          /\ planned' = TRUE
          /\ UNCHANGED <<remote, spec, policy, phase, queued, lastSync, sent,
                         edits>>

\* Graylog answers with the expected status code: the target of a PUT or
\* DELETE exists, the ids a strict request carries are not empty, and a
\* content pack is only deleted once it has no installation.
Accepted(r) ==
    /\ r.m # "ERR"
    /\ r.m \in {"PUT", "DELETE"} => remote[r.o] > 0
    /\ r.strict => \A x \in r.refs : remote[x] > 0
    /\ r = Delete(ContentPack) => remote[Installation] = 0

Applied(r) ==
    CASE r.m = "POST"   -> [remote EXCEPT ![r.o] = IF r.o \in ById THEN 1
                                               ELSE IF @ < MaxCopies THEN @ + 1
                                               ELSE @]
      [] r.m = "DELETE" -> [remote EXCEPT ![r.o] = @ - 1]
      [] OTHER          -> remote

\* GraylogConnector.Send of the step's next request, and the status check.
Send ==
    /\ planned /\ todo # <<>>
    /\ LET r == Head(todo) IN
       \/ /\ Accepted(r)
          /\ remote' = Applied(r) /\ todo' = Tail(todo) /\ sent' = r
          /\ UNCHANGED <<phase, planned, queued, lastSync, failures>>
       \/ /\ ~Accepted(r)                   \* unexpected code, or a check
          /\ sent' = IF r.m = "ERR" THEN sent ELSE r
          /\ Abort
          /\ UNCHANGED <<remote, failures>>
       \/ /\ r.m # "ERR" /\ failures < MaxFailures    \* transport error
          /\ \E lost \in BOOLEAN :            \* applied, the answer lost
                remote' = IF lost /\ Accepted(r) THEN Applied(r) ELSE remote
          /\ failures' = failures + 1 /\ sent' = r
          /\ Abort
    /\ UNCHANGED <<spec, policy, edits>>

\* Mutant: the step loop runs one past the last step.
SyncDonePastEnd == phase > Len(Phases)

\* The last step of configureGraylog is done.
SyncDone == phase = Len(Phases)

\* The step's requests are all answered: go on to the next step.
NextStep ==
    /\ planned /\ todo = <<>>
    /\ planned' = FALSE
    /\ IF SyncDone
       THEN phase' = 0 /\ lastSync' = "ok"
       ELSE phase' = phase + 1 /\ UNCHANGED lastSync
    /\ UNCHANGED <<remote, spec, policy, todo, queued, sent, failures, edits>>

\* The user changes ContentDeployPolicy; the new generation queues a cycle.
EditSpec ==
    /\ edits < MaxEdits
    /\ \E p \in Policies \ {spec} : spec' = p
    /\ edits' = edits + 1 /\ queued' = TRUE
    /\ UNCHANGED <<remote, policy, phase, planned, todo, lastSync, sent,
                   failures>>

Next == StartSync \/ Plan \/ Send \/ NextStep \/ EditSpec

\* The single worker runs its cycle to the end and serves a requeued
\* request; the user need not edit.
Spec == Init /\ [][Next]_vars
        /\ WF_vars(StartSync) /\ WF_vars(Plan) /\ WF_vars(Send)
        /\ WF_vars(NextStep)

-----------------------------------------------------------------------------
(* Properties *)

\* SyncPolicy contract (specification, section 8): under only-create no
\* object the operator renders from its own templates is overwritten or
\* deleted, across failed and retried steps; the default index set is the
\* one object the code updates whatever the policy.  The saved searches
\* of the content packs' directory are outside the claim: the code
\* deletes and re-posts a custom view on every pass whatever the policy.
OnlyCreateNeverOverwrites ==
    (policy = "only-create" /\ sent.m \in {"PUT", "DELETE"} /\ sent.o \notin Custom)
        => sent.o = DefaultIndexSet

\* Ordering (specification, section 8): a request that carries the id of
\* another object (a stream's index set, a rule's stream, a role's streams
\* and dashboard, the pipeline connected) is only sent once that object
\* exists in Graylog, across failed and retried cycles.
ReferencedIdsResolved ==
    \A x \in sent.refs : remote[x] > 0

\* Idempotence (specification, scenario 1): no pass creates an object whose
\* title already exists, so no title is ever held by two objects, even when
\* a POST is applied and its answer lost, the cycle fails and the next
\* one starts over from fresh GETs.
NoDuplicateObjects ==
    \A o \in Objs : remote[o] <= 1

\* After configureGraylog returned nil, the operator role and user exist.
AccountsExistAfterSync ==
    (phase = 0 /\ lastSync = "ok" /\ policy # "skip")
        => remote[Role] > 0 /\ remote[User] > 0

\* A failed synchronization is retried until one succeeds, once the
\* transport stops failing ("subsequent cycles re-run idempotently and
\* converge", specification 4.4).
FailedSyncRecovers ==
    (lastSync = "failed") ~> (lastSync = "ok")

\* The same, for a CR whose ContentDeployPolicy ends up force-update for
\* good: deleting and re-installing the content pack, and re-sending what
\* exists, repair whatever state a failed pass left Graylog in.
ForceUpdateRecovers ==
    <>[](spec = "force-update") => FailedSyncRecovers
====
