# TLA+ models of the qubership logging operator

This directory holds TLA+ models of the LoggingService operator in `src/`. Each
model is translated from the Go source and checked with TLC. `PROJECT.json`
records the rest:
- which definition models which source lines (`map`);
- every run, its properties and the mutants that show each property can fail;
- the findings;
- the hazards of the code, each with the properties that cover it.

## The system

One controller-runtime worker reconciles a single LoggingService custom
resource (CR). The parts and how they interact:

| Part | Source | What it does |
|---|---|---|
| Convergence Controller | `controllers/loggingservice_controller.go` | `Reconcile` fetches the CR and makes a new StatusUpdater on it. `ReconcileLoggingServiceCluster` marks the cycle status In Progress unless it is Failed, calls `RemoveTemporaryStatuses`, and runs `updateDynamicParameters` (container-runtime discovery). It then runs the Graylog, Fluentd, Fluentbit, HA forwarder/aggregator and events-reader sub-reconcilers in that order, then the readiness tracker. A failed cycle is requeued after `TimeoutOnFailedReconcile`, which then doubles. A successful cycle resets it. |
| StatusUpdater | `controllers/utils/status.go` | An ordered list of conditions keyed by reason: `UpdateStatus` (replace or append), `RemoveStatus` (swap with last, drop last), `RemoveTemporaryStatuses` (the cycle-start cleanup). |
| Sub-reconcilers | `controllers/{graylog,fluentd,fluentbit,fluentbit-forwarder-aggregator,events-reader}/` | Each one: status In Progress, then apply the resources and add the workload to the pending list if the component is installed, otherwise delete its resources and remove its status. |
| Readiness Tracker | `controllers/utils/waiter.go` (`ComponentsPendingReconciler.Run`) | Polls the pending workloads until all are ready or a timeout passes. On timeout, every remaining one is marked Failed. |
| Migration Orchestrator | `controllers/graylog/reconciler.go` `mongoUpgrade`, `graylog/handler.go` | Scales Graylog to zero, runs MongoDB upgrade jobs 40, 42, 44 and 50 in order, then restores the statefulset. When no upgrade is needed, it deletes the jobs. |
| Config Synchronizer | `controllers/graylog/reconciler.go` `configureGraylog`, `controllers/graylog/utils/*` | Under ContentDeployPolicy only-create or force-update (skip bypasses it), pushes the auth header, grok patterns, index sets, input, extractors, streams, rules, pipelines, dashboards, saved searches, role and user to Graylog's REST API. Each step GETs first, then POSTs or PUTs by title. |
| Apply pattern | the `handle*`/`delete*` functions of each sub-reconciler's `handler.go`, `controllers/utils/common.go` | `CreateResource`; on AlreadyExists `GetResource`, overwrite the owned fields of the fetched object and `UpdateResource` it (a workload or service keeps the fetched `resourceVersion`). A config map is compared with the reconciler's `Equal` and, if it differs, the manifest itself is sent to Update. Uninstall gets each object and deletes it, ignoring NotFound. |
| Secret Watcher | `controllers/graylog/utils/watch-secret.go` | `watchSecret` (`graylog/reconciler.go`) starts one goroutine at the end of every successful Graylog Run. It watches the Graylog secret and, on a Modified event, writes a changed user or password (hashed) into the `root_username` / `root_password_sha2` line of the Graylog config map. The reconciler's `handleConfigMap` renders the same config map every cycle. |

They interact through the CR's status conditions (every part writes them), the
pending list (filled by the sub-reconcilers, drained by the tracker), and the
cluster objects (statefulset, jobs) that the orchestrator and the environment
both change.

## Modules

**`StatusUpdater.tla`** models `utils/status.go` as operators on a sequence of
`[reason, type]` records.
- Message, timestamps and status flags are dropped: no branch depends on them.
- Order is kept, because `RemoveStatus` and `RemoveTemporaryStatuses` depend on it.
- `TruncateFrom` is the backward loop of `RemoveTemporaryStatuses`. As in the code, it cuts the last element, not element i.

**`ReconcileCycle.tla`** models the controller, the five sub-reconcilers and the
readiness tracker as one process. It EXTENDS `StatusUpdater`.
- State: the CR (`spec`), the copy fetched for this cycle (`cr`), the work-queue flag (`queued`), the worker's step (`pc`), the conditions, the pending list, the poll count, which workloads have resources (`deployed`), and the back-off (`timeoutOnFailed`). `time.Duration` is an int64 of nanoseconds and the timeout starts at one second, 1953125·2^9 ns, and only doubles, so the model keeps the number of doublings d and `DurationPositive(d)` works out the sign of 1953125·2^(9+d) wrapped to 64 bits exactly: positive up to d = 33, negative from d = 34, zero from d = 55.
- History variables (`lastCycleFailed`, `awaited`, `pendingErr`) exist only for the properties.
- Actions:
  - `Dequeue` is `Reconcile` up to the sub-reconcilers. That includes `updateDynamicParameters`: the container runtime is the CR's value if set, else the value cached in `runtime` by an earlier cycle, else discovered from a node list the environment picks from `NodeLists`. A version string is a sequence of tokens (`<<"cri-o", "://", "1.29.6">>`), so `strings.Split(v, "://")[0]` is the prefix before the separator token (`RuntimeKind`). The loop over the nodes is a `FoldLeft` of `AddNodeRuntime`.
  - `RunGraylog`, `RunFluentd`, `RunFluentbit`, `RunHAFluent` and `RunEventsReader` are each a whole `Run` together with the controller's handling of its error. The apply is abstracted to three outcomes: success, an error after some resources were created, or (HA only) an aggregator that never starts.
  - `PendingStart`, `Poll` and `PollTimeout` are the readiness tracker. In each poll, the environment chooses which workloads are ready or whether the readiness check errs.
  - `Finish` is the end of `Reconcile`: the cycle status and the requeue/back-off. A failed cycle returns `RequeueAfter` = the timeout and doubles it; controller-runtime queues the request again only for a positive `RequeueAfter` (`Requeue` is never set).
  - `EditSpec` is a user edit of the CR. `ignoreDeletionPredicate` queues a new reconcile only on a generation change.

**`MongoUpgrade.tla`** models the upgrade path of `GraylogReconciler.Run` against
a cluster environment.
- State: the step, the current job index, each job's state, the statefulset (exists, replicas, pods running), whether the upgrade is required, the Graylog status Failed flag, and the queue.
- Actions:
  - Operator actions: `Dequeue`, `DeleteUpgradeJobs`, `ScaleDown`, `ScaleDownWait`, `CreateJob`, `JobWait`, `HandleStatefulset`, `StatefulsetWait`.
  - Environment actions: `JobFinishes`, `PodsConverge`, `EditSpec`, and `Restart` (an operator crash, which loses in-memory state; the cluster keeps its state).
- Every `WaitFor*` is a bounded poll. It is modelled as success once the awaited state holds, or as a timeout at any moment.

**`ConfigSync.tla`** models `configureGraylog` and every `Manage*` step of
`graylog/utils` it calls, against Graylog's store.
- State: `remote` counts the objects of each title in Graylog. The code finds objects by title, so a count of 2 is a duplicate. The other variables are the policy of the stored CR (`spec`) and of the fetched copy (`policy`), the step (`phase`), the requests the step still has to send (`todo`), the queue flag, the last result, the last request sent, and bounds on failures and edits.
- A step is two kinds of action, as in the code:
  - `Plan` is the step's GETs. It either fails or yields the requests the code sends for that snapshot, given by the step's `*Plan` operator (`GrokPlan`, `IndexSetPlans`, `StreamPlan`, `RulePlans`, `DashboardPlan`, `SavedSearchPlan`, `RolePlan`, `UserPlan`, ...).
  - `SavedSearchPlan` is the built-in search and view; `CustomSavedSearchPlans` is `ManageCustomSavedSearches` over the files of the content packs' `saved-searches/` directory when it exists (`CustomSavedSearches`): a search is POSTed, a view whose id is found is DELETEd and POSTed again, whatever the policy. Searches and custom views carry their id in the template (`ById`), so a second POST replaces the stored object instead of adding a copy.
  - `Send` handles one request. Graylog accepts it (`Accepted`: the target exists, the ids it carries are not empty, an installed pack is not deleted). Or it answers with an unexpected code. Or the transport fails, either before Graylog applied the request or after (the response is lost).
  - Any error aborts the sync, and the cycle is requeued.
- `InAnyOrder` gives every order of a `range` over a Go map (index sets, processing rules).
- Skipped GET errors are modelled as in the code: a failed `GetRole`/`GetUser` probe sends nothing and does not fail the step.
- `StartSync` is the point in `GraylogReconciler.Run` that calls `configureGraylog`, or skips it under `skip`. `EditSpec` changes the policy and queues a cycle.

**`AbstractCycle.tla`** is what the Convergence Controller promises of a
cycle (specification 4.1, 4.2), written without any sub-reconciler.
- `Start` begins a cycle on the stored CR. The cycle status becomes In Progress, or stays Failed.
- `Work` creates or deletes resources.
- `Succeed` ends the cycle Successful. It is enabled only when every workload the cycle's CR installs has its resources.
- `Fail` ends the cycle Failed and requeues it.
- `Edit` is a user edit.
- Weak fairness on `Succeed \/ Fail` makes every started cycle end.
- Deleting the resources of a workload switched off is not part of the promise: the code only logs a failed delete.

`ReconcileCycle` instantiates it as `Abs`. The refinement mapping is:
- `running` is `pc # "idle"`;
- `cycleStatus` is the type of the `ReconcileCycleStatus` condition;
- `Needs[s]` is the set of workloads `Desired` for `s`;
- the other variables map by name.

The run `reconcile_termination` checks `AbstractCycleSpec == Abs!ASpec` as a PROPERTY.

**`SecretWatcher.tla`** models `watch-secret.go` and the parts of
`GraylogReconciler.Run` that share the Graylog config map with it.
- The config map is abstracted to its two credential lines and its `resourceVersion` (`cm`). The password line is `PasswordLine(p)`, a value distinct for each password, standing for its hex SHA-256.
- State: the secret, the reconciler's step (`rc`), the credentials `setCredentials` read (`rcCreds`), the queue flag, and the watchers `w` in the order their cycles started them. A watcher holds its CR's user and password (`known`), its undelivered events (`inbox`), its step (`pc`, `stage`), the event it handles (`ev`) and the config map its Get returned (`seen`).
- Reconciler actions:
  - `ReadSecret` is `setCredentials`.
  - `RenderConfigMap` is the rest of `handleConfigMap`: an Update with no resourceVersion that replaces the lines, or an error that requeues.
  - `FinishRun` is the rest of `Run` and `watchSecret`: it fails and requeues, or it appends a watcher. The new watcher is `"stuck"` when `prepareWatchChannel` fails and the loop reads a nil channel.
  - `EditCR` queues a cycle.
- Watcher actions:
  - `Receive` takes a Modified event.
  - `Compare` is `updateUser`/`updatePassword` up to the Get. The value is recorded in the CR before the Get, as in the code.
  - `Update` writes back the lines read with one line rewritten. It fails with a conflict if the `resourceVersion` changed.
  - Watch logs the error of `updateUser` and goes on to `updatePassword` (`Advance`).
- Environment actions:
  - `Rotate` changes the secret and delivers the event to every open channel.
  - `Exit` ends a channel, which covers three cases: the channel closes, the object is not a Secret, or it is another secret.

**`ResourceApply.tla`** models the sub-reconcilers that apply Kubernetes
objects, run one after another as the controller runs them
(`loggingservice_controller.go` 113-139), with the CRUD primitives of
`utils/common.go`, against other writers of the same objects.
`MC_ResourceApply.tla` instantiates it with Graylog, fluentd, fluent-bit, the
fluent-bit forwarder/aggregator and the events reader (each one's
`reconciler.go` and `handler.go`): a document switches Graylog and the events
reader on or off and picks one log shipper, so a switch makes one Run
uninstall while a later one installs. Graylog's apply handlers differ from the
others in two ways, which `BlindUpdated` and `HostWaited` name: its
ServiceAccount, ConfigMap and Service handlers answer AlreadyExists with an
Update built from the manifest and no Get, and its Service handler waits for
the Graylog host only after a Create. The rest of Graylog's Run (connector,
MongoDB upgrade, REST configuration, secret watch) is in the other modules.
`Provisioned` objects exist from the start because the installer creates them:
the events reader's ServiceAccount, which its uninstall deletes and its Run
never creates.
- An object is abstracted to its owned spec (template, containers, ports, selector, or config data), the version label the operator sets, an extra label another writer added (`extLabel`) and an annotation, which stands for any field outside the allow-list (`annot`). `NoObj` is a missing object.
- The `resourceVersion` check is `fresh`: the handler's fetched `copy` is still the stored object. There is one copy, since the reconciler handles one object at a time. The API server stores nothing when an Update changes nothing, as the real server does.
- `Comp` is the running sub-reconciler, `Plan` the objects its Run walks (`InstallPlan` or `UninstallPlan`, by `Installs`), `Cur` the object it is at.
- Reconciler actions:
  - `StartCycle` is the start of the controller's cycle on the stored CR; `EndCycle` its end, failed if any Run returned an error.
  - `StartRun` is the start of a sub-reconciler's `Run`: the forwarder/aggregator's configuration check (Graylog output without host or port, `ConfigError`), then install or uninstall.
  - `Fail` is a Run returning an error: the controller records it and goes on to the next sub-reconciler.
  - `Create` is `CreateResource`; AlreadyExists leads to `Get`, or for a `BlindUpdated` object to `BlindUpdate`.
  - `BlindUpdate` is Graylog's Update without a Get: no `resourceVersion`, so it replaces the stored object whole and never meets a Conflict; NotFound fails Run.
  - `HostActive` / `HostUnreachable` is `WaitForHostActive` after Graylog's Service was created; an unreachable host fails Run.
  - `Get` is `GetResource`; NotFound (also at cluster scope) fails Run.
  - `UpdateObject` sends the merge of a DaemonSet (labels merged), StatefulSet or Deployment (the same) or Service (labels replaced). It fails on Conflict or NotFound.
  - `ApplyConfigMap` is `updateConfigMap` (fluent-bit's `CreateOrUpdate`): no call if `Equal` (fluent-bit's compares data only; fluentd's and the forwarder/aggregator's also labels), otherwise an unconditional Update with the manifest, which replaces the stored object whole.
  - `AggregatorStarted` / `AggregatorNotStarted` is the wait after a StatefulSet (the aggregator's or Graylog's); a timeout fails Run.
  - `DeleteGet` / `Delete` are the `delete*` handlers. A Get error other than NotFound, or a failed Delete, is `DeleteFailed`: uninstall logs it and goes on to the next object, the object stays, and Run still returns nil. The history variable `undeleted` holds the objects of the cycle that this happened to.
  - `Finish` is Run's return of nil; the next sub-reconciler runs.
- Environment actions, bounded by `MaxExternal` together with the failed uninstall steps, on the objects in `Touchable`: `Annotate`, `AddLabel`, `EditSpec` (drift of an owned field) and `Remove`. `EditDoc` is the user storing another desired state.
- History variables for the properties: `extDuring`, `wrote`, `cleanStart` and `settled`.

**`MC_ReconcileCycle.tla`**, **`MC_MongoUpgrade.tla`**, **`MC_ConfigSync.tla`**, **`MC_SecretWatcher.tla`** and **`MC_ResourceApply.tla`** give the constants for TLC.

## Runs

| Run | cfg | Expect | Checks |
|---|---|---|---|
| reconcile_status | MC_ReconcileCycle.cfg | pass | `TypeOK`, `OneConditionPerReason`, `CycleStatusReflectsLastCycle` (after a cycle, the cycle status is Failed exactly when that cycle failed), `PendingResolved` (when the tracker ends, no awaited workload is still In Progress), `RuntimeMatchesTable` (when nothing is cached, the runtime a cycle starts with is the one the unit test's table gives for the CR and the listed nodes: the CR's, the nodes' single kind, containerd for an empty or failed list or for mixed nodes) |
| reconcile_termination | MC_ReconcileCycle_live.cfg | pass | `CycleCompletes`: every cycle the worker starts ends. `AbstractCycleSpec`: the controller refines `AbstractCycle` (a Successful cycle leaves every workload of its CR deployed, a Failed one is requeued, the cycle status is In Progress or still Failed while a cycle runs) |
| reconcile_failed_status_kept | MC_ReconcileCycle_rts.cfg | violation | `FailedStatusSurvivesCycleStart` |
| reconcile_backoff | MC_ReconcileCycle_backoff.cfg | violation | `FailedCycleRequeued` |
| mongo_upgrade | MC_MongoUpgrade.cfg | pass | `TypeOK`, `JobsStartOnlyWhenGraylogStopped` (no job is created while Graylog pods run, including after restarts and timeouts) |
| mongo_order | MC_MongoUpgrade_order.cfg | violation | `StepsInOrder` |
| sync_safety | MC_ConfigSync.cfg | pass | `TypeOK`, `OnlyCreateNeverOverwrites` (of the objects the operator renders from its own templates, only the default index set is ever PUT or deleted under only-create),  `ReferencedIdsResolved` (no request carries the id of an object Graylog lacks), `NoDuplicateObjects` (no title is ever held by two objects, across lost responses and retried cycles), `ForceUpdateRecovers` (once the policy stays force-update, every failed sync is followed by a successful one) |
| sync_accounts | MC_ConfigSync_accounts.cfg | violation | `AccountsExistAfterSync` |
| sync_recovers | MC_ConfigSync_recover.cfg | violation | `FailedSyncRecovers` |
| secret_watch | MC_SecretWatcher.cfg | pass | `TypeOK`, `WatcherWritesOnlyItsLine` (a watcher's Update never reverts the other credential line to what its Get saw, whatever the other watchers and the reconciler wrote in between) |
| secret_stale | MC_SecretWatcher_stale.cfg | violation | `ConfigFollowsSecret` |
| resource_apply | MC_ResourceApply.cfg | pass | `TypeOK`, `ConvergedAfterSuccess` (a cycle that returns nil with no other writer active, after a merged or a blind Update, leaves every wanted object with the rendered spec and version label, and no object of an uninstalled component but one whose delete step logged an error in that cycle, after drift, deletes, extra labels and a version bump that leaves the config data alone), `NoChurnOnRepeat` (a second cycle on the same document, after a successful one with no other writer and no logged delete error, changes nothing and sends no config map Update), `ForeignFieldsKept` (no step ever removes another writer's field from a workload or service that its handler merges; Graylog's blindly updated ServiceAccount and Service are left out) |

What the violations show (details in `PROJECT.json` findings):
1. **`RemoveTemporaryStatuses` truncates the wrong element** (`status.go:162`). From `[cycle, Fluentd Failed, HAFluent In Progress, Fluentbit Failed]`, the next cycle drops Fluentbit's Failed condition and keeps the temporary HA one. The controller's comment says a Failed status is kept.
2. **An upgrade job that already exists is accepted without waiting** (`graylog/handler.go:71`). After a restart or a timed-out step, the next job starts while the previous one runs or has failed.
3. **The failure back-off overflows** (`loggingservice_controller.go:78`). The timeout is an int64 count of nanoseconds that doubles on every failure with no cap. The 35th consecutive failure returns `RequeueAfter` = 2^34 s, which has wrapped negative, so nothing requeues the failed CR; specification 8 says the N-th failure requeues after initial·2^(N−1). Reaching it through the back-off alone takes centuries, but every CR edit that fails also doubles the timeout.
4. **A failed `GetUser`/`GetRole` is ignored** (`user-accounts.go:245`, `:229`). The sync returns success without the audit viewer user; spec section 7 says transport errors are propagated.
5. **Under only-create, a content pack uploaded but not installed stays uninstalled** (`contentpacks.go:213`). The role step then cannot find its dashboard, so every later sync fails. Switching the policy to force-update repairs it: `ForceUpdateRecovers` holds.
6. **A rotated Graylog password can stay out of the config map for good** (`watch-secret.go:154`, `:68`, `graylog/handler.go:53`). TLC's trace: the cycle reads the secret, renders the config map, the secret rotates, then `watchSecret` starts a watcher whose CR already holds the old value. Its first event, ADDED, is ignored, so the system settles with the old password. Two other paths reach the same state. A failed Get or Update leaves the new value recorded in the watcher's CR, so it is never written. The reconciler's unconditional Update can overwrite a watcher's newer line. Specification 4.6 says a rotation is patched into the live configuration.

Every property of a passing run has a mutant in `PROJECT.json`, a plausible bug
in the mapped code that TLC catches under the run's cfg:
- an append without lookup;
- a cycle status that is not exempted from truncation;
- a timeout that marks only the first pending workload;
- marking by component name;
- a readiness loop with no timeout;
- mixed nodes giving the last node's runtime;
- a sub-reconciler error that does not reach `isDeployServiceSuccess`, which breaks the refinement;
- an off-by-one in the job loop;
- continuing after a failed scale-down;
- a sync loop that runs past its last step;
- a content pack deleted whatever the policy;
- the saved view POSTed without looking its title up;
- processing rules created before their streams;
- a content pack deleted before its installations;
- a password line written unhashed;
- a watcher Update that ignores the resourceVersion;
- a manifest created without its labels;
- the forwarder/aggregator `Equal` written like fluentbit's (data only);
- `cmp.Equal` of whole objects, which never match;
- a workload Update sent without the fetched resourceVersion.

## Bounds and why they are enough

- **`ReconcileCycle`**:
  - Three CR shapes:
    - everything installed with an aggregator, no events reader;
    - Fluentbit as a daemonset and the events reader, no Graylog;
    - Graylog without Fluentd or Fluentbit.
  - One edit between them.
  - At most 3 cycles, which is enough for fail, fail, succeed and for a Failed condition to cross two cycle starts.
  - The readiness timeout after 2 polls, with `MaxPolls = 2`, so both the timeout and the ready-on-second-poll cases happen.
  - Node lists (`MC_NodeLists`): empty or failed, one cri-o node, cri-o next to docker, a node that reports no runtime, alone and next to a docker node. The third CR shape sets `docker` itself, so an edit moves between the CR branch and the discovery branch. The other runs use a single cri-o node.
  - The back-off run `reconcile_backoff` uses Graylog alone, one node list, no edits and 36 cycles, so that 35 failures in a row happen; about 800 states.
  - Every branch of every action fires in `reconcile_status` (TLC coverage shows no zero counts); about 1.26M distinct states in about 20 s.
  - The liveness run uses the first two shapes and 2 cycles to keep the ENABLED checks fast.
- **`MongoUpgrade`**:
  - All four jobs.
  - 3 cycles, 1 restart and 1 toggle of the upgrade.
  - Both initial cluster states: with and without a Graylog 4 statefulset.
  - The counterexamples need at most 2 cycles and 1 restart.

- **`ConfigSync`**:
  - One object of each kind the code manages. There are two where the code ranges over a Go map, so both orders happen.
  - Both a fresh Graylog and one that an earlier operator version configured, including the legacy extractor.
  - All three policies and one edit between them.
  - One transport failure (`MaxFailures = 1`). This is enough for a lost response, a failed GET or a failed probe at every step.
  - Two copies of a title (`MaxCopies = 2`), which is enough to see a duplicate.
  - `sync_safety` has the content packs' `saved-searches/` directory with one search and one view; the violation runs leave it out.
  - `sync_safety` reaches about 10.5k distinct states; TLC coverage shows every action and every plan branch fired.

- **`SecretWatcher`**:
  - Two users and two passwords, so both the user and the password change.
  - 2 cycles, which gives two watchers that race each other and the reconciler.
  - 2 rotations, one failed API call and one channel end.
  - `secret_watch` reaches about 186k distinct states, and every branch fires.
  - The stale run sets failures and exits to 0: the violation needs neither.

- **`ResourceApply`**:
  - Nineteen objects: four of Graylog (ServiceAccount, ConfigMap, StatefulSet, Service), three each of fluentd and fluent-bit, six of the forwarder/aggregator, the events reader's Deployment and Service, and its ServiceAccount; each sub-reconciler walks them in the code's install and uninstall orders.
  - Six documents: fluentd, plain fluent-bit at image tags v1 and v2, the forwarder/aggregator at v1 and v2, and the forwarder/aggregator with a Graylog output that has no host, with the events reader on in four of them and Graylog in four. A tag changes the workloads' containers and every version label, not the config data or ports. One edit is a version bump, a change of shipper, a Graylog or reader switch, or several at once.
  - The initial cluster holds the ServiceAccount and either nothing else or the objects an earlier run rendered for any document.
  - One fault per behaviour (`MaxExternal = 1`): another writer touches the aggregator config map or StatefulSet, the fluent-bit DaemonSet or Graylog's Service, or one uninstall step fails. That is enough for a write between Get and Update (merged or blind), an annotation followed by a config map replace, a delete before an Update, and an object left behind by an ok cycle. Two faults took the instance past 7M states and 5 minutes.
  - 3 cycles and 1 edit: enough for a failed cycle, its retry and a clean repeat.
  - About 2.1M distinct states in 1.5 to 2 minutes; every action and every branch of the delete handlers fires.

## Fairness

`ReconcileCycle.Spec` puts weak fairness on each step of the worker's cycle:
- the sub-reconciler Runs;
- the tracker's start, poll and timeout;
- `Finish`.

Each step is code that runs to completion once the worker is inside
`Reconcile`, and controller-runtime gives the worker a goroutine. There is no
fairness on `Dequeue` or on `EditSpec`: the user need not act, and a queued
request may wait. `MongoUpgrade`, `SecretWatcher` and `ResourceApply` are used only for safety and have no fairness.
`ConfigSync.Spec` puts weak fairness on `StartSync`, `Plan`, `Send` and
`NextStep`. The worker serves a queued request, and each request returns, at
worst with a transport error. Transport failures are bounded by `MaxFailures`,
which stands for "the transport eventually stops failing".

## Not modelled

- **Config Synchronizer, the parts left out**:
  - `ManageContentPacks`, `ManageContentPackTLS` and `ManageOpensearchConfigs`, which run only when extra content packs are configured;
  - the Graylog 4/5 branch;
  - request bodies.
  - `SendRequestToOpenSearch` calls `log.Fatalln` when a response cannot be dumped (`elasticsearch-configs.go:57`). This is a process exit that the model does not take.
- **Secret Watcher, what is left out**:
  - The goroutines that accumulate, one per cycle. They are modelled, but no property is about their number.
  - A secret with an empty or missing key. It makes `updateUser` return early and is not modelled.
  - A config map without `graylog.conf` or without the credential line. It ends the update without a write and is not modelled.
- **Uninstall errors** (`fluentd/reconciler.go:64` and the other sub-reconcilers): `ResourceApply` models them (`DeleteFailed`), and `ConvergedAfterSuccess` excuses exactly the objects whose delete logged an error; the object stays after an ok cycle until another event queues one. 
- **The Failed status of an upgrade step removed at the end of the same Run** (`graylog/reconciler.go:88`). `MongoUpgrade` models it. It is the code's deliberate log-and-continue, so no run states it as a property.
- **`GetCredentials`** (`api/v1alpha1/loggingservice_types.go:701`), noted but not checked. When the user and the password are in different secrets, it reads the user name from the password secret.
- **The cached container runtime goes stale** (`loggingservice_controller.go:159`). This is noted, not checked. `r.DynamicParameters.ContainerRuntimeType` is discovered once per process: after a transient List error at the first cycle, containerd stays in use on any cluster, and a runtime once set in the CR and later cleared stays in use. `ReconcileCycle` reaches both states. A property that the runtime follows the cluster would need one more violation run, and the project keeps its runs to twelve.
- **Status patch failures** (`status.go:94`): they are only logged. Every patch sends the whole list, so only a lost last patch of a cycle leaves a wrong persisted status. For example, Failed can stay after a successful cycle, and nothing requeues. The model treats the in-memory list as the persisted one. Checking the lost patch needs a persisted copy and one more violation run.
- **Graylog scaled back up while a timed-out upgrade job still runs** (`graylog/reconciler.go:59`). `MongoUpgrade` reaches this state, but the specification allows re-applying the statefulset after a failed step, so no run states it as a property.
- **The HA error written under the Fluentbit reason** (`loggingservice_controller.go:131`). When the forwarder/aggregator Run returns an error, the controller writes `ReconcileFluentbitStatus` Failed instead of `ReconcileHAFluentStatus`; the HA condition stays In Progress. `ReconcileCycle` models it as the code has it (`RunHAFluent` fails with the Fluentbit reason). An earlier run showed it; its slot went to `resource_apply`.
- **Graylog's handlers update without a Get** (`graylog/handler.go:29`, `:53`, `:196`). On AlreadyExists the ServiceAccount, ConfigMap and Service are replaced by objects built from the manifest, with no `resourceVersion`. Every cycle wipes what other tools set on them (annotations, a ServiceAccount's token secrets), and a concurrent write is overwritten without a Conflict. `ResourceApply` models this as `BlindUpdate`; `ForeignFieldsKept` leaves these objects out for that reason.
- **Graylog's host wait is skipped on a retry** (`graylog/handler.go:205`). `WaitForHostActive` runs only after the Service was created. A cycle that failed the wait is retried with the Service in place, so the retry goes on to the REST configuration without waiting.
- **Readiness read from a stale status** (`utils/pod_manager.go:116`, `:151`, `:167`). `IsDaemonSetAvailable`, `IsDeploymentReplicasSynchronised` and `IsStatefulsetReplicasSynchronised` compare status counters with the spec and never check `observedGeneration`; the StatefulSet check ignores updated replicas altogether. Right after an Update the workload controller may not have seen the new spec, and the old pods count as ready; only the fixed `InitialDelay` sleep stands between the two. The models take a wait's outcome as a nondeterministic success or timeout (`AggregatorStarted`, `StatefulsetWait`, the readiness `Scan`), so they include this early success but cannot tell it from a real one: that needs the workload controller's status lag as state, for which no run slot is left.
- **Config maps lose foreign metadata** (`fluentbit-forwarder-aggregator/handler.go:115`, the same in every `updateConfigMap`/`CreateOrUpdate`). The manifest is sent to Update whole, so annotations or labels that other tools set are wiped whenever the data or labels differ, and a write racing the Get is lost. Specification 4.2 step 3 says fields outside the allow-list are left untouched. `ForeignFieldsKept` leaves config maps out for this reason; with them included, TLC violates it at once.
- **fluentbit's config map keeps an old version label** (`fluentbit/handler.go:156`). Its `Equal` ignores labels, and the label carries the image tag (`fluentbit/manifest.go:146`), so an upgrade that leaves the configuration alone never relabels it. Specification 4.2 step 4 says labels are compared. `resource_apply` runs this `Equal` on the fluent-bit config map across a tag bump; `ConvergedAfterSuccess` checks the version label only where the `Equal` compares labels, and the mutant `EqualIgnoringLabels` (this `Equal` in the forwarder/aggregator reconciler) violates it.
- **No shipper after a rejected switch** (`loggingservice_controller.go:121`). On a switch from plain fluent-bit to the forwarder/aggregator, fluent-bit's Run deletes its DaemonSet before the forwarder/aggregator Run checks its configuration; if that check fails the cycle ends with no log shipper until a later cycle succeeds. That is what the error policy of the code and of specification 7 says (an error ends only its component's Run), so no property excludes it.
- **The events reader loses its ServiceAccount** (`events-reader/reconciler.go:67`). Its uninstall deletes the ServiceAccount the installer created, and Run never creates one. After the reader is switched off and on again, its Deployment names a missing account and no later cycle repairs it. In `MC_ResourceApply`, the invariant "a successful cycle leaves the reader's Deployment with its ServiceAccount" is violated after exactly that pair of cycles. No run slot is free for it.
- **Fields the handlers do not copy.** fluentbit's `handleDaemonSet` does not copy `Affinity` or `PriorityClassName`, which its manifest sets from the CR (`fluentbit/manifest.go:54`, `:60`), and the HA handlers do not copy the `PriorityClassName` their manifests set (`fluentbit-forwarder-aggregator/manifest.go:107`, `:226`). A change of either in the CR never reaches an existing DaemonSet. The model's owned spec is the set of copied fields, so this is not in it.
- **Manifest rendering, the pure helpers in `utils/common.go`, main, logging and metrics**: these hold no control state that a property is about.
- **Custom saved views are replaced under only-create** (`graylog/utils/saved-searches.go:86`). `ManageCustomSavedSearches` DELETEs and re-POSTs a custom view whose id exists on every pass, whatever the policy, against the only-create contract of specification 8. `ConfigSync` models the path; `OnlyCreateNeverOverwrites` states its claim for the built-in objects, and a run for the custom view has no free slot.
