--------------------------- MODULE ReconcileCycle ---------------------------
(***************************************************************************)
(* One LoggingService controller (src/controllers/loggingservice_          *)
(* controller.go) driving its reconcile cycles: the cycle status, the five *)
(* component sub-reconcilers run in their fixed order, the readiness       *)
(* tracker (ComponentsPendingReconciler, utils/waiter.go) and the failure  *)
(* backoff.  The platform (workload readiness, API errors, the user        *)
(* editing the CR) is the nondeterministic environment.                    *)
(*                                                                         *)
(* A cycle runs single-threaded from Dequeue to Finish (controller-runtime *)
(* dispatches one reconcile of the object at a time); the user may edit   *)
(* the CR at any moment, which only queues the next reconcile because the  *)
(* cycle works on the copy it fetched.                                     *)
(***************************************************************************)
EXTENDS Naturals, Sequences, SequencesExt, StatusUpdater

CONSTANTS
    DesiredStates,       \* the CR specs the user may write
    PendingTimeoutPolls, \* polls that fit in ComponentPendingTimeout
    MaxPolls,            \* model bound on poll iterations (>= the timeout)
    MaxCycles,           \* model bound on reconcile cycles
    MaxEdits,            \* model bound on CR edits by the user
    NodeLists            \* node lists a List of the cluster's nodes may return

\* The managed workloads; "forwarder" is the fluent-bit forwarder+aggregator.
Workloads == {"graylog", "fluentd", "fluentbit", "forwarder", "eventsReader"}

FluentbitModes == {"absent", "daemonset", "aggregator"}

ASSUME DesiredStates \subseteq [graylog : BOOLEAN, fluentd : BOOLEAN,
                                fluentbit : FluentbitModes,
                                eventsReader : BOOLEAN,
                                runtime : Seq(STRING)]
ASSUME PendingTimeoutPolls \in Nat /\ MaxPolls >= PendingTimeoutPolls

\* Status reason each workload's sub-reconciler reports under.
StatusOf == [graylog |-> GraylogStatus, fluentd |-> FluentdStatus,
             fluentbit |-> FluentbitStatus, forwarder |-> HAFluentStatus,
             eventsReader |-> EventsReaderStatus]

\* The install condition each sub-reconciler's Run tests.
Desired(s, w) ==
    CASE w = "graylog"      -> s.graylog
      [] w = "fluentd"      -> s.fluentd
      [] w = "fluentbit"    -> s.fluentbit = "daemonset"
      [] w = "forwarder"    -> s.fluentbit = "aggregator"
      [] w = "eventsReader" -> s.eventsReader

\* Reasons whose component IsInstall() in RemoveTemporaryStatuses.
InstalledReasons(s) ==
    {r \in Reasons :
        \/ r = GraylogStatus      /\ s.graylog
        \/ r = FluentdStatus      /\ s.fluentd
        \/ r = FluentbitStatus    /\ s.fluentbit # "absent"
        \/ r = EventsReaderStatus /\ s.eventsReader}

-----------------------------------------------------------------------------
(***************************************************************************)
(* Container-runtime discovery (updateDynamicParameters).  A string is a  *)
(* sequence of tokens; a node's ContainerRuntimeVersion is like           *)
(* <<"cri-o", "://", "1.29">>, and "" is <<>>.  A failed List of the nodes *)
(* is handled like an empty one and is the empty list here.               *)
(***************************************************************************)
DefaultContainerRuntimeType == <<"containerd">>

\* strings.Split(v, "://")[0]: the tokens before the first separator.
RuntimeKind(v) ==
    LET i == SelectInSeq(v, LAMBDA t : t = "://")
    IN  IF i = 0 THEN v ELSE SubSeq(v, 1, i - 1)

\* One turn of the node loop: a reported version adds its kind to the keys
\* of nodeContainerRuntimes (the counts are only logged).
AddNodeRuntime(kinds, v) ==
    IF Len(v) > 0 THEN kinds \cup {RuntimeKind(v)} ELSE kinds

\* Mutant: several kinds leave the one of the last node, as the CR copy has.
UpdateDynamicParametersLastNode(crRuntime, cached, nodes) ==
    IF crRuntime # <<>> THEN crRuntime
    ELSE IF cached # <<>> THEN cached
    ELSE IF nodes = <<>> THEN DefaultContainerRuntimeType
    ELSE LET kinds == FoldLeft(AddNodeRuntime, {}, nodes) IN
         IF kinds = {} THEN cached
         ELSE RuntimeKind(nodes[SelectLastInSeq(nodes, LAMBDA v : Len(v) > 0)])

\* The new r.DynamicParameters.ContainerRuntimeType: the CR's value when set,
\* else the value cached by an earlier cycle, else discovered from the nodes
\* (the default when there are none or they disagree).
UpdateDynamicParameters(crRuntime, cached, nodes) ==
    IF crRuntime # <<>> THEN crRuntime
    ELSE IF cached # <<>> THEN cached
    ELSE IF nodes = <<>> THEN DefaultContainerRuntimeType
    ELSE LET kinds == FoldLeft(AddNodeRuntime, {}, nodes) IN
         IF Cardinality(kinds) > 1 THEN DefaultContainerRuntimeType
         ELSE IF Cardinality(kinds) = 1 THEN CHOOSE k \in kinds : TRUE
         ELSE cached

-----------------------------------------------------------------------------
VARIABLES
    runtime,       \* r.DynamicParameters.ContainerRuntimeType (process-wide)
    listed,        \* history: the node list the last cycle start saw
    spec,          \* the CR spec stored in the API server
    cr,            \* the copy fetched by the running cycle
    queued,        \* a reconcile request waits in the work queue
    pc,            \* the step of the cycle; "idle" between cycles
    conditions,    \* the CR status conditions
    pending,       \* the pendingComponents slice
    isDeployServiceSuccess,
    polls,         \* poll iterations of the readiness wait so far
    deployed,      \* the workload's resources exist in the cluster
    timeoutOnFailed, \* r.TimeoutOnFailedReconcile, as doublings of its initial value
    \* history variables, read only by properties
    cycles, edits, lastCycleFailed, awaited,
    pendingErr

vars == <<runtime, listed, spec, cr, queued, pc, conditions, pending, isDeployServiceSuccess,
          polls, deployed, timeoutOnFailed, cycles, edits,
          lastCycleFailed, awaited, pendingErr>>

Steps == {"idle", "graylog", "fluentd", "fluentbit", "forwarder",
          "eventsReader", "pendingStart", "poll", "finish"}

TypeOK ==
    /\ spec \in DesiredStates /\ cr \in DesiredStates
    /\ queued \in BOOLEAN
    /\ pc \in Steps
    /\ conditions \in Seq(Condition)
    /\ pending \in Seq(Workloads)
    /\ isDeployServiceSuccess \in BOOLEAN
    /\ polls \in 0..MaxPolls
    /\ deployed \in [Workloads -> BOOLEAN]
    /\ timeoutOnFailed \in Nat /\ lastCycleFailed \in BOOLEAN
    /\ awaited \subseteq Reasons
    /\ pendingErr \in BOOLEAN
    /\ runtime \in Seq(STRING) /\ listed \in NodeLists \cup {<<>>}

Init ==
    /\ runtime = <<>> /\ listed = <<>>
    /\ spec \in DesiredStates
    /\ cr = spec
    /\ queued = TRUE                \* the create event of the CR
    /\ pc = "idle"
    /\ conditions = <<>>
    /\ pending = <<>>
    /\ isDeployServiceSuccess = TRUE
    /\ polls = 0
    /\ deployed = [w \in Workloads |-> FALSE]
    /\ timeoutOnFailed = 0
    /\ cycles = 0 /\ edits = 0
    /\ lastCycleFailed = FALSE
    /\ awaited = {} /\ pendingErr = FALSE

(***************************************************************************)
(* Reconcile fetches the CR and ReconcileLoggingServiceCluster starts: the *)
(* cycle status goes In Progress unless it is Failed, then the temporary   *)
(* statuses are dropped.                                                   *)
(***************************************************************************)
Dequeue ==
    /\ pc = "idle" /\ queued /\ cycles < MaxCycles
    /\ LET pre == IF IsStatusFailed(conditions, LoggingServiceStatus)
                  THEN conditions
                  ELSE UpdateStatus(conditions, LoggingServiceStatus, InProgress)
       IN  conditions' = RemoveTemporaryStatuses(pre, InstalledReasons(spec))
    /\ cr' = spec
    /\ \E nodes \in IF spec.runtime = <<>> /\ runtime = <<>> THEN NodeLists
                    ELSE {<<>>} :
          /\ runtime' = UpdateDynamicParameters(spec.runtime, runtime, nodes)
          /\ listed' = nodes
    /\ queued' = FALSE
    /\ pc' = "graylog"
    /\ pending' = <<>>
    /\ isDeployServiceSuccess' = TRUE
    /\ awaited' = {} /\ pendingErr' = FALSE
    /\ UNCHANGED <<spec, polls, deployed, timeoutOnFailed,
                   cycles, edits, lastCycleFailed>>

\* Each Run starts with: if !IsStatusFailed(reason) UpdateStatus(InProgress).
Preamble(reason) ==
    IF IsStatusFailed(conditions, reason) THEN conditions
    ELSE UpdateStatus(conditions, reason, InProgress)

\* uninstall(): every delete error is only logged, so any subset may stay.
Uninstall(w) ==
    \E left \in BOOLEAN :
        deployed' = [deployed EXCEPT ![w] = left /\ deployed[w]]

\* An apply that returned an error may have created some resources.
PartialApply(w) ==
    \E made \in BOOLEAN :
        deployed' = [deployed EXCEPT ![w] = made \/ deployed[w]]

Applied(w) == deployed' = [deployed EXCEPT ![w] = TRUE]

\* Mutant: the error is written to the status but not to isDeployServiceSuccess.
RunFailedNotRecorded(w, conds) ==
    /\ conditions' = conds
    /\ UNCHANGED isDeployServiceSuccess

\* The controller's reaction to an error returned by a Run.
RunFailed(w, conds) ==
    /\ conditions' = conds
    /\ isDeployServiceSuccess' = FALSE

CycleFrozen == UNCHANGED <<runtime, listed, spec, cr, queued, polls, timeoutOnFailed,
                           cycles, edits,
                           lastCycleFailed, awaited, pendingErr>>

\* GraylogReconciler.Run: success removes its status (no readiness wait).
RunGraylog ==
    /\ pc = "graylog" /\ pc' = "fluentd"
    /\ LET pre == Preamble(GraylogStatus) IN
       IF Desired(cr, "graylog")
       THEN \/ /\ Applied("graylog")
               /\ conditions' = RemoveStatus(pre, GraylogStatus)
               /\ UNCHANGED <<isDeployServiceSuccess>>
            \/ /\ PartialApply("graylog")
               /\ RunFailed("graylog", UpdateStatus(pre, GraylogStatus, Failed))
       ELSE /\ Uninstall("graylog")
            /\ conditions' = RemoveStatus(pre, GraylogStatus)
            /\ UNCHANGED <<isDeployServiceSuccess>>
    /\ UNCHANGED pending
    /\ CycleFrozen

(***************************************************************************)
(* The Run of Fluentd, Fluentbit and EventsReader: apply, then append the  *)
(* component to the pending list; or uninstall and remove the status.     *)
(***************************************************************************)
RunWithReadiness(w, next) ==
    /\ pc = w /\ pc' = next
    /\ LET pre == Preamble(StatusOf[w]) IN
       IF Desired(cr, w)
       THEN \/ /\ Applied(w)
               /\ pending' = Append(pending, w)
               /\ conditions' = pre
               /\ UNCHANGED <<isDeployServiceSuccess>>
            \/ /\ PartialApply(w)
               /\ RunFailed(w, UpdateStatus(pre, StatusOf[w], Failed))
               /\ UNCHANGED pending
       ELSE /\ Uninstall(w)
            /\ conditions' = RemoveStatus(pre, StatusOf[w])
            /\ UNCHANGED <<pending, isDeployServiceSuccess>>
    /\ CycleFrozen

RunFluentd       == RunWithReadiness("fluentd", "fluentbit")
RunFluentbit     == RunWithReadiness("fluentbit", "forwarder")
RunEventsReader  == RunWithReadiness("eventsReader", "pendingStart")

(***************************************************************************)
(* HAFluentReconciler.Run.  An aggregator that does not start marks its   *)
(* own status Failed before returning; the controller then marks the      *)
(* error under FluentbitStatus, as it does for every error of this Run.   *)
(***************************************************************************)
RunHAFluent ==
    /\ pc = "forwarder" /\ pc' = "eventsReader"
    /\ LET pre == Preamble(HAFluentStatus) IN
       IF Desired(cr, "forwarder")
       THEN \/ /\ Applied("forwarder")
               /\ pending' = Append(pending, "forwarder")
               /\ conditions' = pre
               /\ UNCHANGED <<isDeployServiceSuccess>>
            \/ /\ PartialApply("forwarder")
               /\ RunFailed("forwarder", UpdateStatus(pre, FluentbitStatus, Failed))
               /\ UNCHANGED pending
            \/ /\ Applied("forwarder")
               /\ RunFailed("forwarder",
                     UpdateStatus(UpdateStatus(pre, HAFluentStatus, Failed),
                                  FluentbitStatus, Failed))
               /\ UNCHANGED pending
       ELSE /\ Uninstall("forwarder")
            /\ conditions' = RemoveStatus(pre, HAFluentStatus)
            /\ UNCHANGED <<pending, isDeployServiceSuccess>>
    /\ CycleFrozen

(***************************************************************************)
(* ComponentsPendingReconciler.Run.  An empty list ends at once; else the *)
(* readiness loop starts after InitialDelay.                               *)
(***************************************************************************)
PendingStart ==
    /\ pc = "pendingStart"
    /\ LET pre == Preamble(ComponentPendingStatus) IN
       IF pending = <<>>
       THEN /\ conditions' = RemoveStatus(pre, ComponentPendingStatus)
            /\ pc' = "finish"
            /\ UNCHANGED <<polls, awaited>>
       ELSE /\ conditions' = pre
            /\ pc' = "poll"
            /\ polls' = 0
            /\ awaited' = {StatusOf[pending[i]] : i \in 1..Len(pending)}
    /\ UNCHANGED <<runtime, listed, spec, cr, queued, pending,
                   isDeployServiceSuccess, deployed,
                   timeoutOnFailed, cycles, edits,
                   lastCycleFailed, pendingErr>>

\* Mutant: the wait loop never checks its deadline.
PendingTimedOutNever(n) == FALSE

\* time.Since(start) >= ComponentPendingTimeout, counted in polls.
PendingTimedOut(n) == n >= PendingTimeoutPolls

\* Mutant: the timeout marks only the first component still pending.
MarkFirstNotStarted(conds, list) ==
    IF list = <<>> THEN conds
    ELSE UpdateStatus(conds, StatusOf[Head(list)], Failed)

\* Mutant: the timeout marks the component name instead of its status name.
RECURSIVE MarkByComponentName(_, _)
MarkByComponentName(conds, list) ==
    IF list = <<>> THEN conds
    ELSE MarkByComponentName(UpdateStatus(conds, Head(list), Failed), Tail(list))


\* On timeout every component still listed is marked Failed, in order.
RECURSIVE MarkNotStarted(_, _)
MarkNotStarted(conds, list) ==
    IF list = <<>> THEN conds
    ELSE MarkNotStarted(UpdateStatus(conds, StatusOf[Head(list)], Failed),
                        Tail(list))

(***************************************************************************)
(* One pass of the backward scan over the list: a ready component has its *)
(* status removed and is swap-removed from the list; a readiness-check     *)
(* error at index errAt returns at once.  `ready` is the set of components *)
(* the cluster reports available during this pass.                        *)
(***************************************************************************)
RECURSIVE Scan(_, _, _, _, _)
Scan(list, conds, i, ready, errAt) ==
    IF i = 0 THEN [list |-> list, conds |-> conds, err |-> FALSE]
    ELSE IF i = errAt THEN [list |-> list, conds |-> conds, err |-> TRUE]
    ELSE IF list[i] \in ready
         THEN Scan(Front(ReplaceAt(list, i, Last(list))),
                   RemoveStatus(conds, StatusOf[list[i]]), i - 1, ready, errAt)
         ELSE Scan(list, conds, i - 1, ready, errAt)

PendingFrozen == UNCHANGED <<runtime, listed, spec, cr, queued, deployed, timeoutOnFailed,
                             cycles, edits,
                             lastCycleFailed, awaited>>

PollTimeout ==
    /\ pc = "poll" /\ PendingTimedOut(polls)
    /\ conditions' = RemoveStatus(MarkNotStarted(conditions, pending),
                                  ComponentPendingStatus)
    /\ isDeployServiceSuccess' = FALSE
    /\ pc' = "finish"
    /\ UNCHANGED <<pending, polls, pendingErr>>
    /\ PendingFrozen

Poll ==
    /\ pc = "poll" /\ ~PendingTimedOut(polls) /\ polls < MaxPolls
    /\ \E ready \in SUBSET Range(pending), errAt \in 0..Len(pending) :
          LET r == Scan(pending, conditions, Len(pending), ready, errAt) IN
          \/ \* Run returns (false, err): the controller marks pending Failed
             /\ r.err
             /\ pending' = r.list
             /\ conditions' = UpdateStatus(r.conds, ComponentPendingStatus, Failed)
             /\ isDeployServiceSuccess' = FALSE
             /\ pendingErr' = TRUE
             /\ pc' = "finish"
             /\ UNCHANGED polls
          \/ /\ ~r.err /\ r.list = <<>>
             /\ pending' = r.list
             /\ conditions' = RemoveStatus(r.conds, ComponentPendingStatus)
             /\ pc' = "finish"
             /\ UNCHANGED <<polls, isDeployServiceSuccess, pendingErr>>
          \/ /\ ~r.err /\ r.list # <<>>
             /\ pending' = r.list
             /\ conditions' = r.conds
             /\ polls' = polls + 1
             /\ UNCHANGED <<pc, isDeployServiceSuccess, pendingErr>>
    /\ PendingFrozen

(***************************************************************************)
(* time.Duration is an int64 count of nanoseconds.  TimeoutOnFailedReconcile *)
(* starts at time.Second = 1953125 * 2^9 ns and only ever doubles, so after *)
(* d doublings it holds 1953125 * 2^(9+d) wrapped to 64 bits, and the       *)
(* model keeps d.  The wrapped value is 0 once 9+d >= 64; below that it is  *)
(* negative when bit 63 is set, which is bit 63-(9+d) of the odd factor     *)
(* (a 21-bit number).                                                       *)
(***************************************************************************)
SecondOdd == 1953125
SecondShift == 9

DurationPositive(d) ==
    LET s == SecondShift + d
        bit == 63 - s
    IN  /\ s < 64
        /\ bit >= 21 \/ (SecondOdd \div 2 ^ bit) % 2 = 0

\* r.TimeoutOnFailedReconcile = InitialTimeoutOnFailedReconcile on success.
TimeoutAfterSuccess(t) == 0

(***************************************************************************)
(* The end of Reconcile: a failed cycle marks the cycle status Failed,     *)
(* returns RequeueAfter = the current timeout and doubles it; a successful *)
(* one marks it Successful and resets the timeout.  controller-runtime     *)
(* queues the request again only for a RequeueAfter > 0 (Requeue is not    *)
(* set), so a wrapped, non-positive timeout requeues nothing.              *)
(***************************************************************************)
Finish ==
    /\ pc = "finish" /\ pc' = "idle"
    /\ IF isDeployServiceSuccess
       THEN /\ conditions' = UpdateStatus(conditions, LoggingServiceStatus, Success)
            /\ timeoutOnFailed' = TimeoutAfterSuccess(timeoutOnFailed)
            /\ UNCHANGED queued
       ELSE /\ conditions' = UpdateStatus(conditions, LoggingServiceStatus, Failed)
            /\ queued' = (queued \/ DurationPositive(timeoutOnFailed))
            /\ timeoutOnFailed' = timeoutOnFailed + 1
    /\ lastCycleFailed' = ~isDeployServiceSuccess
    /\ cycles' = cycles + 1
    /\ UNCHANGED <<runtime, listed, spec, cr, pending, isDeployServiceSuccess,
                   polls, deployed,
                   edits, awaited, pendingErr>>

\* The user writes another spec; the generation change queues a reconcile.
EditSpec ==
    /\ edits < MaxEdits
    /\ \E s \in DesiredStates \ {spec} : spec' = s
    /\ queued' = TRUE
    /\ edits' = edits + 1
    /\ UNCHANGED <<runtime, listed, cr, pc, conditions, pending,
                   isDeployServiceSuccess, polls,
                   deployed, timeoutOnFailed, cycles,
                   lastCycleFailed, awaited, pendingErr>>

CycleStep ==
    \/ RunGraylog \/ RunFluentd \/ RunFluentbit \/ RunHAFluent
    \/ RunEventsReader \/ PendingStart \/ PollTimeout \/ Poll \/ Finish

Next == Dequeue \/ CycleStep \/ EditSpec

\* The worker runs a started cycle to its end; nothing forces the user.
Spec == Init /\ [][Next]_vars
        /\ WF_vars(RunGraylog) /\ WF_vars(RunFluentd) /\ WF_vars(RunFluentbit)
        /\ WF_vars(RunHAFluent) /\ WF_vars(RunEventsReader)
        /\ WF_vars(PendingStart) /\ WF_vars(PollTimeout) /\ WF_vars(Poll)
        /\ WF_vars(Finish)

-----------------------------------------------------------------------------
(* Properties *)

\* UpdateStatus finds the condition of a reason before it appends, and no
\* removal or truncation duplicates one: every reason appears at most once.
OneConditionPerReason ==
    \A i, j \in 1..Len(conditions) :
        i # j => conditions[i].reason # conditions[j].reason

\* The cycle status (ReconcileCycleStatus) says Failed exactly when the last
\* finished cycle failed: the guard in ReconcileLoggingServiceCluster keeps a
\* Failed status through the next cycle until one succeeds, and
\* RemoveTemporaryStatuses never drops it.
CycleStatusReflectsLastCycle ==
    cycles > 0 =>
        /\ GetCondition(conditions, LoggingServiceStatus) # 0
        /\ IsStatusFailed(conditions, LoggingServiceStatus) <=> lastCycleFailed

\* When the readiness tracker returns without error, no component it waited
\* for is still reported In Progress: each one was found started (status
\* removed) or timed out (status Failed).
PendingResolved ==
    (pc = "finish" /\ ~pendingErr) =>
        \A i \in 1..Len(conditions) :
            conditions[i].reason \in awaited => conditions[i].type # InProgress

\* A failed cycle is always retried (specification section 8, backoff
\* monotonicity: the N-th consecutive failure requeues after initial x
\* 2^(N-1)): Reconcile returns RequeueAfter = TimeoutOnFailedReconcile, so
\* whenever the last cycle failed and none runs, the CR waits in the work
\* queue for the next one.
FailedCycleRequeued ==
    (pc = "idle" /\ lastCycleFailed) => queued

\* The runtime the unit test's table expects of a fresh reconciler: the CR's
\* value when set; else containerd when no node is listed, nothing when no
\* node reports a runtime, the one kind they all report, or containerd when
\* they report several.
RuntimeReference(crRuntime, nodes) ==
    LET kinds == {RuntimeKind(nodes[i]) : i \in {j \in 1..Len(nodes) :
                                                   nodes[j] # <<>>}}
    IN  CASE crRuntime # <<>>      -> crRuntime
          [] nodes = <<>>          -> DefaultContainerRuntimeType
          [] kinds = {}            -> <<>>
          [] \E k \in kinds : kinds = {k} -> CHOOSE k \in kinds : TRUE
          [] OTHER                 -> DefaultContainerRuntimeType

\* updateDynamicParameters, when the cycle's CR sets a runtime or no earlier
\* cycle cached one, gives the cycle the runtime of the table for the nodes
\* it listed, whatever the order of the nodes in the list.
RuntimeMatchesTable ==
    [][pc = "idle" /\ pc' = "graylog" /\ (spec.runtime # <<>> \/ runtime = <<>>)
         => runtime' = RuntimeReference(spec.runtime, listed')]_vars

\* Every cycle the worker starts comes back to idle: the readiness wait is
\* bounded by ComponentPendingTimeout.
CycleCompletes == (pc # "idle") ~> (pc = "idle")

\* "we keep failed status for all following reconcile cycles": the Failed
\* condition of an installed component survives the start of the next cycle
\* (RemoveTemporaryStatuses).
FailedStatusSurvivesCycleStart ==
    [][pc = "idle" /\ pc' = "graylog" =>
         \A r \in InstalledReasons(cr') :
             IsStatusFailed(conditions, r) => IsStatusFailed(conditions', r)
      ]_vars

\* The ReconcileCycleStatus condition as the abstract cycle sees it.
CycleStatusOf(conds) ==
    LET i == GetCondition(conds, LoggingServiceStatus)
    IN  IF i = 0 THEN "none" ELSE conds[i].type

Abs == INSTANCE AbstractCycle
          WITH running <- pc # "idle",
               cycleStatus <- CycleStatusOf(conditions),
               Needs <- [s \in DesiredStates |-> {x \in Workloads : Desired(s, x)}]

\* The controller implements the abstract cycle: a request starts a cycle on
\* the stored CR, the cycle status is In Progress (or still Failed) while it
\* runs, a cycle ends Successful only when every workload its CR installs
\* has its resources (each sub-reconciler's error must reach
\* isDeployServiceSuccess), a Failed cycle is requeued, and every started
\* cycle ends.
AbstractCycleSpec == Abs!ASpec

=============================================================================
