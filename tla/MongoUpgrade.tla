---------------------------- MODULE MongoUpgrade ----------------------------
(***************************************************************************)
(* The MongoDB upgrade path of GraylogReconciler.Run (src/controllers/     *)
(* graylog/reconciler.go, handler.go): scale the Graylog statefulset to    *)
(* zero, run the four upgrade jobs in their fixed order, then re-apply the *)
(* statefulset with its replicas.  When the upgrade is not required the    *)
(* jobs are deleted instead.                                               *)
(*                                                                         *)
(* The cluster is the environment: a job's pod runs to success or failure *)
(* on its own, statefulset pods follow the replica count, and the operator *)
(* process may crash at any point and restart with all in-memory state     *)
(* lost (the cluster state survives).  Every wait of the code (scale-down, *)
(* job success, statefulset start) is a bounded poll: it succeeds when the *)
(* awaited state is observed and may time out at any moment before that.  *)
(***************************************************************************)
EXTENDS Naturals, Sequences

CONSTANTS
    MaxCycles,     \* model bound on reconcile cycles
    MaxRestarts,   \* model bound on operator crashes
    MaxEdits       \* model bound on CR edits switching the upgrade on/off

\* util.GraylogMongoUpgradeOrderedJobs, in the order the code runs them.
GraylogMongoUpgradeOrderedJobs ==
    <<"mongo-upgrade-job-40", "mongo-upgrade-job-42",
      "mongo-upgrade-job-44", "mongo-upgrade-job-50">>

Jobs == 1..Len(GraylogMongoUpgradeOrderedJobs)

\* The state of a Job object: absent, or its pod active/succeeded/failed.
JobStates == {"absent", "active", "succeeded", "failed"}

VARIABLES
    pc,          \* step of GraylogReconciler.Run; "idle" between cycles
    cur,         \* index of the upgrade job being handled
    job,         \* job[k]: the k-th upgrade Job in the cluster
    stsExists,   \* the Graylog statefulset exists
    replicasUp,  \* its spec.replicas is the configured count (not 0)
    podsRunning, \* Graylog pods are running
    required,    \* MongoDBUpgrade is set and the image is Graylog 5
    queued,      \* a reconcile request waits in the work queue
    graylogFailed, \* ReconcileGraylogStatus is Failed
    cycles, restarts, edits

vars == <<pc, cur, job, stsExists, replicasUp, podsRunning, required, queued,
          graylogFailed, cycles, restarts, edits>>

Steps == {"idle", "cleanup", "scaleDown", "scaleDownWait", "job", "jobWait",
          "statefulset", "statefulsetWait"}

TypeOK ==
    /\ pc \in Steps
    /\ cur \in Jobs
    /\ job \in [Jobs -> JobStates]
    /\ stsExists \in BOOLEAN /\ replicasUp \in BOOLEAN
    /\ podsRunning \in BOOLEAN /\ required \in BOOLEAN
    /\ queued \in BOOLEAN /\ graylogFailed \in BOOLEAN
    /\ cycles \in 0..MaxCycles /\ restarts \in 0..MaxRestarts
    /\ edits \in 0..MaxEdits

\* A Graylog 4 installation running, the CR just switched to Graylog 5
\* with the upgrade configured; or a fresh installation.
Init ==
    /\ pc = "idle" /\ cur = 1
    /\ job = [k \in Jobs |-> "absent"]
    /\ stsExists \in BOOLEAN
    /\ replicasUp = stsExists /\ podsRunning = stsExists
    /\ required \in BOOLEAN
    /\ queued = TRUE
    /\ graylogFailed = FALSE
    /\ cycles = 0 /\ restarts = 0 /\ edits = 0

Env == <<required, edits, restarts>>

(***************************************************************************)
(* Run starts; the steps before the upgrade (connector, service account,   *)
(* config map, old deployment) are not modelled.                           *)
(***************************************************************************)
Dequeue ==
    /\ pc = "idle" /\ queued /\ cycles < MaxCycles
    /\ queued' = FALSE
    /\ cycles' = cycles + 1
    /\ pc' = IF required THEN "scaleDown" ELSE "cleanup"
    /\ UNCHANGED <<cur, job, stsExists, replicasUp, podsRunning, graylogFailed,
                   Env>>

\* deleteUpgradeJobs ranges over a Go map (random order) and stops at the
\* first delete error, which Run only logs: any subset of the jobs may stay.
DeleteUpgradeJobs ==
    /\ pc = "cleanup" /\ pc' = "statefulset"
    /\ \E stays \in SUBSET Jobs :
          job' = [k \in Jobs |-> IF k \in stays THEN job[k] ELSE "absent"]
    /\ UNCHANGED <<cur, stsExists, replicasUp, podsRunning, queued,
                   graylogFailed, cycles, Env>>

\* scaleDownStatefulset: a missing statefulset is no error; else replicas 0.
ScaleDown ==
    /\ pc = "scaleDown"
    /\ IF stsExists
       THEN /\ replicasUp' = FALSE
            /\ pc' = "scaleDownWait"
       ELSE /\ pc' = "job" /\ UNCHANGED replicasUp
    /\ cur' = 1
    /\ UNCHANGED <<job, stsExists, podsRunning, queued, graylogFailed, cycles,
                   Env>>

\* Mutant: mongoUpgrade goes on with the jobs after a failed scale-down.
AfterScaleDownFailedContinue == "job"

\* Where mongoUpgrade goes when scaleDownStatefulset returns an error: it
\* returns the error, which Run logs before handling the statefulset.
AfterScaleDownFailed == "statefulset"

\* WaitForStatefulsetUpdated after the scale-down.
ScaleDownWait ==
    /\ pc = "scaleDownWait"
    /\ \/ /\ ~podsRunning
          /\ pc' = "job"
          /\ UNCHANGED graylogFailed
       \/ /\ podsRunning                 \* timed out: status Failed, error
          /\ graylogFailed' = TRUE
          /\ pc' = AfterScaleDownFailed
    /\ UNCHANGED <<cur, job, stsExists, replicasUp, podsRunning, queued, cycles,
                   Env>>

(***************************************************************************)
(* handleMongoUpgradeJob: create the job; if it already exists, return nil *)
(* at once, without waiting for it; else wait for its success.            *)
(***************************************************************************)
\* Mutant: the loop bound is off by one.
NextJobOrPastEnd(step) ==
    IF cur <= Len(GraylogMongoUpgradeOrderedJobs)
    THEN /\ pc' = "job" /\ cur' = cur + 1
    ELSE /\ pc' = step /\ UNCHANGED cur

\* The range loop of mongoUpgrade moves to the next job, or is done.
NextJobOr(step) ==
    IF cur < Len(GraylogMongoUpgradeOrderedJobs)
    THEN /\ pc' = "job" /\ cur' = cur + 1
    ELSE /\ pc' = step /\ UNCHANGED cur

CreateJob ==
    /\ pc = "job"
    /\ IF job[cur] = "absent"
       THEN /\ job' = [job EXCEPT ![cur] = "active"]
            /\ pc' = "jobWait" /\ UNCHANGED cur
       ELSE /\ NextJobOr("statefulset")
            /\ UNCHANGED job
    /\ UNCHANGED <<stsExists, replicasUp, podsRunning, queued, graylogFailed,
                   cycles, Env>>

\* WaitForJobSucceeded, then DeletePods (whose error ends the upgrade too).
JobWait ==
    /\ pc = "jobWait"
    /\ \/ /\ job[cur] = "succeeded"
          /\ NextJobOr("statefulset")
          /\ UNCHANGED graylogFailed
       \/ /\ job[cur] = "succeeded"      \* DeletePods failed
          /\ pc' = "statefulset" /\ UNCHANGED <<cur, graylogFailed>>
       \/ /\ job[cur] # "succeeded"      \* timed out: status Failed, error
          /\ graylogFailed' = TRUE
          /\ pc' = "statefulset" /\ UNCHANGED cur
    /\ UNCHANGED <<job, stsExists, replicasUp, podsRunning, queued, cycles, Env>>

(***************************************************************************)
(* handleStatefulset creates or updates the statefulset with its replicas  *)
(* and waits for it to start; then the rest of Run (service, Graylog       *)
(* configuration) succeeds or fails.  A successful Run removes the Graylog *)
(* status; a failed one makes the cycle fail, which requeues it.           *)
(***************************************************************************)
HandleStatefulset ==
    /\ pc = "statefulset" /\ pc' = "statefulsetWait"
    /\ stsExists' = TRUE /\ replicasUp' = TRUE
    /\ UNCHANGED <<cur, job, podsRunning, queued, graylogFailed, cycles, Env>>

StatefulsetWait ==
    /\ pc = "statefulsetWait" /\ pc' = "idle"
    /\ \/ /\ podsRunning                 \* started; the rest of Run succeeds
          /\ graylogFailed' = FALSE
          /\ UNCHANGED queued
       \/ /\ queued' = TRUE              \* not started, or a later step failed
          /\ graylogFailed' = TRUE
    /\ UNCHANGED <<cur, job, stsExists, replicasUp, podsRunning, cycles, Env>>

-----------------------------------------------------------------------------
(* The environment *)

\* The job's pod finishes; the job controller gives up after its retries.
JobFinishes ==
    \E k \in Jobs :
        /\ job[k] = "active"
        /\ \E s \in {"succeeded", "failed"} : job' = [job EXCEPT ![k] = s]
        /\ UNCHANGED <<pc, cur, stsExists, replicasUp, podsRunning, queued,
                       graylogFailed, cycles, Env>>

\* The statefulset controller starts or stops the Graylog pods.
PodsConverge ==
    /\ podsRunning # (stsExists /\ replicasUp)
    /\ podsRunning' = (stsExists /\ replicasUp)
    /\ UNCHANGED <<pc, cur, job, stsExists, replicasUp, required, queued,
                   graylogFailed, cycles, Env>>

\* The user switches the upgrade on or off (image or MongoDBUpgrade).
EditSpec ==
    /\ edits < MaxEdits
    /\ required' = ~required
    /\ edits' = edits + 1
    /\ queued' = TRUE
    /\ UNCHANGED <<pc, cur, job, stsExists, replicasUp, podsRunning,
                   graylogFailed, cycles, restarts>>

\* The operator crashes; on start it lists the CR, which queues a reconcile.
Restart ==
    /\ pc # "idle" /\ restarts < MaxRestarts
    /\ pc' = "idle" /\ queued' = TRUE
    /\ restarts' = restarts + 1
    /\ UNCHANGED <<cur, job, stsExists, replicasUp, podsRunning, required,
                   graylogFailed, cycles, edits>>

Next ==
    \/ Dequeue \/ DeleteUpgradeJobs \/ ScaleDown \/ ScaleDownWait
    \/ CreateJob \/ JobWait \/ HandleStatefulset \/ StatefulsetWait
    \/ JobFinishes \/ PodsConverge \/ EditSpec \/ Restart

Spec == Init /\ [][Next]_vars

-----------------------------------------------------------------------------
(* Properties *)

\* "Scale down the Graylog statefulset before starting upgrade jobs to avoid
\* conflicts between MongoDB instances": no upgrade job is ever created while
\* Graylog pods run, across restarts and timed-out waits.
JobsStartOnlyWhenGraylogStopped ==
    [][\A k \in Jobs :
         (job[k] = "absent" /\ job'[k] = "active") => ~podsRunning]_vars

\* Strict order (scenario 2 of the specification): the job of a step is
\* only submitted after the job of the previous step succeeded.
StepsInOrder ==
    [][\A k \in Jobs \ {1} :
         (job[k] = "absent" /\ job'[k] = "active") => job[k - 1] = "succeeded"
      ]_vars

=============================================================================
