---------------------------- MODULE AbstractCycle ----------------------------
(***************************************************************************)
(* What the Convergence Controller promises of one reconcile cycle        *)
(* (specification 4.1, 4.2), with no sub-reconciler, condition list or    *)
(* readiness loop in it.  A queued request starts a cycle on the copy of  *)
(* the desired state stored at that moment; while it runs, the cycle may  *)
(* create and delete workload resources; it ends either Successful, with  *)
(* every workload its copy asks for present, and no requeue of its own,   *)
(* or Failed and requeued.  A started cycle always ends.                   *)
(*                                                                         *)
(* Deleting the resources of a workload switched off is not part of the   *)
(* promise: every uninstall() of the code only logs a failed delete.      *)
(***************************************************************************)
EXTENDS Naturals

CONSTANTS
    DesiredStates,   \* the desired-state documents the user may store
    Workloads,       \* the workloads the controller manages
    Needs            \* Needs[s]: the workloads the document s installs

VARIABLES
    spec,         \* the desired state stored in the API server
    cr,           \* the copy the current (or last) cycle works on
    queued,       \* a reconcile request waits
    running,      \* a cycle is in progress
    cycleStatus,  \* the ReconcileCycleStatus condition: "none" or its type
    deployed      \* the workloads whose resources exist

avars == <<spec, cr, queued, running, cycleStatus, deployed>>

CycleStatuses == {"none", "In Progress", "Successful", "Failed"}

ATypeOK ==
    /\ spec \in DesiredStates /\ cr \in DesiredStates
    /\ queued \in BOOLEAN /\ running \in BOOLEAN
    /\ cycleStatus \in CycleStatuses
    /\ deployed \in [Workloads -> BOOLEAN]

AInit ==
    /\ spec \in DesiredStates /\ cr = spec
    /\ queued = TRUE /\ ~running
    /\ cycleStatus = "none"
    /\ deployed = [w \in Workloads |-> FALSE]

\* A cycle starts on the stored desired state; a Failed status stays Failed
\* until the cycle ends.
Start ==
    /\ queued /\ ~running
    /\ running' = TRUE /\ queued' = FALSE /\ cr' = spec
    /\ cycleStatus' = IF cycleStatus = "Failed" THEN "Failed" ELSE "In Progress"
    /\ UNCHANGED <<spec, deployed>>

\* The running cycle creates or deletes resources.
Work ==
    /\ running
    /\ deployed' \in [Workloads -> BOOLEAN]
    /\ UNCHANGED <<spec, cr, queued, running, cycleStatus>>

\* The cycle ends Successful only with every workload of its copy present.
Succeed ==
    /\ running /\ \A x \in Needs[cr] : deployed[x]
    /\ running' = FALSE /\ cycleStatus' = "Successful"
    /\ UNCHANGED <<spec, cr, queued, deployed>>

\* The cycle ends Failed and asks to be run again.
Fail ==
    /\ running
    /\ running' = FALSE /\ cycleStatus' = "Failed" /\ queued' = TRUE
    /\ UNCHANGED <<spec, cr, deployed>>

\* The user stores another desired state, which queues a request.
Edit ==
    /\ \E s \in DesiredStates \ {spec} : spec' = s
    /\ queued' = TRUE
    /\ UNCHANGED <<cr, running, cycleStatus, deployed>>

ANext == Start \/ Work \/ Succeed \/ Fail \/ Edit

\* Nothing forces a request to be served; a started cycle ends.
ASpec == AInit /\ [][ANext]_avars /\ WF_avars(Succeed \/ Fail)

=============================================================================
