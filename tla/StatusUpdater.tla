--------------------------- MODULE StatusUpdater ---------------------------
(***************************************************************************)
(* The status-condition list of the LoggingService custom resource and the *)
(* operations of utils.StatusUpdater (src/controllers/utils/status.go) on  *)
(* it.  A condition is abstracted to its reason (the key) and its type;    *)
(* message, status flag and transition time never decide a branch of the   *)
(* code except through IsStatusEqual, whose only effect (skip an identical *)
(* Failed patch) leaves the abstract list unchanged.                       *)
(*                                                                         *)
(* The list is a sequence because its ORDER matters: RemoveStatus moves    *)
(* the last element into the freed slot and RemoveTemporaryStatuses        *)
(* truncates from the end.                                                 *)
(***************************************************************************)
EXTENDS Naturals, Sequences, SequencesExt

\* Condition reasons (src/controllers/utils/vars.go).
LoggingServiceStatus   == "ReconcileCycleStatus"
GraylogStatus          == "ReconcileGraylogStatus"
FluentdStatus          == "ReconcileFluentdStatus"
FluentbitStatus        == "ReconcileFluentbitStatus"
HAFluentStatus         == "ReconcileHAFluentStatus"
EventsReaderStatus     == "ReconcileEventsReaderStatus"
ComponentPendingStatus == "ComponentPendingStatus"

Reasons == {LoggingServiceStatus, GraylogStatus, FluentdStatus,
            FluentbitStatus, HAFluentStatus, EventsReaderStatus,
            ComponentPendingStatus}

\* Condition types.
InProgress == "In Progress"
Success    == "Successful"
Failed     == "Failed"

Types == {InProgress, Success, Failed}

Condition == [reason : Reasons, type : Types]

\* GetCondition: index of the first condition with this reason, 0 if none.
GetCondition(conds, reason) == SelectInSeq(conds, LAMBDA c : c.reason = reason)

IsStatusFailed(conds, reason) ==
    LET i == GetCondition(conds, reason)
    IN  i # 0 /\ conds[i].type = Failed

\* Mutant: UpdateStatus appends without looking for the reason first.
UpdateStatusAlwaysAppend(conds, reason, type) ==
    Append(conds, [reason |-> reason, type |-> type])

\* UpdateStatus: overwrite the condition in place, or append a new one.
UpdateStatus(conds, reason, type) ==
    LET i == GetCondition(conds, reason)
        c == [reason |-> reason, type |-> type]
    IN  IF i # 0 THEN ReplaceAt(conds, i, c) ELSE Append(conds, c)

\* RemoveStatus: move the last condition into the slot and drop the last.
RemoveStatus(conds, reason) ==
    LET i == GetCondition(conds, reason)
    IN  IF i = 0 THEN conds
        ELSE Front(ReplaceAt(conds, i, Last(conds)))

(***************************************************************************)
(* RemoveTemporaryStatuses keeps the cycle status and the Failed condition *)
(* of every installed component (and a Failed pending condition); it       *)
(* walks the list from the end and, for every condition it does not keep, *)
(* cuts the LAST element of the list, whichever that is.  `installed`      *)
(* is the set of reasons whose component IsInstall() in the fetched CR.    *)
(***************************************************************************)
\* Mutant: the cycle status is not exempted from the truncation.
KeptOnlyFailed(c, installed) ==
    /\ c.type = Failed
    /\ c.reason \in installed \cup {ComponentPendingStatus}

KeptAcrossCycles(c, installed) ==
    \/ c.reason = LoggingServiceStatus
    \/ /\ c.type = Failed
       /\ c.reason \in installed \cup {ComponentPendingStatus}

RECURSIVE TruncateFrom(_, _, _)
TruncateFrom(conds, i, installed) ==
    IF i = 0 THEN conds
    ELSE IF KeptAcrossCycles(conds[i], installed)
         THEN TruncateFrom(conds, i - 1, installed)
         ELSE TruncateFrom(Front(conds), i - 1, installed)

RemoveTemporaryStatuses(conds, installed) ==
    TruncateFrom(conds, Len(conds), installed)

\* Reasons that have a condition in the list.
ReasonsOf(conds) == {conds[i].reason : i \in 1..Len(conds)}

=============================================================================
