---------------------------- MODULE ResourceApply ----------------------------
(***************************************************************************)
(* The create-then-update-on-conflict apply of the component               *)
(* sub-reconcilers (specification 4.2): the controller runs each one in    *)
(* turn (loggingservice_controller.go), an error ends that Run but not the  *)
(* cycle, and each Run applies its objects with the CRUD primitives of     *)
(* utils/common.go, or deletes them when its component is switched off.    *)
(* Other writers (kubectl, other controllers) write the same objects.      *)
(*                                                                         *)
(* An object is abstracted to what the handlers tell apart: its owned      *)
(* spec (template, containers, ports, selector or config data), the       *)
(* version label the operator sets, an extra label another writer added,  *)
(* and an annotation: a field outside the operator's allow-list.  The     *)
(* resourceVersion check of an Update is modelled by `fresh`: whether the  *)
(* object the handler fetched is still the stored one.                     *)
(***************************************************************************)
EXTENDS Naturals, Sequences, FiniteSets

CONSTANTS
    Components,      \* the sub-reconcilers, in the order the controller runs them
    Resources,       \* the objects they manage
    Kind,            \* Kind[r] \in {"ConfigMap", "DaemonSet", "StatefulSet",
                     \*             "Deployment", "Service", "ServiceAccount"}
    Provisioned,     \* objects the installer creates, which an uninstall deletes
    BlindUpdated,    \* objects whose handler, on AlreadyExists, sends an Update
                     \* built from the manifest, with no Get
    HostWaited,      \* objects whose handler waits for their host after a Create
    LabelsCompared,  \* config maps whose Equal also compares labels
    InstallPlan,     \* InstallPlan[c]: the order c's Run applies its objects in
    UninstallPlan,   \* UninstallPlan[c]: the order c's uninstall deletes them in
    Installs(_, _),  \* Installs(d, c): document d switches component c on
    ConfigError(_, _), \* ConfigError(d, c): c's Run rejects d before applying
    Docs,            \* the desired-state documents the user may store
    Specs,           \* owned spec values, one of them written by others
    Vers,            \* values of the version label
    Render(_, _),    \* Render(d, r): the manifest of r for document d
    Touchable,       \* the objects other writers touch
    MaxCycles,       \* bound on reconcile cycles
    MaxExternal,     \* bound on faults: writes of other writers and failed
                     \* Gets or Deletes of uninstall steps, together
    MaxEdits         \* bound on edits of the desired state

VARIABLES
    live,        \* live[r]: the object stored in the API server, or NoObj
    doc,         \* the desired state stored in the custom resource
    cdoc,        \* the copy the current (or last) cycle renders
    pc,          \* where the reconciler is
    ci,          \* index of the running sub-reconciler in Components
    idx,         \* index into that sub-reconciler's plan
    copy,        \* the object the handler fetched with Get
    fresh,       \* copy is still the stored version of the object
    failedRun,   \* some Run of the current cycle returned an error
    outcome,     \* result of the last cycle: "none", "ok" or "failed"
    cycles, extWrites, edits,
    delErrors,   \* uninstall steps that failed so far
    \* history, for the properties
    extDuring,   \* another writer wrote during the cycle
    wrote,       \* the cycle changed an object or sent a config map Update
    cleanStart,  \* the cycle started right after a clean cycle on the same document
    settled,     \* document of the last cycle that ended ok with no foreign
                 \* write during or after it and no logged delete error, or NoDoc
    undeleted    \* objects whose delete step logged an error this cycle

vars == <<live, doc, cdoc, pc, ci, idx, copy, fresh, failedRun, outcome,
          cycles, extWrites, edits, delErrors, extDuring, wrote, cleanStart,
          settled, undeleted>>

NoObj == [kind |-> "none"]

Obj == [spec : Specs, ver : Vers, extLabel : BOOLEAN, annot : BOOLEAN]

\* No document: nothing has settled.
NoDoc == [tag |-> "none"]

Pcs == {"idle", "run", "create", "get", "blind", "update", "wait", "hostwait",
        "delget", "delete"}

TypeOK ==
    /\ live \in [Resources -> Obj \cup {NoObj}]
    /\ doc \in Docs /\ cdoc \in Docs
    /\ pc \in Pcs /\ ci \in 1..Len(Components) + 1
    /\ idx \in 1..Cardinality(Resources) + 1
    /\ copy \in Obj \cup {NoObj} /\ fresh \in BOOLEAN /\ failedRun \in BOOLEAN
    /\ outcome \in {"none", "ok", "failed"}
    /\ cycles \in 0..MaxCycles /\ extWrites \in 0..MaxExternal
    /\ edits \in 0..MaxEdits
    /\ extDuring \in BOOLEAN /\ wrote \in BOOLEAN /\ cleanStart \in BOOLEAN
    /\ settled \in Docs \cup {NoDoc}
    /\ delErrors \in 0..MaxExternal /\ undeleted \subseteq Resources

-----------------------------------------------------------------------------
(* The manifests and the handlers' merges *)

\* The running sub-reconciler, the plan its Run walks, and the object it is at.
Comp == Components[ci]
Plan == IF Installs(cdoc, Comp) THEN InstallPlan[Comp] ELSE UninstallPlan[Comp]
Cur == Plan[idx]

\* The objects the switched-on components of document d apply.
Wanted(d) ==
    UNION {{InstallPlan[c][i] : i \in DOMAIN InstallPlan[c]} :
              c \in {Components[k] : k \in {j \in DOMAIN Components : Installs(d, Components[j])}}}

\* The objects the switched-off components of document d delete.
Unwanted(d) ==
    UNION {{UninstallPlan[c][i] : i \in DOMAIN UninstallPlan[c]} :
              c \in {Components[k] : k \in {j \in DOMAIN Components : ~Installs(d, Components[j])}}}

\* A handler renders its manifest first.
Manifest == Render(cdoc, Cur)

\* Mutant: the manifest is created without its label map.
CreatedObjectUnlabelled(m) == [spec |-> m.spec, ver |-> "", extLabel |-> FALSE, annot |-> FALSE]

\* A created object is the manifest: the operator's labels, nothing foreign.
CreatedObject(m) == [spec |-> m.spec, ver |-> m.ver, extLabel |-> FALSE, annot |-> FALSE]

\* fluentbit's Equal: Data and BinaryData only.
EqualData(e, m) == e.spec = m.spec

\* Mutant: the forwarder/aggregator Equal written like fluentbit's.
EqualIgnoringLabels(r, e, m) == EqualData(e, m)

\* Mutant: cmp.Equal of the whole objects, whose metadata never match.
EqualObjects(r, e, m) == e = m

\* The forwarder/aggregator Equal also compares the whole label map, so an
\* extra label makes it differ.
Equal(r, e, m) ==
    /\ EqualData(e, m)
    /\ r \in LabelsCompared => (e.ver = m.ver /\ ~e.extLabel)

\* DaemonSet: the manifest's labels are merged into the fetched ones, the
\* template fields of the allow-list are overwritten.
MergeDaemonSet(e, m) == [e EXCEPT !.spec = m.spec, !.ver = m.ver]

\* StatefulSet: the same merge as the DaemonSet.
MergeStatefulSet(e, m) == [e EXCEPT !.spec = m.spec, !.ver = m.ver]

\* Deployment (the events reader): labels merged, selector and template
\* fields of the allow-list overwritten.
MergeDeployment(e, m) == [e EXCEPT !.spec = m.spec, !.ver = m.ver]

\* Service: SetLabels replaces the label map; ports and selector are
\* overwritten.
MergeService(e, m) == [e EXCEPT !.spec = m.spec, !.ver = m.ver, !.extLabel = FALSE]

\* The merge of the handler the object's kind selects.
Merge(r, e, m) ==
    CASE Kind[r] = "DaemonSet"   -> MergeDaemonSet(e, m)
      [] Kind[r] = "StatefulSet" -> MergeStatefulSet(e, m)
      [] Kind[r] = "Deployment"  -> MergeDeployment(e, m)
      [] Kind[r] = "Service"     -> MergeService(e, m)

-----------------------------------------------------------------------------
(* The reconciler *)

Init ==
    \* The installer's objects, and either nothing else or the objects an
    \* earlier run left for some document.
    /\ \E d0 \in Docs, earlier \in BOOLEAN :
           live = [r \in Resources |->
                     IF r \in Provisioned \/ (earlier /\ r \in Wanted(d0))
                     THEN CreatedObject(Render(d0, r)) ELSE NoObj]
    /\ doc \in Docs /\ cdoc = doc
    /\ pc = "idle" /\ ci = 1 /\ idx = 1 /\ copy = NoObj /\ fresh = FALSE
    /\ failedRun = FALSE /\ outcome = "none"
    /\ cycles = 0 /\ extWrites = 0 /\ edits = 0
    /\ extDuring = FALSE /\ wrote = FALSE /\ cleanStart = FALSE /\ settled = NoDoc
    /\ delErrors = 0 /\ undeleted = {}

\* A Run returns an error: the controller records it and runs the next
\* sub-reconciler.
Fail ==
    /\ pc' = "run" /\ ci' = ci + 1 /\ failedRun' = TRUE

\* A handler returned nil: the StatefulSet handler still waits for the
\* aggregator, every other one hands over to the next object.
AfterApply ==
    IF Kind[Cur] = "StatefulSet"
    THEN pc' = "wait" /\ idx' = idx
    ELSE pc' = "create" /\ idx' = idx + 1

\* Reconcile starts a cycle on the stored CR.
StartCycle ==
    /\ pc = "idle" /\ cycles < MaxCycles
    /\ pc' = "run" /\ ci' = 1
    /\ cycles' = cycles + 1 /\ cdoc' = doc /\ failedRun' = FALSE
    /\ extDuring' = FALSE /\ wrote' = FALSE /\ cleanStart' = (settled = doc)
    /\ undeleted' = {}
    /\ UNCHANGED <<live, doc, idx, copy, fresh, outcome, extWrites, edits, settled,
                   delErrors>>

\* A sub-reconciler's Run starts: the forwarder/aggregator rejects a
\* Graylog output without host or port; otherwise Run installs (walking
\* InstallPlan) or uninstalls (walking UninstallPlan).
StartRun ==
    /\ pc = "run" /\ ci <= Len(Components)
    /\ IF ConfigError(cdoc, Comp)
       THEN Fail /\ UNCHANGED idx
       ELSE /\ pc' = IF Installs(cdoc, Comp) THEN "create" ELSE "delget"
            /\ idx' = 1
            /\ UNCHANGED <<ci, failedRun>>
    /\ UNCHANGED <<live, doc, cdoc, copy, fresh, outcome, cycles, extWrites, edits,
                   extDuring, wrote, cleanStart, settled,
                   delErrors, undeleted>>

\* CreateResource: Create succeeds on a missing object, and Graylog's
\* service handler then waits for its host; AlreadyExists sends the handler
\* to Get, or straight to its Update.
Create ==
    /\ pc = "create" /\ idx <= Len(Plan)
    /\ IF live[Cur] = NoObj
       THEN /\ live' = [live EXCEPT ![Cur] = CreatedObject(Manifest)]
            /\ wrote' = TRUE
            /\ IF Cur \in HostWaited THEN pc' = "hostwait" /\ idx' = idx
                                      ELSE AfterApply
       ELSE /\ pc' = IF Cur \in BlindUpdated THEN "blind" ELSE "get"
            /\ UNCHANGED <<live, idx, wrote>>
    /\ UNCHANGED <<doc, cdoc, ci, copy, fresh, failedRun, outcome, cycles, extWrites,
                   edits, extDuring, cleanStart, settled,
                   delErrors, undeleted>>

\* GetResource: NotFound in the namespace and at cluster scope is an error.
Get ==
    /\ pc = "get"
    /\ IF live[Cur] = NoObj
       THEN /\ Fail /\ UNCHANGED <<copy, fresh>>
       ELSE /\ copy' = live[Cur] /\ fresh' = TRUE /\ pc' = "update"
            /\ UNCHANGED <<ci, failedRun>>
    /\ UNCHANGED <<live, doc, cdoc, idx, outcome, cycles, extWrites, edits,
                   extDuring, wrote, cleanStart, settled,
                   delErrors, undeleted>>

\* Graylog's service account, config map and service handlers send an Update
\* of an object built from the manifest: no resourceVersion, so nothing
\* written since is detected, and the stored object is replaced whole.  The
\* API server answers NotFound for a deleted object, and stores nothing when
\* nothing changed.
BlindUpdate ==
    /\ pc = "blind"
    /\ IF live[Cur] = NoObj
       THEN /\ Fail /\ UNCHANGED <<live, idx, wrote>>
       ELSE /\ live' = [live EXCEPT ![Cur] = CreatedObject(Manifest)]
            /\ wrote' = (wrote \/ live'[Cur] # live[Cur])
            /\ AfterApply
            /\ UNCHANGED <<ci, failedRun>>
    /\ UNCHANGED <<doc, cdoc, copy, fresh, outcome, cycles, extWrites, edits,
                   extDuring, cleanStart, settled,
                   delErrors, undeleted>>

\* Mutant: the merged object is sent without the fetched resourceVersion.
UpdateObjectUnconditional ==
    /\ pc = "update" /\ Kind[Cur] # "ConfigMap"
    /\ IF live[Cur] = NoObj
       THEN /\ Fail /\ UNCHANGED <<live, idx, wrote>>
       ELSE LET e == Merge(Cur, copy, Manifest) IN
            /\ live' = [live EXCEPT ![Cur] = e]
            /\ wrote' = (wrote \/ e # live[Cur])
            /\ AfterApply
            /\ UNCHANGED <<ci, failedRun>>
    /\ UNCHANGED <<doc, cdoc, copy, fresh, outcome, cycles, extWrites, edits,
                   extDuring, cleanStart, settled,
                   delErrors, undeleted>>

\* UpdateResource of a merged workload or service: it carries the fetched
\* resourceVersion, so a write by anyone since the Get is a Conflict, and a
\* delete a NotFound.  The API server stores nothing when nothing changed.
UpdateObject ==
    /\ pc = "update" /\ Kind[Cur] # "ConfigMap"
    /\ IF live[Cur] = NoObj \/ ~fresh
       THEN /\ Fail /\ UNCHANGED <<live, idx, wrote>>
       ELSE LET e == Merge(Cur, copy, Manifest) IN
            /\ live' = [live EXCEPT ![Cur] = e]
            /\ wrote' = (wrote \/ e # live[Cur])
            /\ AfterApply
            /\ UNCHANGED <<ci, failedRun>>
    /\ UNCHANGED <<doc, cdoc, copy, fresh, outcome, cycles, extWrites, edits,
                   extDuring, cleanStart, settled,
                   delErrors, undeleted>>

\* updateConfigMap (CreateOrUpdate in fluentbit): when the fetched map is
\* not Equal to the manifest, the manifest itself is sent to Update.  It has
\* no resourceVersion, so the update is unconditional and replaces the
\* whole stored object.
ApplyConfigMap ==
    /\ pc = "update" /\ Kind[Cur] = "ConfigMap"
    /\ IF Equal(Cur, copy, Manifest)
       THEN /\ AfterApply /\ UNCHANGED <<live, wrote, ci, failedRun>>
       ELSE /\ wrote' = TRUE
            /\ IF live[Cur] = NoObj
               THEN /\ Fail /\ UNCHANGED <<live, idx>>
               ELSE /\ live' = [live EXCEPT ![Cur] = CreatedObject(Manifest)]
                    /\ AfterApply
                    /\ UNCHANGED <<ci, failedRun>>
    /\ UNCHANGED <<doc, cdoc, copy, fresh, outcome, cycles, extWrites, edits,
                   extDuring, cleanStart, settled,
                   delErrors, undeleted>>

\* WaitForStatefulsetUpdated reports the aggregator (or Graylog) started
\* within its timeout ...
AggregatorStarted ==
    /\ pc = "wait"
    /\ pc' = "create" /\ idx' = idx + 1
    /\ UNCHANGED <<live, doc, cdoc, ci, copy, fresh, failedRun, outcome, cycles,
                   extWrites, edits, extDuring, wrote, cleanStart, settled,
                   delErrors, undeleted>>

\* ... or not: the component's status is set Failed and the handler returns
\* an error.
AggregatorNotStarted ==
    /\ pc = "wait"
    /\ Fail
    /\ UNCHANGED <<live, doc, cdoc, idx, copy, fresh, outcome, cycles, extWrites,
                   edits, extDuring, wrote, cleanStart, settled,
                   delErrors, undeleted>>

\* WaitForHostActive: the new Graylog service answers on its port within
\* its retries ...
HostActive ==
    /\ pc = "hostwait"
    /\ pc' = "create" /\ idx' = idx + 1
    /\ UNCHANGED <<live, doc, cdoc, ci, copy, fresh, failedRun, outcome, cycles,
                   extWrites, edits, extDuring, wrote, cleanStart, settled,
                   delErrors, undeleted>>

\* ... or not, and handleService returns the dial error.
HostUnreachable ==
    /\ pc = "hostwait"
    /\ Fail
    /\ UNCHANGED <<live, doc, cdoc, idx, copy, fresh, outcome, cycles, extWrites,
                   edits, extDuring, wrote, cleanStart, settled,
                   delErrors, undeleted>>

\* A delete handler's step returned an error: uninstall logs it and goes
\* on with the next object, and Run still returns nil.
DeleteFailed ==
    /\ extWrites + delErrors < MaxExternal
    /\ delErrors' = delErrors + 1 /\ undeleted' = undeleted \cup {Cur}
    /\ pc' = "delget" /\ idx' = idx + 1

\* A delete handler's Get: NotFound means nothing to delete; another error
\* (a timeout, a refused connection) is returned before the Delete.
DeleteGet ==
    /\ pc = "delget" /\ idx <= Len(Plan)
    /\ \/ /\ IF live[Cur] = NoObj
             THEN idx' = idx + 1 /\ UNCHANGED pc
             ELSE pc' = "delete" /\ UNCHANGED idx
          /\ UNCHANGED <<delErrors, undeleted>>
       \/ live[Cur] # NoObj /\ DeleteFailed
    /\ UNCHANGED <<live, doc, cdoc, ci, copy, fresh, failedRun, outcome, cycles,
                   extWrites, edits, extDuring, wrote, cleanStart, settled>>

\* DeleteResource: the object goes, or the Delete returns an error.
Delete ==
    /\ pc = "delete"
    /\ \/ /\ live' = [live EXCEPT ![Cur] = NoObj]
          /\ wrote' = (wrote \/ live[Cur] # NoObj)
          /\ pc' = "delget" /\ idx' = idx + 1
          /\ UNCHANGED <<delErrors, undeleted>>
       \/ DeleteFailed /\ UNCHANGED <<live, wrote>>
    /\ UNCHANGED <<doc, cdoc, ci, copy, fresh, failedRun, outcome, cycles,
                   extWrites, edits, extDuring, cleanStart, settled>>

\* Run returns nil: the component is registered as pending (install) or
\* its status removed (uninstall), and the next sub-reconciler runs.
Finish ==
    /\ pc \in {"create", "delget"} /\ idx = Len(Plan) + 1
    /\ pc' = "run" /\ ci' = ci + 1
    /\ UNCHANGED <<live, doc, cdoc, idx, copy, fresh, failedRun, outcome, cycles,
                   extWrites, edits, extDuring, wrote, cleanStart, settled,
                   delErrors, undeleted>>

\* Every sub-reconciler has run: the cycle failed if one of them did.
EndCycle ==
    /\ pc = "run" /\ ci = Len(Components) + 1
    /\ pc' = "idle"
    /\ outcome' = IF failedRun THEN "failed" ELSE "ok"
    /\ settled' = IF failedRun \/ extDuring \/ undeleted # {} THEN NoDoc ELSE cdoc
    /\ UNCHANGED <<live, doc, cdoc, ci, idx, copy, fresh, failedRun, cycles,
                   extWrites, edits, extDuring, wrote, cleanStart,
                   delErrors, undeleted>>

-----------------------------------------------------------------------------
(* The environment: other writers and the user *)

\* Another writer changes a stored object; the handler's copy of it, if
\* it holds one, is no longer the stored version.
ExternalWrite(r, o) ==
    /\ extWrites + delErrors < MaxExternal /\ r \in Touchable
    /\ live' = [live EXCEPT ![r] = o]
    /\ extWrites' = extWrites + 1
    /\ extDuring' = TRUE /\ settled' = NoDoc
    /\ fresh' = (fresh /\ ~(pc = "update" /\ r = Cur))
    /\ UNCHANGED <<doc, cdoc, pc, ci, idx, copy, failedRun, outcome, cycles,
                   edits, wrote, cleanStart, delErrors, undeleted>>

\* kubectl annotate, or a controller recording its own state on the object.
Annotate(r) == live[r] # NoObj /\ ~live[r].annot /\ ExternalWrite(r, [live[r] EXCEPT !.annot = TRUE])

\* Another writer adds a label of its own.
AddLabel(r) == live[r] # NoObj /\ ~live[r].extLabel /\ ExternalWrite(r, [live[r] EXCEPT !.extLabel = TRUE])

\* kubectl edit of an owned field.
EditSpec(r) == live[r] # NoObj /\ \E s \in Specs \ {live[r].spec} : ExternalWrite(r, [live[r] EXCEPT !.spec = s])

\* kubectl delete.
Remove(r) == live[r] # NoObj /\ ExternalWrite(r, NoObj)

\* The user stores another desired state.
EditDoc ==
    /\ edits < MaxEdits
    /\ \E d \in Docs \ {doc} : doc' = d
    /\ edits' = edits + 1
    /\ UNCHANGED <<live, cdoc, pc, ci, idx, copy, fresh, failedRun, outcome, cycles,
                   extWrites, extDuring, wrote, cleanStart, settled,
                   delErrors, undeleted>>

Next ==
    \/ StartCycle \/ StartRun \/ Create \/ Get \/ BlindUpdate \/ UpdateObject
    \/ ApplyConfigMap \/ AggregatorStarted \/ AggregatorNotStarted
    \/ HostActive \/ HostUnreachable \/ DeleteGet \/ Delete
    \/ Finish \/ EndCycle
    \/ \E r \in Resources : Annotate(r) \/ AddLabel(r) \/ EditSpec(r) \/ Remove(r)
    \/ EditDoc

Spec == Init /\ [][Next]_vars

-----------------------------------------------------------------------------
(* Properties *)

\* The label map is applied on a change for every object but a config map
\* whose Equal ignores labels.
LabelsApplied(r) == Kind[r] # "ConfigMap" \/ r \in LabelsCompared

\* A cycle in which every Run returned nil and no other writer was active
\* leaves every object of a switched-on component with the owned spec and
\* version label of the document it rendered, and no object of a
\* switched-off one but those whose delete step logged an error in that
\* cycle (specification 4.2, steps 1 and 3; uninstall only logs them).  It has to survive
\* drift, deletes, extra labels, a version bump that leaves a config map's
\* data alone, and a switch from one component to the other.
ConvergedAfterSuccess ==
    (pc = "idle" /\ outcome = "ok" /\ ~extDuring) =>
        /\ \A r \in Wanted(cdoc) :
               /\ live[r] # NoObj
               /\ live[r].spec = Render(cdoc, r).spec
               /\ LabelsApplied(r) => live[r].ver = Render(cdoc, r).ver
        /\ \A r \in Unwanted(cdoc) \ Wanted(cdoc) : live[r] = NoObj \/ r \in undeleted

\* A field outside the allow-list that another writer set on a workload or
\* service survives every step that keeps the object, whoever takes it: a
\* handler's Update never writes back a copy fetched before that field was
\* set (specification 4.2 step 3).  Config maps and Graylog's blindly
\* updated objects are left out: their Update sends the manifest and
\* replaces the stored object whole.
ForeignFieldsKept ==
    [][\A r \in Resources :
         (/\ Kind[r] # "ConfigMap" /\ r \notin BlindUpdated
          /\ live[r] # NoObj /\ live[r].annot /\ live'[r] # NoObj)
         => live'[r].annot]_vars

\* A cycle that succeeds right after a clean successful cycle on the same
\* document (no other writer, no logged delete error), with no other
\* writer in between, changes no object and finds
\* every compared config map Equal (specification 8, idempotence).  Graylog's
\* blind Updates are sent on every cycle; they count when they change the
\* stored object.
NoChurnOnRepeat ==
    (pc = "idle" /\ outcome = "ok" /\ cleanStart /\ ~extDuring) => ~wrote

====
