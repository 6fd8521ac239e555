-------------------------- MODULE MC_ResourceApply --------------------------
(***************************************************************************)
(* The five sub-reconcilers that apply Kubernetes objects, in the order    *)
(* the controller runs them: Graylog, fluentd, fluent-bit, the fluent-bit  *)
(* forwarder/aggregator and the events reader.  A document switches        *)
(* Graylog and the events reader on or off and picks one log shipper, so a *)
(* switch makes one Run uninstall while a later one installs.              *)
(***************************************************************************)
EXTENDS ResourceApply, TLC

GlSA   == "graylog-serviceaccount"
GlCM   == "graylog-configmap"
GlSTS  == "graylog-statefulset"
GlSvc  == "graylog-service"
FdCM   == "fluentd-configmap"
FdDS   == "fluentd-daemonset"
FdSvc  == "fluentd-service"
FbCM   == "fluentbit-configmap"
FbDS   == "fluentbit-daemonset"
FbSvc  == "fluentbit-service"
AggCM  == "aggregator-configmap"
AggSTS == "aggregator-statefulset"
AggSvc == "aggregator-service"
FwdCM  == "forwarder-configmap"
FwdDS  == "forwarder-daemonset"
FwdSvc == "forwarder-service"
ErDep  == "events-reader-deployment"
ErSvc  == "events-reader-service"
ErSA   == "events-reader-serviceaccount"

MC_Components == <<"graylog", "fluentd", "fluentbit", "ha", "eventsreader">>

MC_Resources == {GlSA, GlCM, GlSTS, GlSvc, FdCM, FdDS, FdSvc, FbCM, FbDS, FbSvc, AggCM, AggSTS, AggSvc,
                 FwdCM, FwdDS, FwdSvc, ErDep, ErSvc, ErSA}

MC_Kind ==
    [r \in MC_Resources |->
        CASE r \in {GlCM, FdCM, FbCM, AggCM, FwdCM} -> "ConfigMap"
          [] r \in {GlSTS, AggSTS}                 -> "StatefulSet"
          [] r \in {FdDS, FbDS, FwdDS}        -> "DaemonSet"
          [] r = ErDep                        -> "Deployment"
          [] r \in {GlSA, ErSA}               -> "ServiceAccount"
          [] OTHER                            -> "Service"]

\* The fluentd and forwarder/aggregator Equal compare labels; fluentbit's
\* does not.
MC_LabelsCompared == {FdCM, AggCM, FwdCM}

\* The events reader's ServiceAccount comes with the installer.
MC_Provisioned == {ErSA}

\* Graylog's handlers that update without a Get, and the one that waits for
\* its host after a Create.
MC_BlindUpdated == {GlSA, GlCM, GlSvc}
MC_HostWaited == {GlSvc}

\* GraylogReconciler.Run and uninstall; the PVCs and upgrade jobs the
\* uninstall also deletes are not objects of this model.
GraylogInstall == <<GlSA, GlCM, GlSTS, GlSvc>>
GraylogUninstall == <<GlSTS, GlSvc, GlCM, GlSA>>

\* FluentdReconciler.Run and uninstall.
FluentdInstall == <<FdCM, FdDS, FdSvc>>
FluentdUninstall == <<FdDS, FdCM, FdSvc>>

\* FluentbitReconciler.Run and uninstall.
FluentbitInstall == <<FbCM, FbDS, FbSvc>>
FluentbitUninstall == <<FbDS, FbCM, FbSvc>>

\* HAFluentReconciler.Run and uninstall.
HAInstall == <<AggCM, AggSTS, AggSvc, FwdCM, FwdDS, FwdSvc>>
HAUninstall == <<FwdDS, FwdCM, FwdSvc, AggSTS, AggCM, AggSvc>>

\* EventsReaderReconciler.Run and uninstall: uninstall also deletes the
\* ServiceAccount, which Run never creates.
EventsReaderInstall == <<ErDep, ErSvc>>
EventsReaderUninstall == <<ErDep, ErSvc, ErSA>>

MC_InstallPlan ==
    ("graylog" :> GraylogInstall) @@ ("fluentd" :> FluentdInstall) @@ ("fluentbit" :> FluentbitInstall)
      @@ ("ha" :> HAInstall) @@ ("eventsreader" :> EventsReaderInstall)
MC_UninstallPlan ==
    ("graylog" :> GraylogUninstall) @@ ("fluentd" :> FluentdUninstall) @@ ("fluentbit" :> FluentbitUninstall)
      @@ ("ha" :> HAUninstall) @@ ("eventsreader" :> EventsReaderUninstall)

\* The install conditions of the four Runs: fluent-bit as a plain daemonset
\* when its aggregator is off, as forwarder/aggregator when it is on.
MC_Installs(d, c) ==
    CASE c = "graylog"      -> d.graylog
      [] c = "eventsreader" -> d.reader
      [] OTHER              -> d.shipper = c

\* The aggregator's Graylog output needs a host and a port.
MC_ConfigError(d, c) == c = "ha" /\ d.shipper = "ha" /\ ~d.valid

\* fluentd, plain fluent-bit at image tags v1 and v2, the aggregator at v1
\* and v2, and the aggregator with a Graylog output that has no host; the
\* events reader and Graylog on in some, off in others.
MC_Docs ==
    {[graylog |-> TRUE,  shipper |-> "fluentd",   reader |-> TRUE,  valid |-> TRUE,  tag |-> "v1"],
     [graylog |-> FALSE, shipper |-> "fluentbit", reader |-> FALSE, valid |-> TRUE,  tag |-> "v1"],
     [graylog |-> TRUE,  shipper |-> "fluentbit", reader |-> TRUE,  valid |-> TRUE,  tag |-> "v2"],
     [graylog |-> FALSE, shipper |-> "ha",        reader |-> TRUE,  valid |-> TRUE,  tag |-> "v1"],
     [graylog |-> TRUE,  shipper |-> "ha",        reader |-> FALSE, valid |-> TRUE,  tag |-> "v2"],
     [graylog |-> TRUE,  shipper |-> "ha",        reader |-> TRUE,  valid |-> FALSE, tag |-> "v1"]}

MC_Specs == {"s1", "s2", "sx"}
MC_Vers == {"v1", "v2"}

\* The image tag goes into every object's version label and into the
\* workloads' containers; the config data and the service ports do not
\* depend on it.
MC_Render(d, r) ==
    [spec |-> IF MC_Kind[r] \in {"DaemonSet", "StatefulSet", "Deployment"} /\ d.tag = "v2"
              THEN "s2" ELSE "s1",
     ver  |-> d.tag]

MC_Touchable == {AggCM, AggSTS, GlSvc, FbDS}

=============================================================================
