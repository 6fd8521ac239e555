------------------------- MODULE MC_ReconcileCycle -------------------------
(* Model-checking instance of ReconcileCycle. *)
EXTENDS ReconcileCycle

\* Three specs that switch every workload on and off between them, and move
\* fluent-bit between its plain and its forwarder/aggregator deployment.
MC_DesiredStates ==
    { [graylog |-> TRUE,  fluentd |-> TRUE,  fluentbit |-> "aggregator",
       eventsReader |-> FALSE, runtime |-> <<>>],
      [graylog |-> FALSE, fluentd |-> TRUE,  fluentbit |-> "daemonset",
       eventsReader |-> TRUE, runtime |-> <<>>],
      [graylog |-> TRUE,  fluentd |-> FALSE, fluentbit |-> "absent",
       eventsReader |-> TRUE, runtime |-> <<"docker">>] }

\* Two of them, for the liveness run.
MC_DesiredStatesSmall ==
    { [graylog |-> TRUE,  fluentd |-> TRUE,  fluentbit |-> "aggregator",
       eventsReader |-> FALSE, runtime |-> <<>>],
      [graylog |-> FALSE, fluentd |-> TRUE,  fluentbit |-> "daemonset",
       eventsReader |-> TRUE, runtime |-> <<>>] }

\* Graylog alone, for the run that follows a long streak of failed cycles.
MC_DesiredStatesGraylog ==
    { [graylog |-> TRUE, fluentd |-> FALSE, fluentbit |-> "absent",
       eventsReader |-> FALSE, runtime |-> <<"docker">>] }

\* ContainerRuntimeVersion of a node: cri-o, docker, or not reported yet.
CRIO   == <<"cri-o", "://", "1.29.6">>
DOCKER == <<"docker", "://", "24.0.8">>
NOVER  == <<>>

\* A failed or empty List, one node, nodes that disagree, and nodes that
\* report nothing (alone or next to one that does).
MC_NodeLists == {<<>>, <<CRIO>>, <<CRIO, DOCKER>>, <<NOVER>>, <<NOVER, DOCKER>>}

\* One cri-o node, for the runs about other questions.
MC_NodeListsSmall == {<<CRIO>>}

=============================================================================
