---------------------------- MODULE MC_ConfigSync ----------------------------
(* Model values for ConfigSync: the CR may start with any policy, or with *)
(* force-update only (the policy of end-to-end scenario 1).               *)
EXTENDS ConfigSync

MC_AllPolicies == {"only-create", "force-update", "skip"}
MC_ForceUpdate == {"force-update"}
MC_OnlyCreate  == {"only-create"}
=============================================================================
