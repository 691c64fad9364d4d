---------------------------- MODULE MCK8sClient ----------------------------
(* The instance of K8sClient for TLC.                                      *)
EXTENDS K8sClient

\* Three timed operations.  With two processes the first and the third go
\* to the one without a warm DeploymentIntfs, the second to the other.
ModelWorkloads == {
  <<"up", "up", "down">>, <<"down", "up", "down">>, <<"down", "delete", "up">>,
  <<"delete", "up", "delete">>, <<"read", "up", "read">>,
  <<"up", "read", "delete">>, <<"read", "read", "down">>}

=============================================================================
