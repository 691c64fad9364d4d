------------------------------ MODULE MCFaults ------------------------------
(***************************************************************************)
(* The set-ups for model checking the failure generators: the key-value    *)
(* stores without a firewall of their own but for one host, the Kubernetes *)
(* clusters of ha_k8s with three workers and with one, their load balancer *)
(* first, as createCluster lists it, and the cluster of simple_k8s, which  *)
(* has no load balancer and a worker in the second place.                  *)
(***************************************************************************)
EXTENDS Faults

StoreFailures ==
  {"none", "leader", "leader-recovery", "partial-partition",
   "intermittent-partial", "intermittent-full", "kill-n", "stat"}

Store(system, n, failures) ==
  [system |-> system, hosts |-> n, members |-> 1..n, workers |-> {},
   firewalled |-> {2}, kills |-> 2, failures |-> failures]

Kube(members, workers, failures) ==
  [system |-> "kubernetes",
   hosts |-> CHOOSE n \in workers : \A w \in workers : w <= n,
   members |-> members, workers |-> workers,
   firewalled |-> members \cup workers, kills |-> 8, failures |-> failures]

AllClusters ==
  {Store("etcd", 4, StoreFailures),
   Store("zookeeper", 3, {"leader", "leader-recovery", "partial-partition"}),
   Store("ocons", 3, {"leader", "leader-recovery", "partial-partition"}),
   Store("conspire", 3, {"leader-recovery"}),
   Kube(2..4, 5..7, AllFailureTypes \ {"none", "leader", "leader-recovery",
                                       "stat"}),
   Kube(2..4, {5}, {"k8s_wn_offline", "k8s_leadreg_offline"}),
   Kube({1}, {2, 3}, {"k8s_cp_offline", "partial-partition"})}

\* The failure types of which FaultsAreUndone is not true, one way each.
LeaderClusters == {Store("etcd", 3, {"leader"})}
IntermittentClusters == {Store("etcd", 3, {"intermittent-partial"})}
OfflineClusters == {Kube(2..4, {5}, {"k8s_cp_offline", "k8s_wn_offline"})}
LeftUndone == LeaderClusters \cup IntermittentClusters \cup OfflineClusters

=============================================================================
