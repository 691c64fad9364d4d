------------------------------ MODULE MCCampaign ------------------------------
(***************************************************************************)
(* The campaigns for model checking: the ones scripts/kubetester.py runs   *)
(* or keeps commented out, replays of two tests that it made, and tests    *)
(* started by hand with and without --config.                              *)
(***************************************************************************)
EXTENDS Campaign

Job(fields) ==
  fields @@ [mode |-> "kubetest", runs |-> 2, variant |-> 0, loss |-> 0,
             failure |-> "none", sources |-> <<>>, cmd |-> DefaultParameters,
             config |-> FALSE]

\* The links of the test bed, as a config.json may list them.
TestBed ==
  [k \in 1..4 |-> [n_from |-> <<<<"cp", 1>>, <<"wn", 1>>, <<"wn", 2>>,
                                <<"mc", 1>>>>[k],
                   n_to |-> <<"s", 1>>, latency |-> k, loss |-> 4,
                   jitter |-> 1]]

Source(params, seed, links) ==
  [config |-> SaveConfig(Parse(RunTestCommand(params), seed)),
   links |-> links]

First(links) == Source(Kubetest(0, 0), 11, links)
Second(links) ==
  Source(KubetestWithFailures(3, 4, "k8s_wn_offline", 600, 0), 12, links)

ByHand(fields) ==
  fields @@ [system_type |-> "kubernetes", topo_type |-> "simple_k8s",
             failure_type |-> "none", result_location |-> "directory"]

KubeJobs ==
  {Job([loss |-> 4]), Job([variant |-> 3])}

FreshJobs ==
  {Job([mode |-> "throughput", variant |-> 1]),
   Job([mode |-> "failures", variant |-> 3, loss |-> 4,
        failure |-> "k8s_leadreg_offline"])}

ReplayJobs ==
  {Job([mode |-> "edge", variant |-> 2, loss |-> 4,
        sources |-> <<First(<<>>), Second(<<>>)>>]),
   Job([mode |-> "pi4", sources |-> <<First(TestBed), Second(TestBed)>>]),
   Job([mode |-> "pi4", sources |-> <<First(TestBed), Second(<<>>)>>])}

HandJobs ==
  {Job([mode |-> "hand", runs |-> 1,
        cmd |-> ByHand([link_latency |-> 40, link_loss |-> 8,
                        link_jitter |-> 1])]),
   Job([mode |-> "hand", runs |-> 1,
        cmd |-> ByHand([topo_type |-> "ha_k8s", number_nodes |-> 3])]),
   Job([mode |-> "hand", runs |-> 1, config |-> TRUE,
        sources |-> <<Second(<<>>)>>,
        cmd |-> ByHand([topo_type |-> "ha_reg_k8s", rate |-> 50,
                        arrival_seed |-> 7])])}

AllJobs ==
  KubeJobs \cup FreshJobs \cup ReplayJobs \cup HandJobs
    \cup {Job([mode |-> "tester"])}

=============================================================================
