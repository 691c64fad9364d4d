------------------------------- MODULE Options -------------------------------
(***************************************************************************)
(* The options of a test: what `python -m reckon' makes of its command     *)
(* line and of a --config file, what it saves in config_full.json, and the *)
(* command lines that scripts/kubetester.py and scripts/tester.py put      *)
(* together.                                                               *)
(*                                                                         *)
(* Options are records; a command line is a record of the options it       *)
(* gives.  The five operation ratios are one option here, and the paths of *)
(* logs and data are left out.  Times are in ms, but duration and seeds in *)
(* seconds, and delays and losses in the units of module Topology.         *)
(***************************************************************************)
EXTENDS Topology, Functions, TLC

\* What argparse fills in, one group per register_*_args; the seeds default
\* to the time of the call.
SystemDefaults ==
  [client |-> "None", new_client_per_request |-> FALSE, light_reads |-> FALSE,
   failure_timeout |-> 1000, delay_interval |-> 10, sys_variant |-> 0]

TopologyDefaults ==
  [number_nodes |-> 3, number_clients |-> 1, link_latency |-> 400,
   link_loss |-> 0, link_jitter |-> 0, net_spec |-> <<>>]

WorkloadDefaults(now) ==
  [arrival_process |-> "uniform", key_distribution |-> "uniform",
   rate |-> 100, ratios |-> "1/0/.75/.25/0", max_key |-> 1,
   payload_size |-> 10, key_gen_seed |-> now, arrival_seed |-> now]

FailureDefaults == [kill_n |-> 0, mtbf |-> 1]

Defaults(now) ==
  SystemDefaults @@ TopologyDefaults @@ WorkloadDefaults(now)
    @@ FailureDefaults @@ [duration |-> 60, result_location |-> "/results/"]

Positionals == {"system_type", "topo_type", "failure_type"}

OptionNames ==
  DOMAIN SystemDefaults \cup DOMAIN TopologyDefaults
    \cup DOMAIN WorkloadDefaults(0) \cup DOMAIN FailureDefaults
    \cup {"duration", "result_location"}

\* The fields of ReckonConfig: light_reads and sys_variant are not among them.
ConfigNames ==
  (OptionNames \ {"light_reads", "sys_variant"}) \cup Positionals

Parse(command, now) ==
  [name \in DOMAIN command \cup OptionNames |->
     IF name \in DOMAIN command THEN command[name] ELSE Defaults(now)[name]]

\* An option that has its default value, given or not, takes the value of
\* the file; positionals have no default.
LoadConfig(args, config, now) ==
  [name \in DOMAIN args |->
     IF /\ name \in ConfigNames \ Positionals
        /\ args[name] = Defaults(now)[name]
     THEN config[name]
     ELSE args[name]]

\* Config(reckonConfig=vars(args)) keeps the fields it knows.
SaveConfig(args) == Restrict(args, ConfigNames)

\* get_key_provider reads args.system, which does not exist, for systems
\* other than Kubernetes, and refuses tptest for them.
ProvidersRaise(args) == args.system_type # "kubernetes"

-----------------------------------------------------------------------------
(***************************************************************************)
(* kubetester.py.                                                          *)
(***************************************************************************)
\* The parameters given, and for others their values in a second record.
Over(given, others) ==
  [name \in DOMAIN given \cup DOMAIN others |->
     IF name \in DOMAIN given THEN given[name] ELSE others[name]]

DefaultParameters ==
  [system_type |-> "kubernetes", client |-> "go", topo_type |-> "simple_k8s",
   failure_type |-> "none", number_nodes |-> 3, number_clients |-> 1,
   link_latency |-> 400, link_loss |-> 0, link_jitter |-> 0,
   new_client_per_request |-> FALSE, mtbf |-> 1, kill_n |-> 0,
   ratios |-> "0/1/0/0/0", rate |-> 100, duration |-> 10,
   arrival_process |-> "uniform", key_distribution |-> "uniform",
   failure_timeout |-> 1000, delay_interval |-> 100, net_spec |-> <<>>,
   sys_variant |-> 0, light_reads |-> FALSE]

\* run_test gives every parameter on the command line, and a directory.
RunTestCommand(params) ==
  Over([result_location |-> "directory"], Over(params, DefaultParameters))

Kubetest(variant, loss) ==
  Over([rate |-> 20, failure_timeout |-> 10, delay_interval |-> 100,
        failure_type |-> "none", duration |-> 100,
        arrival_process |-> "poisson"],
       HaTopo(variant, loss, 0))

KubetestThroughput(variant, rate) ==
  Over([rate |-> rate, failure_timeout |-> 10, delay_interval |-> 100,
        failure_type |-> "none", duration |-> 60,
        key_distribution |-> "tptest", new_client_per_request |-> TRUE],
       HaTopo(variant, 0, 0))

KubetestWithFailures(variant, loss, failure, throughput, sys_variant) ==
  Over([rate |-> throughput, failure_timeout |-> 10, delay_interval |-> 100,
        failure_type |-> failure, duration |-> 60,
        key_distribution |-> "tptest", new_client_per_request |-> TRUE,
        mtbf |-> 5, light_reads |-> TRUE],
       HaTopo(variant, loss, sys_variant))

\* What both kinds of replay take from the config_full.json of a test.
WorkloadNames ==
  {"new_client_per_request", "ratios", "rate", "duration", "arrival_process",
   "failure_timeout", "delay_interval", "key_gen_seed", "arrival_seed",
   "payload_size", "key_distribution", "max_key"}

\* run_edge_test_from_config also keeps these; the network is ha_topo's.
EdgeNames ==
  {"system_type", "failure_type", "number_nodes", "number_clients",
   "link_latency", "link_loss", "link_jitter"}

\* A command line with the options of a config under some names, and others
\* that do not depend on it.
Replay(config, names, others) ==
  [name \in names \cup DOMAIN others |->
     IF name \in names THEN config[name] ELSE others[name]]

OnHaTopo(variant, loss) ==
  [topo_type |-> HaTopo(variant, loss, 0).topo_type, client |-> "go",
   net_spec |-> HaTopo(variant, loss, 0).net_spec,
   result_location |-> "directory"]

EdgeReplay(config, variant, loss) ==
  Replay(config, WorkloadNames \cup EdgeNames, OnHaTopo(variant, loss))

\* run_pi4_test_from_config: three nodes, with the links of the test bed.
Pi4Replay(config, links) ==
  Replay(config, WorkloadNames,
    [system_type |-> "kubernetes", topo_type |-> "simple_k8s",
     failure_type |-> "none", number_nodes |-> 3, number_clients |-> 1,
     client |-> "go", link_latency |-> 40, link_loss |-> 0,
     link_jitter |-> 0, net_spec |-> links, result_location |-> "directory"])

-----------------------------------------------------------------------------
(***************************************************************************)
(* tester.py.  Its result location is a file in the test's directory.      *)
(***************************************************************************)
TesterCommand(params) ==
  Over(params,
    [system_type |-> "etcd", client |-> "go", topo_type |-> "simple",
     failure_type |-> "none", number_nodes |-> 3, number_clients |-> 1,
     link_latency |-> 400, link_loss |-> 0, link_jitter |-> 0,
     new_client_per_request |-> FALSE, mtbf |-> 1, kill_n |-> 0,
     ratios |-> "1/0/.75/.25/0", rate |-> 1000, duration |-> 60,
     arrival_process |-> "uniform", failure_timeout |-> 1000,
     delay_interval |-> 100, result_location |-> "res.json"])

\* conspire_paper, each of its repetitions once: Raft is left out at the
\* timeouts used, and with it every test of Raft.
ConspirePaper ==
  {p \in {[system_type |-> system, topo_type |-> "wan",
           link_latency |-> 1000, client |-> "ocaml", rate |-> 10000,
           number_nodes |-> IF system = "ocons-raft" THEN 3 ELSE 4,
           failure_timeout |-> timeout, delay_interval |-> 100,
           failure_type |-> test[1], duration |-> test[2],
           link_jitter |-> net[1], link_loss |-> net[2]] :
             system \in {"ocons-raft", "ocons-conspire-leader"},
             timeout \in {10, 30},
             test \in {<<"none", 60>>, <<"leader", 10>>},
             net \in {<<0, 0>>, <<1, 1>>}} :
     ~(p.system_type = "ocons-raft" /\ p.failure_timeout < 60)}

=============================================================================
