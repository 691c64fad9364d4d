# A TLA+ model of reckon

reckon benchmarks replicated systems (etcd, ZooKeeper, ocons, Kubernetes) under
faults: a Python load generator starts client processes, loads them with timed
operations, injects faults while they run, and collects what they report. This
directory holds TLA+ modules of the parts whose correctness decides whether the
numbers of a test mean anything, the TLC configurations that check them, and
TLAPS proofs of the safety properties for every value of the constants.

Source paths below are relative to `src/reckon/`, those of the scripts to `src/`.

## The system and its parts

| part | state | operations | talks to |
|---|---|---|---|
| load generator (`client_runner.py`) | phase of the main thread, execute thread, selector, `remaining_clients`, results | preload, ready, start, apply faults, collate, join | clients over stdin/stdout, faults by calls |
| client protocol (`reckon_types.py`) | two pipes and a read buffer per client | send, recv, select | generator and clients |
| Go client (`goclient`) | operations, worker goroutines, three channels, a wait group | load, dispatch, perform, collate, cut off | generator; system under test |
| Java client (`javaclient`) | executor tasks, concurrent map, `complete.t`, wait group | the same protocol with callbacks | ZooKeeper |
| OCaml client (`ocaml_client`, `systems/ocons/clients`) | hash tables of requests and results, promises | the same protocol over an unreliable connection | ocons |
| Kubernetes client (`systems/kubernetes/clients/simple`) | two interface maps; the API server's objects | Create, Read, Update, Delete | API server |
| failure generators (`failures`) | firewall chains, stopped hosts, fault threads | a schedule of faults per failure type | execute thread, hosts |
| workloads (`workload`) | a table and a position in it | draw the next operation | preload |
| systems under test (`systems/*/__init__.py`) | server processes, their leader, their logs | start, stop, restart, `get_leader` | driver, faults |
| nodes and network (`reckon_types.py`, `systems/kubernetes`) | containers, cluster list | start, pause, restart, remove | driver, faults |
| topologies (`topologies`) | hosts, switches, links with their attributes | set up | driver |
| driver (`__main__.py`, `config_loader.py`) | the options, the test process | parse, save the options, set up, run with a timeout, tear down | everything |
| campaign scripts (`scripts/kubetester.py`, `scripts/tester.py`) | a folder of test directories, a list of tests to run | scan, run, resume, replay | driver, by command lines and files |

What is hard here is concurrency between goroutines, threads and processes
(dispatch, cut-off, collation, the start barrier), operations that never
return, clients and fault threads that die halfway, leaders that change between
being asked for and being used, lost and repeated answers, shared state without
locks, and campaigns of hundreds of tests that are interrupted and resumed from
whatever files are there. What makes each part correct:

* the generator starts the test only when every client is ready, collects
  exactly what the clients reported, and always ends;
* a client dispatches on schedule whatever its operations do (open loop),
  reports no operation twice, loses nothing before its cut-off, and finishes;
* a fault does what its name says, to the hosts it names, and undoes it;
* an operation of the Kubernetes client takes effect once if it reports
  success, and at most once if it does not;
* a workload sends what its table says, for as long as the test lasts;
* a test runs in the network its options describe, and a replay with the options
  of the test it replays;
* a campaign runs every test that was asked for, once, and counts none that did not
  leave its results.

## Modules

`ClientProtocol` is the abstract specification of any client: what it may write
to its stdout and when. `GoClient` and `OcamlClient` implement it
(`ImplementsProtocol`, an `INSTANCE` with a refinement mapping each); `JavaClient`
keeps its safety (`KeepsProtocol`), and its liveness with one exception
(`FinishesUnlessHeld`); and
`LoadGenerator` assumes clients that follow the same conversation, liveness
included, except that they may die at any moment. `ScaleStore` is the abstract specification of the
operations on a Kubernetes cluster, and `K8sClient` implements it.

**GoClient** (`goclient/src/rc_go/client.go`, `utils/utils.go`). One action per
step of each goroutine of `Run_Client`: main (`RecvPrereq` ... `SendFinished`),
workers (named after the operation that made main spawn them), the messenger and
`result_loop`. `op_ch` and `final_res_ch` are unbuffered, so a send and its
receive are one step; `res_ch` has capacity `ResCap` (50000 in the code). Time is
abstracted: an operation may hang, the 30 s timer may fire at any moment of the
final wait. `PerformFatal` is an operation that ends the process.

**LoadGenerator** (`client_runner.py`). The main thread walks preload, ready,
collate and join; the execute thread sends start and applies faults. Each pipe
keeps its messages with counters, so that what is in the kernel (visible to
`select`) and in Python's read buffer (invisible) are distinguished.

**JavaClient** (`Library.java`, `WaitGroup.java`, `IO.java`). Main thread,
executor tasks and completion callbacks. Spurious wake-ups, the read of
`complete.t` that a callback acts on later, and the weakly consistent iteration
are nondeterministic choices. Packets above 4096 bytes are `WriteFails`: the exception
ends the main thread (`main = "raised"`) and not the process, whose pool threads are no
daemons. It ends with the last busy one (`ProcessEnds`), or never.

**OcamlClient** (`reckon_shim.ml`, `io.ml`, `systems/ocons/clients/client.ml`).
The shim's fiber and the callback that the connection calls; requests get lost,
answers come late, repeatedly, and while the results are being written. Request
ids are `x * 64 + cid`, as in the code.

**Servers** (`systems/*/__init__.py`). What `start_nodes`, the stoppers and restarters
do to the server processes, and `get_leader` of every system, one host asked per step:
etcd asks until a host answers, ZooKeeper asks everyone and takes the first that
claims to lead, ocons searches everyone's log for the highest term (a restart empties
a log), conspire does not ask, Kubernetes asks the second host. Elections are
external: a member with a majority up may win at any moment, and a leader that was
replaced may go on claiming to lead for a while.

**Faults** (`failures/*.py`, `execute`), which extends Servers. Hosts are positions in
the cluster list, firewall chains are sequences. A fault asks for the leader, becomes
a list of commands, and runs them one at a time while elections happen; `ThreadStep`
and its neighbours are the loop of the intermittent generators. `MCFaults` lists the
clusters that are explored.

**K8sClient** (`systems/kubernetes/clients/simple/client.go`, `crud.go`,
`workload/__init__.py`). Operations of one or two processes; an operation looks
its interface up in a map without a lock (`Lookup`, `InsertEnd`, `MapRace`), calls
the API server, and gets an answer or an error. Update is `Get`, then `Put`, again
after a conflict. The API server, its controllers and `RetryOnConflict` are
external and modelled from their use.

**Workload** (`timed_crud.py`, `tptest_crud.py`, `preload`). The two tables, the
walk through them with the loop, and the end of preload.

**KubeCluster** (`__main__.py`, `KubeNode` and `KuberNet` of `reckon_types.py`,
`systems/kubernetes/__init__.py`, the Kubernetes topologies). Two processes share
five containers: the driver, which creates them, forks the test process, joins it
with a timeout and tears everything down in an exception handler and a finally
block, and the test process, whose faults pause and restart nodes command by
command. Python state is per process, because of the fork: `hosts`, `killers` and
`shells` are the driver's, `running`, `replaced` and the calls the test process's.
`attached` are the nodes that have their link, `addressed` those whose end of it has its
address, which `Relink` does not bring back.
Initially any container name may be taken by a leftover of an earlier test.

**Topology** (`topologies/*.py`, `AbstractTopologyGenerator`, `createCluster`, `ha_topo`
of the script). Operators only: which hosts, switches and links a set of options
gives, and the attributes of each link, from `--net-spec` or from the shares that the
constructors compute. Loss is kept as the exponent of a survival probability and
jitter as a variance, so that the code's square roots become halves and the links of
a path add up.

**Options** (`__main__.py:40-87`, `config_loader.py`, `register_*_args`, the command
lines of both scripts). Operators only, on records of options: parsing with defaults,
`--config`, what `config_full.json` keeps, and the command lines of new tests and of
replays.

**Campaign** (`scripts/kubetester.py`, `scripts/tester.py`, the end of `run_test` in
`client_runner.py`). The script scans its folder, counts, removes what is broken file
by file, and runs the rest one after the other; the driver and the test process write
their files in the order of the code, and may die between any two. A file is kept as
present, and for the responses as complete or not, because the scans look at nothing
else. What the scan of the replays finds in `/reckon/partial` is what earlier starts
have completed. `MCCampaign` lists the campaigns that are explored: the ones the
scripts run or keep commented out, and tests started by hand.

Definitions named `X_Something` are mutated forms of `X`: plausible bugs that the
listed property has to notice. Nothing else uses them.

## Runs

Each row is one TLC configuration; states are distinct states.

| run | instance | shows |
|---|---|---|
| `go` | 3 operations, `ResCap` 1, 74 143 states | `OpenLoop`, `ExitQuiescent`, `AccountedFor`, `Finishes`, `ImplementsProtocol` |
| `gen` | 2 clients, 2 prerequisites, up to 2 operations, 2 faults, pipes and buffers of 2 messages, 209 996 states | `StartBarrier`, `ResultsExact`, `RaisesOnlyAfterDeath`, `Terminates` |
| `java` | 3 operations, 118 372 states | `InTimeReported`, `BecomesReady`, `FinishesUnlessHeld`, `KeepsProtocol` |
| `ocaml` | 4 operations, 20 538 states | `ReportsWhatItHeard`, `PrereqsEnd`, `ImplementsProtocol` |
| `faults` | etcd with 4 servers, ZooKeeper, ocons and conspire with 3, a load balancer with 3 control planes and 3 workers or 1, one control plane with 2 workers; 11 failure types, hosts with a firewall rule of their own, `--kill-n` above the number of hosts; 114 909 states | `LeaderKeepsMajority`, `DownAsAsked`, `ChainsRestored`, `RemovedInTime`, `RegionIsolated`, `TargetHasLed`, `SteadyLeaderFound`, `ExecuteEnds`, `NodeComesBack` |
| `k8s` | 1 or 2 processes, 2 prerequisites, 3 timed operations in 7 mixes, 2 attempts, 1 status write, 858 280 states | `ImplementsStore`, `ConflictMeansContention`, `NamespaceFirst`, `WarmMapIsSafe` |
| `workload` | both generators, 3 rates, 4 durations, 13 964 states | `ScalingIsBalanced`, `OnlyReadsAfterDelete`, `DeletesInTime` |
| `kube` | load balancer, 3 control planes, 1 worker, 4 failure types, all combinations of leftovers, 7 453 states | `OnlyPausedLeft`, `LinkAndFilesBack`, `TeardownEnds` |
| `campaign` | 11 campaigns, most of two tests, 2 faults, an entry that is no test in the folder, 54 854 states | `CountedHasResponses`, `NothingRunTwice`, `WiredAsAsked`, `Converges` |

`go` also checks a type invariant whose bounds matter (a wait group that never goes
negative, a channel within its capacity). `AccountedFor` says where every operation is:
in one place on its way from the queue to a reported result, and not lost before the
cut-off. `TargetHasLed` and `SteadyLeaderFound` are the two sides of `get_leader`: what
it names did lead during the call, and a leader that stays is found.
`CountedHasResponses` is about a test directory that any mix of crashes, terminated
tests and interrupted removals has left behind. `OnlyPausedLeft`, `LinkAndFilesBack`
and `WiredAsAsked` say how far the teardown, a restart and the wiring get, and
`FinishesUnlessHeld` when a Java client fails to end; where they stop short of what one
would ask is listed under "Seen while modelling".

Three runs end in a counterexample: what the repository says there is not what the
code does.

| run | property | what happens |
|---|---|---|
| `go_loss` | `AllResultsReported` | every worker is done in time, and the messenger's `select` takes `close_this` while results are still in `res_ch`; they are dropped although the log says "Got all results" |
| `faults_undone` | `FaultsAreUndone` | what a fault did is left behind in three ways: `leader` has nothing that restarts the leader, although the README of the repository says that it recovers at 2/3 T; the thread of `intermittent-partial` dies of a misspelt attribute after its first cut, which stays; the remove fault of the offline types names `remove_failure` without calling it, and their threads go on cutting |
| `workload_padding` | `PaddingSuffices` | the table of `TimedCRUD` "to fill the test time (whatever it is)" ends after 2656 operations; at the default 100 requests/s for 60 s preload dies of an IndexError |

TLC stops at the first counterexample it meets. For `faults_undone` `MCFaults` therefore
keeps the three sets `LeaderClusters`, `IntermittentClusters` and `OfflineClusters`, each of
which gives its own when it takes the place of `LeftUndone` in the configuration. With
`AllClusters`, less these four failure types, the property holds.

**Bounds.** Three operations are what the interesting cases of a client take: one
that hangs, one whose result is in a channel, one being dispatched; capacity one
makes channels full with two. Two clients are enough for the barrier and for one
dead client beside a live one; pipes and buffers of two messages make a message
both hidden from `select` and behind another. Four servers are the smallest cluster
whose majority is more than half by one; three are enough for a leader, its
successor and a host that is neither; three control planes and three workers give
every rank a region. Three elections in the logs of ocons (`MaxTerm`) make newer and
older terms. Two tests and two faults give a campaign one test that is complete, one
that is broken, and an interrupted removal of it. Two attempts of Update with
two competitors and a status write reach the attempt that gives up. `MaxOps`,
`NumTimed`, `MaxStatus`, `MaxTerm` and `MaxFaults` are the only bounds that cut behaviours off;
the others are parameters of the program.

**Fairness.** Goroutines, Python threads, Java's main thread and the OCaml fiber
are scheduled (weak fairness on each). `GoClient` assumes nothing of operations:
they may hang, and the client still finishes because the timer does.
`LoadGenerator` assumes of a client what `GoClient`'s `Finishes` shows, plus that
prerequisites return; `Terminates` is therefore not about a Java client that has raised
and is kept alive by an operation (`Held`). `JavaClient` assumes that prerequisites
return or raise (the ZooKeeper session ends), nothing of operations, and that a process
without busy threads ends. `OcamlClient` assumes that a request sent again and again
arrives (strong fairness) and that a prerequisite that arrived is answered.
`Faults` assumes that sleeps end. `Workload` is one loop that goes on. `KubeCluster`
assumes that the driver goes on and its join times out, and nothing of the test
process. `Campaign` assumes that the script goes on and that its user starts it again
after an interruption; there are finitely many faults (`MaxFaults`), without which no
campaign would end.
`CHECK_DEADLOCK FALSE` stands where the program ends: finished clients, all
operations done, every server killed.

## Proofs

Eight modules hold proofs, one per component, each extending the component's module. They
are for every value of the constants that the named assumptions allow: any number of
clients, operations, tests, faults, any cluster and channel capacity, and without the bounds
of the runs. Every module states its inductive invariant at the top, proves one lemma per
part and kind of step, and derives its theorems from `Invariant` (`Spec => []Inv`;
`Workload` is proved about beside the client it feeds; in `GoClientProofs` and
`LoadGeneratorProofs` the theorems come from the parts). The invariants of the larger
modules were first checked by TLC on the runs' instances.

**GoClientProofs** (`OperationAssumption`: finitely many operations; `ResCapAssumption`,
`FlagAssumption`). `TypeCorrect`: `wg_perform` never goes negative, `res_ch` never
overflows. `DispatchOpenLoop`, `ExitIsQuiescent`, `NoResultLostOrRepeated` (`AccountedFor`),
`ProtocolSafety`. None is inductive. `wg_perform` is decremented when a worker leaves, so
`TypeOK` needs that the count is the number of live workers (`CountExact`), which needs that
the worker a dispatch spawns did not exist (`OpsFresh`). `OpenLoop` is lost if a worker
leaves while main hands an operation over; workers leave only when `op_ch` is closed, which
`OpChOpen` excludes there. `ExitQuiescent` follows from `Quiet`. `AccountedFor` needs where
every operation is (`PlaceInv`): in at most one place and once there, and in some place
until `stopCh` is closed; nobody overwrites an operation in hand (`EmptyHanded`), and
`ShutdownOrder` says in which order the goroutines leave.

**LoadGeneratorProofs** (`CountsAssumption`, `CapsAssumption`). `ReadyIsABarrier`
(`StartBarrier`), `RaisesMeanDeath`, `ResultsAreExact` for any number of clients.
`BarrierInv` follows the conversation: a client says ready after it heard finalise, which
was written after every prerequisite, and ready() counts the clients a message was taken
from. `CollateInv` relates the selector to the pipes: a client is registered if and only if
its finished was not taken, and finished is its last word, so that neither the count of
remaining clients nor an end of file can go wrong unless a client dies.

`ClientsConverse` says that what passes between the generator and each client `c` is a
behaviour of `ClientProtocol` (`Talk(c)`, without its fairness), the conversation that
`ProtocolSafety` proves of the Go, Java and OCaml clients. So the generator does nothing to
a client that those, as they are modelled, would not expect. It does not say the converse,
that the generator's clients can do whatever `ClientProtocol` allows; that is to be seen by
comparing the actions. The part of it that is the generator's is that no operation is loaded twice (`DealtOnce`: operations are written in the
order of their numbers, each to one client and once). With `AnsweredOnce` (what a client has
to answer it has heard, and what it answered is not to be answered any more) and the
positions that `ResultsOf` gives of the results collated, `NoOperationCountsTwice` follows:
every result in the file answers an operation that was written to the client it is
attributed to, and no operation has two results, over all clients.

**K8sClientProofs** (`CountAssumption`, `WorkloadAssumption`). `NamespaceComesFirst`,
`RacesAreConfined` (`WarmMapIsSafe`), `ConflictsAreEarned` and `StoreRefinement`, which is
`Spec => ImplementsStore` in full: every step of a call is one atomic effect of `ScaleStore`
or a stutter. It needs `CopyOf`: a copy that Update is about to put back, if it is of the
present version, shows the present replicas unless the deployment was removed; versions only
grow (`VersionsGrow`). `Writes` counts a write of someone else for each conflict. `MapInv`
says that a prerequisite past its look-up has warmed its process's map.

`ReplicasAreSum` is what the atomic effects add up to: while a deployment exists, its
replicas are at least those it was created with plus `Up` for every scale-up that took
effect and less `Down` for every scale-down that may have, and at most the same with the two
exchanged. The bounds differ by the calls that got no answer, the only ones of which nothing
is known: a refusal (not found, a conflict) has changed nothing. The upper bound needs
`NeverAtOne`, that all scale-downs together would not take a deployment to one replica,
where an Update stops. The invariant holds where a deployment is created because every
timed operation waits for the prerequisites (`InOrder`).

The last section of this module is about the operations that reach the client. It proves
`BalanceKept` (`ScalingIsBalanced`) and `DeleteIsLast` (`OnlyReadsAfterDelete`, an action
property) of `Workload`, for both generators, every rate and duration
(`GeneratorAssumption`, `NumberAssumption`). `Ahead` is the balance with which the entry at
each place begins, inside the loop, in the rest of the loop that is walked once more when it
was left, and behind it; `Entries` says what the tables hold. `PaddingIsExact` puts a number
on what the run `workload_padding` shows: preload raises if and only if the test has
`TableSize` arrivals or more, 2656 for TimedCRUD at whatever rate, 139 times the rate and 6
for TPTestCRUD, that is, tests of more than 139 s. `SentInv` sums up the entries, the rounds
of the loop and the rest of the loop after its last round.

**JavaClientProofs** (`OperationAssumption`). `InTimeIsReported`, `ProtocolSafety`
(`KeepsProtocol`). `InTime`
follows a response recorded before the cut-off from the map through the snapshot that the
iterator must show to stdout; `WrittenOnce` and `Placed` say that no response is repeated or
invented.

**OcamlClientProofs** (`OperationAssumption`, `CidAssumption`). `ReportsAreExact`
(`ReportsWhatItHeard`), `ProtocolSafety`. `OwnIds` and `Apart`: an id belongs to one
prerequisite or one operation; `Traced`: what is under way, however late and often it
arrives, is what was submitted under its id.

`ProtocolSafety` of the three clients is the safety part of `ImplementsProtocol`, of the
Java client `KeepsProtocol` itself: the initial state maps to an initial state of
`ClientProtocol` and every step to a step or a stutter. A Java client whose main thread has
raised is still `running` there, and `failed` once its process has ended. The liveness part
stays with TLC.

**KubeClusterProofs** (`ShapeAssumption`: any numbers of control planes and workers).
`TeardownLeavesPaused` (`OnlyPausedLeft`): whatever raised and wherever the test process was
terminated, the teardown removes every container or hangs on a paused one and leaves that
one and those after it. `RunningHasLinkAndFiles` (`LinkAndFilesBack`): without the address,
which a restart does not bring back. `SetupInv` says what the loop of setup() has done, `ServiceInv` what each command of a pause or restart
leaves of the node it is at (`Current`) while all others are `Settled`, and `TeardownInv`
that handler and finally block meet every container.

**CampaignProofs** (`CampaignAssumption`; `SeedAssumption`: no two tests to replay began in
the same second, which is what they were seeded with; `HandAssumption`: argparse's
positional arguments, and a file for `--config`). `CountedIsComplete`, `RunsAreNotRepeated`,
`NetworkIsWired`, `ScriptedNetworks`, `NothingIsThrownAway`, `FaultsCostOneTest`. `FileInv` relates the files of a directory to the program point of the
test that fills it and to one another, whatever has interrupted it; `ScanInv` says that a
scan has looked at, or will look at, every directory with a `config_full.json`; `CountInv`
that these and the tests to be run are no more than were asked for; `SeedInv` that the seed
tells replays apart; `OriginInv` where all options come from.

`WiredAsAsked` is proved in two steps. `NetworkIsWired`: for any number of nodes and
clients, any topology and options from anywhere, if every entry of `--net-spec` names a link
and no two the same one (`Fits`), the network is wired as the options say. Without `Fits` it
is no theorem: an entry of a list written by hand may name a link that does not exist, and
the code ignores it. `Fits` also asks, away from the regional topology, for numbers in
latency, loss and jitter and for an even latency: links get half of it, and half of an odd
number is no number of the model's unit. `ScriptedNetworks`: the entries that `ha_topo` puts
on the command line fit the links of `ha_k8s` and `ha_reg_k8s`, so the property holds of
every campaign `kubetester.py` starts and of edge replays of tests on six nodes, which is
what `ha_topo` makes its table for (`Scripted`), and of no other replay. It is about the
entries as they arrive: `ha_topo` puts its table together row by row, and the row for `s3`
and `s1` is replaced by a later one before there is a command line; and neither theorem says
anything of the loss of a path. `RowByRow` says that
the recursive function `AsDict` does the same as the replacements, from the least number of
rows for which it would not (`LeastNat`) and not by an induction theorem, and `StarTable`
and `RegionTable` say which rows are left. `ScriptInv` follows the command lines from the
script to the test.

The last two theorems are the safety half of `Converges`, for the scripts that resume
(`Resumes`). `NothingIsThrownAway`: a completed test on which neither the running test nor a
removal is at work (`Finished`) goes on counting, through every scan, crash and restart.
`FaultsCostOneTest`: a script that scans its folder with `f` faults to come and gets to its
end has left at most as many tests undone as there were faults since, whatever earlier
starts had left; so a start without a fault completes the campaign. `PassInv` says that what
a scan has counted is finished; `Owed(f)` that every test is finished, to come, in hand
(`InHand`), or was the cost of a fault. `Lost` are the replays of which none of this holds.

**FaultsProofs** (`ClusterAssumption` of `Servers`, `FailureAssumption`). All seven safety
properties of Faults, for every cluster and failure type: `Restored` (`ChainsRestored`),
`Removed` (`RemovedInTime`), `MajorityKept` (`LeaderKeepsMajority`), `Isolated`
(`RegionIsolated`), `DownRight` (`DownAsAsked`), `TargetLed` (`TargetHasLed`), `SteadyFound`
(`SteadyLeaderFound`). `MajorityKept` excludes clusters of exactly two members, where one
cut leaves the leader with half: there the property is false, and no topology of the scripts
has two. The assumption says, besides the numbers, that every host of a system other than
Kubernetes is a member. The parts of the invariant:

* `FlowInv`, `TimeInv`: which of the two threads may have commands, and when `partitioned`
  is empty;
* `ListInv`: the commands left are all drops, or the rest of a healing, `Healing`, which is
  aligned with `partitioned`;
* `ChainInv`: removal by number deletes the right rules because a chain is as many rules as
  `partitioned` has entries left for the host (`Pending`), on top of its own; this is what
  `ChainsRestored` rests on, and it holds in the middle of a partition and of a healing;
* `PairInv`: cuts and commands of the partial partitions are about one pair of hosts;
* `RegionInv`: what is cut and what is still to be cut is the border of one region;
* `DownInv`: per failure type, which servers are stopped and which commands are left;
* `TermInv`, `ClaimInv`: in ocons the highest term in the logs is the newest leader's, and
  the scan of the logs, which takes several steps while elections happen, keeps a term `M`
  that was the newest when the call began (`NewestAtCall`);
* `SteadyInv`: a leader that stays is the only one to claim, and found once it was asked.

### Only model-checked

* Liveness, which the prover cannot do: `Finishes`, `Terminates`, `BecomesReady`,
  `FinishesUnlessHeld`, `PrereqsEnd`, `ExecuteEnds`, `NodeComesBack`, `DeletesInTime`, `TeardownEnds`, `Converges`,
  and the liveness part of `ImplementsProtocol`. Of `Converges` the safety half is proved
  (above): what TLC adds is that the script gets to its end.
* The three properties that the code violates (for `PaddingSuffices`, `PaddingIsExact` says
  when).

## Seen while modelling, not checked by a run

* On Kubernetes `leader` and `kill-n` leave containers paused, and the driver's killer of
  the first of them waits for ever for the prompt of a shell in a container that does not
  run (`reckon_types.py:713`, `KillHangs`), although `terminateAndRemove` "Stops the
  container (forever)" (`:806`): it and the nodes after it are left. So they are when a
  test is terminated between a pause and the restart. `OnlyPausedLeft` says that no more is
  left, `TeardownEnds` has to exclude it.
* A Java client with a response above 4096 bytes dies of the exception in its main thread
  only; an operation that hangs then keeps the process and its stdout open, and the
  generator's collate waits for it for ever (`IO.java:55`, `Held`).
* Called, `remove_failure` of the offline types would set `fault_state`, while their loop
  tests `failure_fixed` (`failures/k8s_control_offline.py:51`, `:69`).
* A restarted node has no address at its end of the link: `params1` lacks the `f` of its
  f-string (`reckon_types.py:841`), so that a pause is not the "recoverable" failure of
  `:782`. `addressed` follows this. The links come back without their loss, too (`los=`);
  the model of the containers has no link attributes.
* A schedule that raised halfway is not reported: the execute thread ends, the rest of
  the schedule is skipped, and the test counts (`client_runner.py:103`).
* After a restart `handle_test_end` raises, as the new host has no `node_type`, and
  logs are not collected (`CollectRaises`, and `main = "uncollected"` in `LoadGenerator`).
* When `setup()` raises, containers it had created stay, and block the next test:
  `net` is not bound in the handler (`__main__.py:148`). `OnlyPausedLeft` has to
  exclude this.
* `kill-n` kills after half of the test, not "at the start" (`failures/kill_n.py:29`).
* On a Kubernetes cluster with a load balancer `partial-partition` cuts the leader
  off from the load balancer, which comes first in the cluster list, and not from
  "one follower" (`failures/partialpartition.py:35`).
* `intermittent-full` never cuts: its loop condition reads a misspelt attribute
  (`failures/intermittent_full.py:50`).
* TPTestCRUD's loop is one third writes, not the 20 % of its comment, as entries
  count double (`workload/tptest_crud.py:33`).
* `get_key_provider` reads `args.system`, which does not exist, and passes
  `restrict_RW` to `UniformKeys`, which does not take it: with uniform keys every
  system but Kubernetes fails before the test, with tptest it is refused
  (`workload/__init__.py:164`). `ProvidersRaise` says so, and `Servers` and the Java and
  OCaml clients are modelled as they would run if it did not.
* `tester.py` gives `--result-location` a file (`res.json`) in which the driver then
  wants to create `config_full.json`; `wan`, the topology of all its tests, raises in its
  constructor because `get_topology_provider` leaves out `number_clients`; and its filter
  leaves out every test of `ocons-raft`. No test of the script starts, and it does not
  look at exit codes (`scripts/tester.py:74`, `topologies/__init__.py:75`).
* Loss is divided over two links by the topology and once more by its base class
  (`reckon_types.py:376`), so a path has half of what was asked for, in the exponent of the
  survival probability; `src/README.md:33` promises it "end-to-end". `WiredAsAsked` is not
  about the loss between nodes without an entry.
* `ha_topo`'s table of variant 3 has the key `s3` twice: the link from `s3` to `s1` takes
  the default delay of 0.1 ms and not half of 85 (`scripts/kubetester.py:308`, `:316`).
  `WiredAsAsked` is about the entries that are left.
* Replays do not pass `--mtbf`, `--kill-n`, `--sys_variant` and `--light_reads` on, and
  `ReckonConfig` does not keep the last two, although the script prints "RUNNING TEST
  REPRODUCING PREVIOUS RUNS" (`scripts/kubetester.py:504`). `EdgeReplay` and `Pi4Replay`
  say which options are passed on; no property is about it. `--config` overrides every option that has
  its default value, given or not, and with it the result location, unless one is given.
* A directory whose removal was interrupted after its node directories were gone counts
  as complete without its packet captures, and so does a test whose logs were never
  collected (`scripts/kubetester.py:359`). Its responses are complete, which is what
  `CountedHasResponses` says; its request log may be truncated.
* The driver exits with 0 when the test process died; the campaign notices only when
  it is started again.
* A plain file in the folder makes `kubetest` raise at every start, and so does a folder
  that does not exist yet (`scripts/kubetester.py:352`, `:371`).
* `_parse_resp` of Kubernetes drops the first and the last line of what the shell
  printed (`systems/kubernetes/__init__.py:226`). The model takes them for the echo of
  the command and the prompt; if the shell prints neither, a leader that stands first or
  last in the list is not found.
* The request log names the last prerequisite's client for every timed operation
  (`client_runner.py:42`).
* With several clients nothing orders the creation of the namespace and of the
  deployments in it; `NamespaceFirst` says exactly when that can fail.
* The branch "No result found" of the OCaml client's collate cannot be reached
  (`ocaml_client/lib/reckon_shim.ml:122`).

## Not modelled

JSON and logging; the text of commands; the interactive debug mode of the driver;
Docker errors other than a missing container or a taken name during teardown; the
vendor client programs, which are one library call per operation; deleting a
namespace (no workload does it); `UniformKeys` and `UniformCRUD` (not reachable),
Poisson arrivals (the walk does not depend on arrival times, only on how many there
are); the `setup` of `wan` (its constructor raises); the choice of the closest server
for the clients of conspire-dc; the batches of `kubetest_repro_pi4_multi`, which do what
`kubetest_repro_pi4` does for one folder after the other; `config.json`, which no script
but the pi4 replay reads; the shell scripts and images.

## Plan

1. Done: ClientProtocol, GoClient, LoadGenerator, JavaClient, OcamlClient, Servers and
   Faults, ScaleStore and K8sClient, Workload, KubeCluster, Topology, Options and
   Campaign; all safety properties that the passing runs check proved, `WiredAsAsked`
   under the conditions that its theorems state.
2. Left to model: KubeCluster composed with Faults, so that the timeout ends a test
   with a partition in place; two OCaml clients that share a server (request ids); the
   death of the generator under a Java client.
3. Proofs beyond the runs' properties, done: the conversation with each client, one result
   for each operation, the sum of the scalings, and the safety half of `Converges`. Left:
   the composition of KubeCluster and Faults, once it is modelled.
