----------------------------- MODULE KubeCluster -----------------------------
(***************************************************************************)
(* The life of a Kubernetes cluster under test: the driver of              *)
(* reckon/__main__.py, which builds the cluster, forks the test process,   *)
(* joins it with a timeout and tears everything down; the test process,    *)
(* with the nodes that its faults pause and restart; and KubeNode and      *)
(* KuberNet of reckon/reckon_types.py, which both of them use.             *)
(*                                                                         *)
(* The test process is forked.  Containers, their interfaces and what runs *)
(* in them are shared, but the Python objects are copies: what the test    *)
(* process does to its hosts and to its list cluster does not reach the    *)
(* driver, whose killers still hold the hosts as they were created.        *)
(*                                                                         *)
(* Nodes are their places in the list that createCluster returns: the load *)
(* balancer if there is one, then control planes, then workers.            *)
(***************************************************************************)
EXTENDS Integers, Sequences, FiniteSets

CONSTANTS
  NumControl,    \* createCluster's control
  NumWorkers,    \* createCluster's workers
  KillCount,     \* --kill-n
  FailureTypes   \* the values of failure_type to explore

ASSUME ShapeAssumption ==
  /\ NumControl \in Nat \ {0} /\ NumWorkers \in Nat
  /\ KillCount \in Nat
  /\ FailureTypes \subseteq {"none", "leader", "leader-recovery", "kill-n"}

\* createCluster: several control planes need a load balancer.
Balancers == IF NumControl > 1 THEN 1 ELSE 0
Node == 1..(Balancers + NumControl + NumWorkers)
ControlPlanes == (Balancers + 1)..(Balancers + NumControl)

VARIABLES
  failure,    \* failure_type, fixed for the test
  driver,     \* program point of the driver
  place,      \* the node that its current loop is at
  killers,    \* the nodes that have an entry in the driver's killers
  hosts,      \* the driver's net.hosts, as far as they are nodes
  netBound,   \* whether the driver's name net is bound
  shells,     \* nodes whose shell, as the driver started it, is alive
  child,      \* program point of the test process
  spot,       \* the node that its current loop is at
  calls,      \* calls of stoppers and restarters its faults have yet to make
  todo,       \* commands left of the call it is in
  running,    \* nodes whose host object, as created, says running
  replaced,   \* nodes whose entry of its list cluster is a restarted host
  container,  \* per node, the state of the container of its name
  attached,   \* nodes whose container has its link to the switch
  addressed,  \* nodes whose end of that link has their address
  tmpfs,      \* nodes whose tmpfs mounts hold the files Kubernetes needs
  saved,      \* nodes with a copy of those files on their disk
  capturing,  \* nodes where tcpdump runs
  moved       \* whether the logs were moved to the results

driverVars == <<driver, place, killers, hosts, netBound, shells>>
childVars == <<child, spot, calls, todo, running, replaced, moved>>
nodeVars == <<container, attached, addressed, tmpfs, saved, capturing>>
vars == <<failure, driverVars, childVars, nodeVars>>

-----------------------------------------------------------------------------
(***************************************************************************)
(* KubeNode.                                                               *)
(***************************************************************************)
\* __init__ takes over a container that is not running only if asked to;
\* otherwise the name must be free, or Docker refuses it.
NameIsUsable(n, reloadable) ==
  \/ container[n] = "none"
  \/ container[n] = "exited" /\ reloadable

\* A container, new or taken over, starts with empty tmpfs mounts.
Launch(n) ==
  /\ container' = [container EXCEPT ![n] = "running"]
  /\ tmpfs' = tmpfs \ {n}

\* Mutant: the container is only killed.
Removed_Killed(S) == [n \in Node |-> IF n \in S /\ container[n] # "none"
                                     THEN "exited" ELSE container[n]]

\* container.remove(v=True, force=True)
Removed(S) == [n \in Node |-> IF n \in S THEN "none" ELSE container[n]]

\* What goes with a container that is killed or removed.
Lose(S) ==
  /\ attached' = attached \ S
  /\ addressed' = addressed \ S
  /\ tmpfs' = tmpfs \ S
  /\ capturing' = capturing \ S
  /\ shells' = shells \ S

\* Mutant: cmd does not replace a shell that has died.
PromptComes_SameShell(n) == n \in shells

\* The driver's cmd(): a shell that died is started again with docker exec,
\* and startShell waits for its prompt.  There is none, ever, in a container
\* that does not run.
PromptComes(n) == container[n] = "running"

-----------------------------------------------------------------------------
Init ==
  /\ failure \in FailureTypes
  /\ driver = "create" /\ place = 1
  /\ killers = {} /\ hosts = {} /\ netBound = FALSE /\ shells = {}
  /\ child = "none" /\ spot = 1 /\ calls = <<>> /\ todo = <<>>
  /\ running = {} /\ replaced = {} /\ moved = FALSE
  \* An earlier test may have left containers behind.
  /\ container \in [Node -> {"none", "exited", "running"}]
  /\ attached = {} /\ addressed = {}
  /\ tmpfs = {} /\ saved = {} /\ capturing = {}

(***************************************************************************)
(* The driver: setup() and start_nodes().                                  *)
(***************************************************************************)
\* createCluster creates the next node.
CreateNode ==
  /\ driver = "create" /\ place \in Node
  /\ NameIsUsable(place, FALSE)
  /\ Launch(place)
  /\ hosts' = hosts \cup {place}
  /\ shells' = shells \cup {place}
  /\ running' = running \cup {place}
  /\ place' = place + 1
  /\ UNCHANGED <<failure, driver, killers, netBound, child, spot, calls, todo,
                 replaced, moved, attached, addressed, saved, capturing>>

\* setup() links every host to its switch, starts the network and returns.
Connect ==
  /\ driver = "create" /\ place \notin Node
  /\ attached' = Node /\ addressed' = Node
  /\ netBound' = TRUE
  /\ driver' = "start" /\ place' = 1
  /\ UNCHANGED <<failure, killers, hosts, shells, childVars, container, tmpfs,
                 saved, capturing>>

\* start_nodes configures and starts the node at place, which installs what
\* it needs; its dictionaries reach the driver when it returns.
StartNode ==
  /\ driver = "start" /\ place \in Node
  /\ tmpfs' = tmpfs \cup {place}
  /\ place' = place + 1
  /\ UNCHANGED <<failure, driver, killers, hosts, netBound, shells, childVars,
                 container, attached, addressed, saved, capturing>>

StartNodesReturns ==
  /\ driver = "start" /\ place \notin Node
  /\ killers' = Node
  /\ driver' = "settle"
  /\ UNCHANGED <<failure, place, hosts, netBound, shells, childVars, nodeVars>>

\* Pings done: fork the test process, and join it.
StartTest ==
  /\ driver = "settle"
  /\ driver' = "join" /\ child' = "prepare"
  /\ UNCHANGED <<failure, place, killers, hosts, netBound, shells, spot, calls,
                 todo, running, replaced, moved, nodeVars>>

\* A name is taken, or something else goes wrong, in setup(), start_nodes()
\* or while pinging.
SetupRaises ==
  /\ driver \in {"create", "start", "settle"}
  /\ driver' = "handler" /\ place' = 1
  /\ UNCHANGED <<failure, killers, hosts, netBound, shells, childVars,
                 nodeVars>>

\* The test process is over, or the join times out and it is terminated,
\* whatever it is doing.
JoinEnds ==
  /\ driver = "join"
  /\ driver' = "finally" /\ place' = 1
  /\ child' = IF child \in {"done", "died"} THEN child ELSE "terminated"
  /\ UNCHANGED <<failure, killers, hosts, netBound, shells, spot, calls, todo,
                 running, replaced, moved, nodeVars>>

-----------------------------------------------------------------------------
(***************************************************************************)
(* The driver: the exception handler, and the finally block.  Both run the *)
(* killers, in the order of the nodes, and then net.stop().                *)
(***************************************************************************)
TearingDown == driver \in {"handler", "finally"}

\* terminateAndRemove, with a shell to stop tcpdump from.  A node has one
\* link, so deleting links while going through them skips none of its own.
Kill ==
  /\ TearingDown /\ place \in killers
  /\ container[place] # "none" /\ PromptComes(place)
  /\ container' = Removed({place})
  /\ Lose({place})
  /\ hosts' = hosts \ {place}
  /\ place' = place + 1
  /\ UNCHANGED <<failure, driver, killers, netBound, childVars, saved>>

\* startShell waits for a prompt that does not come.
KillHangs ==
  /\ TearingDown /\ place \in killers
  /\ container[place] # "none" /\ ~PromptComes(place)
  /\ driver' = "hung"
  /\ UNCHANGED <<failure, place, killers, hosts, netBound, shells, childVars,
                 nodeVars>>

\* Where an exception in the handler or in the finally block leads.
AfterRaise == IF driver = "handler" THEN "finally" ELSE "ended"

\* containers.get finds no such container.
KillRaises ==
  /\ TearingDown /\ place \in killers /\ container[place] = "none"
  /\ driver' = AfterRaise /\ place' = 1
  /\ UNCHANGED <<failure, killers, hosts, netBound, shells, childVars,
                 nodeVars>>

\* net.stop() terminates the nodes that are still in net.hosts and run; the
\* handler then leaves for the finally block.
NetStop ==
  /\ TearingDown /\ place \notin killers /\ netBound
  /\ LET live == {n \in hosts : container[n] = "running"} IN
     /\ container' = Removed(live)
     /\ Lose(live)
  /\ driver' = AfterRaise /\ place' = 1
  /\ UNCHANGED <<failure, killers, hosts, netBound, childVars, saved>>

\* setup() did not return: net is not defined.
NetUnbound ==
  /\ TearingDown /\ place \notin killers /\ ~netBound
  /\ driver' = AfterRaise /\ place' = 1
  /\ UNCHANGED <<failure, killers, hosts, netBound, shells, childVars,
                 nodeVars>>

-----------------------------------------------------------------------------
(***************************************************************************)
(* The test process.  Its faults call stoppers and restarters; each call   *)
(* is a sequence of commands, between which the process may be terminated. *)
(***************************************************************************)
\* prepare_test_start: tcpdump on the node at spot.
PrepareNode ==
  /\ child = "prepare" /\ spot \in Node
  /\ capturing' = capturing \cup {spot}
  /\ spot' = spot + 1
  /\ UNCHANGED <<failure, driverVars, child, calls, todo, running, replaced,
                 moved, container, attached, addressed, tmpfs, saved>>

Pause(n) == <<"pause", n>>
Restart(n) == <<"restart", n>>

\* The calls of a test's faults, if get_leader answers l.
CallsOf(l) ==
  CASE failure = "none" -> <<>>
    [] failure = "leader" -> <<Pause(l)>>
    [] failure = "leader-recovery" -> <<Pause(l), Restart(l)>>
    [] failure = "kill-n" ->
         [i \in 1..(IF KillCount \in Node THEN KillCount
                    ELSE Cardinality(Node)) |-> Pause(i)]

\* Every node is prepared and the test runs.  get_leader may raise, in the
\* execute thread, and then no fault is applied; with one control plane it
\* always does, because cluster[1] is a worker.
TestRuns ==
  /\ child = "prepare" /\ spot \notin Node
  /\ \/ failure \in {"leader", "leader-recovery"} /\ calls' = <<>>
     \/ \E l \in ControlPlanes :
          /\ failure \in {"leader", "leader-recovery"} => Balancers = 1
          /\ calls' = CallsOf(l)
  /\ child' = "test"
  /\ UNCHANGED <<failure, driverVars, spot, todo, running, replaced, moved,
                 nodeVars>>

\* Mutant: pause does not run backup-tmpfs.sh.
CommandsOf_NoBackup(call) ==
  IF call = Pause(call[2])
  THEN IF call[2] \in running THEN <<"uncapture", "remove">> ELSE <<>>
  ELSE IF call[2] \in running THEN <<>>
       ELSE <<"reload", "restore", "relink", "capture">>

\* pause() does something to a host that runs, restart() to one that does
\* not.
CommandsOf(call) ==
  IF call = Pause(call[2])
  THEN IF call[2] \in running
       THEN <<"backup", "uncapture", "remove">> ELSE <<>>
  ELSE IF call[2] \in running THEN <<>>
       ELSE <<"reload", "restore", "relink", "capture">>

CallFault ==
  /\ child = "test" /\ todo = <<>> /\ calls # <<>>
  /\ todo' = CommandsOf(Head(calls))
  /\ calls' = IF todo' = <<>> THEN Tail(calls) ELSE calls
  /\ UNCHANGED <<failure, driverVars, child, spot, running, replaced, moved,
                 nodeVars>>

\* One command of the call, on its node n.
Command(op, n) ==
  /\ child = "test" /\ todo # <<>>
  /\ Head(todo) = op /\ n = Head(calls)[2]
  /\ todo' = Tail(todo)
  /\ calls' = IF todo' = <<>> THEN Tail(calls) ELSE calls
  /\ UNCHANGED <<failure, driver, place, killers, hosts, netBound, child, spot,
                 moved>>

\* backup-tmpfs.sh replaces the copy by what is there.
Backup(n) ==
  /\ Command("backup", n)
  /\ saved' = IF n \in tmpfs THEN saved \cup {n} ELSE saved \ {n}
  /\ UNCHANGED <<running, replaced, shells, container, attached, addressed,
                 tmpfs, capturing>>

StopCapture(n) ==
  /\ Command("uncapture", n)
  /\ capturing' = capturing \ {n}
  /\ UNCHANGED <<running, replaced, shells, container, attached, addressed,
                 tmpfs, saved>>

\* removeHost and stop(): interfaces go, and the container is killed.
RemoveHost(n) ==
  /\ Command("remove", n)
  /\ container' = [container EXCEPT ![n] = "exited"]
  /\ Lose({n})
  /\ running' = running \ {n}
  /\ UNCHANGED <<replaced, saved>>

\* restart(): a new host takes the container over.
Reload(n) ==
  /\ Command("reload", n)
  /\ NameIsUsable(n, TRUE)
  /\ Launch(n)
  /\ UNCHANGED <<running, replaced, shells, attached, addressed, saved,
                 capturing>>

Restore(n) ==
  /\ Command("restore", n)
  /\ tmpfs' = IF n \in saved THEN tmpfs \cup {n} ELSE tmpfs
  /\ UNCHANGED <<running, replaced, shells, container, attached, addressed,
                 saved, capturing>>

\* The link is added again, and the new host takes its place in cluster; the
\* old one stays not running.  The address that the host's end is given is
\* the text {link.ip_addr_from}/8 as it stands, which no interface accepts.
\* (The link has no loss any more either; links have no attributes here.)
Relink(n) ==
  /\ Command("relink", n)
  /\ attached' = attached \cup {n}
  /\ replaced' = replaced \cup {n}
  /\ UNCHANGED <<running, shells, container, addressed, tmpfs, saved,
                 capturing>>

Capture(n) ==
  /\ Command("capture", n)
  /\ capturing' = capturing \cup {n}
  /\ UNCHANGED <<running, replaced, shells, container, attached, addressed,
                 tmpfs, saved>>

\* run_test raises (a client is dead, say), and the daemon thread that
\* applies faults goes with its process.
TestRaises ==
  /\ child \in {"prepare", "test"}
  /\ child' = "died"
  /\ UNCHANGED <<failure, driverVars, spot, calls, todo, running, replaced,
                 moved, nodeVars>>

\* Faults are applied and results are in, and written.
TestEnds ==
  /\ child = "test" /\ calls = <<>> /\ todo = <<>>
  /\ child' = "collect" /\ spot' = 1
  /\ UNCHANGED <<failure, driverVars, calls, todo, running, replaced, moved,
                 nodeVars>>

\* handle_test_end, for a host as it was created; if it is paused its shell
\* is gone and commands are ignored.
CollectNode ==
  /\ child = "collect" /\ spot \in Node \ replaced
  /\ capturing' = capturing \ {spot}
  /\ spot' = spot + 1
  /\ UNCHANGED <<failure, driverVars, child, calls, todo, running, replaced,
                 moved, container, attached, addressed, tmpfs, saved>>

\* A restarted host has no node_type: handle_test_end raises.
CollectRaises ==
  /\ child = "collect" /\ spot \in replaced
  /\ capturing' = capturing \ {spot}
  /\ child' = "died"
  /\ UNCHANGED <<failure, driverVars, spot, calls, todo, running, replaced,
                 moved, container, attached, addressed, tmpfs, saved>>

\* mv is checked: it may find nothing to move.
MoveLogs ==
  /\ child = "collect" /\ spot \notin Node
  /\ \/ moved' = TRUE /\ child' = "done"
     \/ moved' = FALSE /\ child' = "died"
  /\ UNCHANGED <<failure, driverVars, spot, calls, todo, running, replaced,
                 nodeVars>>

-----------------------------------------------------------------------------
DriverStep ==
  \/ CreateNode \/ Connect \/ StartNode \/ StartNodesReturns \/ StartTest
  \/ SetupRaises \/ JoinEnds
  \/ Kill \/ KillHangs \/ KillRaises \/ NetStop \/ NetUnbound

ChildStep ==
  \/ PrepareNode \/ TestRuns \/ CallFault
  \/ \E n \in Node : \/ Backup(n) \/ StopCapture(n) \/ RemoveHost(n)
                     \/ Reload(n) \/ Restore(n) \/ Relink(n) \/ Capture(n)
  \/ TestRaises \/ TestEnds \/ CollectNode \/ CollectRaises \/ MoveLogs

Next == DriverStep \/ ChildStep

Spec == Init /\ [][Next]_vars

\* The driver is one thread, and its join has a timeout.  Nothing is assumed
\* of the test process, which may wait for a client for ever.
FairSpec == Spec /\ WF_vars(DriverStep)

-----------------------------------------------------------------------------
\* The driver is past the test, which every node has survived or returned to.
AllUp == driver = "finally" /\ place = 1 /\ netBound
         /\ \A n \in Node : container[n] = "running"

(* The handler and the finally block of __main__.py both run the killers   *)
(* and net.stop(), each can be cut short by an exception of its own, and   *)
(* killers is still empty when start_nodes raises.  Once setup() has       *)
(* returned the net they nevertheless remove every container, whatever     *)
(* raised and wherever the test process was terminated, unless a killer    *)
(* waits for the prompt of a container that is paused; then that one and   *)
(* the nodes after it in the list are what is left, and no other.          *)
OnlyPausedLeft ==
  driver \in {"ended", "hung"} /\ netBound =>
    LET left == {n \in Node : container[n] # "none"} IN
    \/ left = {}
    \/ /\ driver = "hung" /\ container[place] = "exited"
       /\ left = {n \in Node : n >= place}

(* The finally block gets to its end if every container runs when it is    *)
(* reached, although the driver's own shell into a restarted container has *)
(* died with it.  (It does not if a node is still paused.)                 *)
TeardownEnds == AllUp ~> driver = "ended"

\* The test process is between two calls of stoppers and restarters.
BetweenCalls ==
  /\ child \in {"prepare", "test", "collect", "done"} /\ todo = <<>>
  /\ driver = "join"

(* Between two calls of stoppers and restarters, a container that runs has *)
(* its link and the files that a pause wiped with its tmpfs mounts, and    *)
(* its address unless it was restarted.  (A restart does not bring the     *)
(* address back, for want of an f before a string, so that a pause is not  *)
(* the "recoverable" failure that reckon_types.py:782 says it is.)         *)
LinkAndFilesBack ==
  BetweenCalls =>
    \A n \in Node : container[n] = "running" =>
      /\ n \in attached \cap tmpfs
      /\ n \in addressed \cup replaced

=============================================================================
