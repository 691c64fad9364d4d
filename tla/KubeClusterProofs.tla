-------------------------- MODULE KubeClusterProofs --------------------------
(***************************************************************************)
(* Proofs about KubeCluster, for every number of control planes and        *)
(* workers and every --kill-n: once setup() has returned, all containers   *)
(* that the driver leaves behind are a paused one that its killer waits    *)
(* for, and those after it (OnlyPausedLeft), and the faults of the test    *)
(* process leave every container that runs with its link and its files,    *)
(* and every one that they did not restart with its address                *)
(* (LinkAndFilesBack).                                                     *)
(*                                                                         *)
(* Neither is inductive.  The first needs what each phase of the driver    *)
(* knows of the containers (SetupInv, TeardownInv): the killers go through *)
(* the nodes in order, so that the containers already removed are those    *)
(* before place, and the second pass of the finally block is cut short by  *)
(* its first killer only if nothing was left for it.  The second needs     *)
(* what the commands of a call that are still to come take for granted     *)
(* (ServiceInv): that a node that is paused has been saved first.          *)
(***************************************************************************)
EXTENDS KubeCluster, FiniteSetTheorems, SequenceTheorems, TLAPS

\* The number of nodes, and the calls of stoppers and restarters.
Size == Balancers + NumControl + NumWorkers
Call == {"pause", "restart"} \X Node

\* What is left of a pause or of a restart after some of its commands.
Pause3 == <<"backup", "uncapture", "remove">>
Pause2 == <<"uncapture", "remove">>
Pause1 == <<"remove">>
Restart4 == <<"reload", "restore", "relink", "capture">>
Restart3 == <<"restore", "relink", "capture">>
Restart2 == <<"relink", "capture">>
Restart1 == <<"capture">>
Rests == {<<>>, Pause3, Pause2, Pause1, Restart4, Restart3, Restart2, Restart1}

TypeOK ==
  /\ failure \in FailureTypes
  /\ driver \in {"create", "start", "settle", "join", "handler", "finally",
                 "hung", "ended"}
  /\ place \in 1..(Size + 1)
  /\ killers \in SUBSET Node /\ hosts \in SUBSET Node
  /\ netBound \in BOOLEAN
  /\ shells \in SUBSET Node
  /\ child \in {"none", "prepare", "test", "collect", "done", "died",
                "terminated"}
  /\ spot \in 1..(Size + 1)
  /\ calls \in Seq(Call) /\ todo \in Rests
  /\ running \in SUBSET Node /\ replaced \in SUBSET Node
  /\ moved \in BOOLEAN
  /\ container \in [Node -> {"none", "exited", "running"}]
  /\ attached \in SUBSET Node /\ addressed \in SUBSET Node
  /\ tmpfs \in SUBSET Node
  /\ saved \in SUBSET Node /\ capturing \in SUBSET Node

\* The test process does something only while the driver joins it, and does
\* not exist before.
ChildInv ==
  /\ child \in {"prepare", "test", "collect"} => driver = "join"
  /\ driver \in {"create", "start", "settle"} => child = "none"
  /\ child \in {"none", "prepare"} => todo = <<>>

\* While the cluster is set up the nodes before place are ready.
SetupInv ==
  /\ driver = "create" =>
       /\ ~netBound /\ killers = {}
       /\ hosts = 1..(place - 1) /\ running = hosts
       /\ \A n \in hosts : container[n] = "running"
  /\ driver \in {"start", "settle"} =>
       /\ netBound /\ hosts = Node /\ running = Node
       /\ attached = Node /\ addressed = Node
       /\ killers = IF driver = "start" THEN {} ELSE Node
       /\ \A n \in Node : container[n] = "running"
       /\ \A n \in Node : n < place => n \in tmpfs
  /\ driver = "settle" => place = Size + 1

\* A node no command is at: it is in service, or it is paused and saved.
Settled(n) ==
  /\ container[n] \in {"running", "exited"}
  /\ container[n] = "running" => /\ n \in attached /\ n \in tmpfs
                                 /\ n \in addressed \/ n \in replaced
  /\ container[n] = "exited" => n \in saved
  /\ n \in running => container[n] = "running"

\* The node of the call whose commands are left.
Current(n) ==
  \/ todo \in {Restart4, Restart1} /\ Settled(n)
  \/ todo = Pause3 /\ Settled(n) /\ n \in running
  \/ todo \in {Pause2, Pause1} /\ Settled(n) /\ n \in saved
  \/ todo = Restart3 /\ container[n] = "running" /\ n \in saved
  \/ todo = Restart2 /\ container[n] = "running" /\ n \in tmpfs

ServiceInv ==
  driver = "join" =>
    /\ netBound /\ killers = Node /\ hosts = Node
    /\ todo # <<>> => calls # <<>>
    /\ \A n \in Node : IF todo # <<>> /\ n = Head(calls)[2]
                       THEN Current(n) ELSE Settled(n)

\* Once the net is bound a teardown finds every container, removes them in
\* order, and finds none any more.
TeardownInv ==
  /\ TearingDown /\ netBound =>
       \/ \A n \in Node : container[n] = "none"
       \/ /\ killers = Node
          /\ \A n \in Node : container[n] = "none" <=> n < place
       \/ /\ killers = {} /\ hosts = Node
          /\ \A n \in Node : container[n] = "running"
          /\ driver = "handler"
  /\ OnlyPausedLeft

Inv == TypeOK /\ ChildInv /\ SetupInv /\ ServiceInv /\ TeardownInv

-----------------------------------------------------------------------------
(***************************************************************************)
(* Facts about the constants and the operators.                            *)
(***************************************************************************)
\* Nodes are numbered from 1, and the control planes are among them.
LEMMA NodeFacts ==
  /\ Size \in Nat \ {0} /\ Node = 1..Size
  /\ ControlPlanes \subseteq Node
  /\ Balancers \in {0, 1}
BY ShapeAssumption DEF Size, Node, ControlPlanes, Balancers

\* The commands of a call are taken one at a time, from the front.
LEMMA RestFacts ==
  /\ Head(Pause3) = "backup" /\ Tail(Pause3) = Pause2 /\ Pause3 # <<>>
  /\ Head(Pause2) = "uncapture" /\ Tail(Pause2) = Pause1 /\ Pause2 # <<>>
  /\ Head(Pause1) = "remove" /\ Tail(Pause1) = <<>> /\ Pause1 # <<>>
  /\ Head(Restart4) = "reload" /\ Tail(Restart4) = Restart3 /\ Restart4 # <<>>
  /\ Head(Restart3) = "restore" /\ Tail(Restart3) = Restart2 /\ Restart3 # <<>>
  /\ Head(Restart2) = "relink" /\ Tail(Restart2) = Restart1 /\ Restart2 # <<>>
  /\ Head(Restart1) = "capture" /\ Tail(Restart1) = <<>> /\ Restart1 # <<>>
<1>1. /\ Head(Pause3) = "backup" /\ Tail(Pause3) = Pause2 /\ Pause3 # <<>>
  BY DEF Pause3, Pause2
<1>2. /\ Head(Pause2) = "uncapture" /\ Tail(Pause2) = Pause1
      /\ Pause2 # <<>>
  BY DEF Pause2, Pause1
<1>3. /\ Head(Pause1) = "remove" /\ Tail(Pause1) = <<>> /\ Pause1 # <<>>
  BY DEF Pause1
<1>4. /\ Head(Restart4) = "reload" /\ Tail(Restart4) = Restart3
      /\ Restart4 # <<>>
  BY DEF Restart4, Restart3
<1>5. /\ Head(Restart3) = "restore" /\ Tail(Restart3) = Restart2
      /\ Restart3 # <<>>
  BY DEF Restart3, Restart2
<1>6. /\ Head(Restart2) = "relink" /\ Tail(Restart2) = Restart1
      /\ Restart2 # <<>>
  BY DEF Restart2, Restart1
<1>7. /\ Head(Restart1) = "capture" /\ Tail(Restart1) = <<>>
      /\ Restart1 # <<>>
  BY DEF Restart1
<1> QED BY <1>1, <1>2, <1>3, <1>4, <1>5, <1>6, <1>7

\* A call is a pause or a restart of a node, in full or not at all, and a
\* pause only of a host that runs.
LEMMA CommandsOfType ==
  ASSUME NEW c \in Call
  PROVE  /\ CommandsOf(c) \in {<<>>, Pause3, Restart4}
         /\ CommandsOf(c) = Pause3 => c[2] \in running
<1>1. Pause3 # Restart4 /\ Pause3 # <<>>
  BY RestFacts
<1>2. CommandsOf(c) = IF c = Pause(c[2])
                      THEN IF c[2] \in running THEN Pause3 ELSE <<>>
                      ELSE IF c[2] \in running THEN <<>> ELSE Restart4
  BY DEF CommandsOf, Pause3, Restart4
<1> QED BY <1>1, <1>2

\* The faults of every failure type pause and restart nodes of the cluster.
LEMMA CallsOfType ==
  ASSUME failure \in FailureTypes, NEW l \in ControlPlanes
  PROVE  CallsOf(l) \in Seq(Call)
<1> DEFINE k == IF KillCount \in Node THEN KillCount ELSE Cardinality(Node)
<1>1. l \in Node
  BY NodeFacts
<1>2. Cardinality(Node) = Size
  BY FS_Interval, NodeFacts
<1>3. k \in Nat /\ \A i \in 1..k : i \in Node
  BY <1>2, NodeFacts
<1>4. \A i \in Node : Pause(i) \in Call /\ Restart(i) \in Call
  BY DEF Pause, Restart, Call
<1>5. [i \in 1..k |-> Pause(i)] \in Seq(Call)
  <2> HIDE DEF k
  <2> QED BY <1>3, <1>4
<1>6. <<>> \in Seq(Call) /\ <<Pause(l)>> \in Seq(Call)
      /\ <<Pause(l), Restart(l)>> \in Seq(Call)
  BY <1>1, <1>4
<1>7. failure \in {"none", "leader", "leader-recovery", "kill-n"}
  BY ShapeAssumption
<1>8. CASE failure = "kill-n"
  BY <1>5, <1>8 DEF CallsOf
<1>9. CASE failure # "kill-n"
  BY <1>6, <1>7, <1>9 DEF CallsOf
<1> QED BY <1>8, <1>9

-----------------------------------------------------------------------------
(***************************************************************************)
(* Type correctness.                                                       *)
(***************************************************************************)
LEMMA InitInv == Init => Inv
<1> SUFFICES ASSUME Init PROVE Inv
  OBVIOUS
<1>1. place = 1 /\ 1 \in 1..(Size + 1) /\ 1..(place - 1) = {}
  BY NodeFacts DEF Init
<1>2. <<>> \in Seq(Call)
  OBVIOUS
<1>3. TypeOK
  BY <1>1, <1>2, Zenon DEF Init, TypeOK, Rests
<1>4. ChildInv
  BY DEF Init, ChildInv
<1>5. SetupInv
  BY <1>1, Zenon DEF Init, SetupInv
<1>6. ServiceInv /\ TeardownInv
  BY DEF Init, ServiceInv, TeardownInv, TearingDown, OnlyPausedLeft
<1> QED BY <1>3, <1>4, <1>5, <1>6 DEF Inv

\* A node's place in the list is followed by another one or by the end.
LEMMA NextPlace ==
  ASSUME NEW p \in Node
  PROVE  p + 1 \in 1..(Size + 1)
BY NodeFacts

\* Taking a command keeps the types of what is left of the calls.
LEMMA CommandType ==
  ASSUME TypeOK, ServiceInv, ChildInv, NEW op, NEW n, Command(op, n)
  PROVE  /\ todo' \in Rests /\ calls' \in Seq(Call)
         /\ driver = "join" /\ calls # <<>> /\ Head(calls) \in Call
         /\ n = Head(calls)[2] /\ n \in Node
         /\ todo # <<>> /\ Head(todo) = op /\ todo' = Tail(todo)
<1>1. child = "test" /\ todo # <<>> /\ Head(todo) = op /\ n = Head(calls)[2]
      /\ todo' = Tail(todo)
      /\ calls' = (IF todo' = <<>> THEN Tail(calls) ELSE calls)
  BY DEF Command
<1>2. driver = "join" /\ calls # <<>>
  BY <1>1 DEF ChildInv, ServiceInv
<1>3. Head(calls) \in Call /\ Tail(calls) \in Seq(Call)
  BY <1>2 DEF TypeOK
<1>4. n \in Node
  BY <1>1, <1>3 DEF Call
<1>5. todo' \in Rests
  BY <1>1, RestFacts DEF TypeOK, Rests
<1>6. calls' \in Seq(Call)
  BY <1>1, <1>3 DEF TypeOK
<1> QED BY <1>1, <1>2, <1>3, <1>4, <1>5, <1>6

\* Steps of the driver keep the types.
LEMMA DriverType ==
  ASSUME Inv, DriverStep
  PROVE  TypeOK'
<1>1. CASE CreateNode
  <2>1. place' \in 1..(Size + 1)
    BY <1>1, NextPlace DEF CreateNode
  <2> QED BY <1>1, <2>1 DEF CreateNode, Launch, Inv, TypeOK
<1>2. CASE Connect
  BY <1>2, NodeFacts DEF Connect, childVars, Inv, TypeOK
<1>3. CASE StartNode
  <2>1. place' \in 1..(Size + 1)
    BY <1>3, NextPlace DEF StartNode
  <2> QED BY <1>3, <2>1 DEF StartNode, childVars, Inv, TypeOK
<1>4. CASE StartNodesReturns
  BY <1>4 DEF StartNodesReturns, childVars, nodeVars, Inv, TypeOK
<1>5. CASE StartTest
  BY <1>5 DEF StartTest, nodeVars, Inv, TypeOK
<1>6. CASE SetupRaises
  BY <1>6, NodeFacts DEF SetupRaises, childVars, nodeVars, Inv, TypeOK
<1>7. CASE JoinEnds
  BY <1>7, NodeFacts DEF JoinEnds, nodeVars, Inv, TypeOK
<1>8. CASE Kill
  <2>1. place' \in 1..(Size + 1)
    BY <1>8, NextPlace DEF Kill, Inv, TypeOK
  <2>2. container' \in [Node -> {"none", "exited", "running"}]
    BY <1>8 DEF Kill, Removed, Inv, TypeOK
  <2> QED BY <1>8, <2>1, <2>2 DEF Kill, Lose, childVars, Inv, TypeOK
<1>9. CASE KillHangs
  BY <1>9 DEF KillHangs, childVars, nodeVars, Inv, TypeOK
<1>10. CASE KillRaises
  BY <1>10, NodeFacts
  DEF KillRaises, AfterRaise, childVars, nodeVars, Inv, TypeOK
<1>11. CASE NetStop
  <2> DEFINE live == {n \in hosts : container[n] = "running"}
  <2>1. container' \in [Node -> {"none", "exited", "running"}]
    BY <1>11 DEF NetStop, Removed, Inv, TypeOK
  <2>2. Lose(live)
    BY <1>11 DEF NetStop
  <2>3. place' \in 1..(Size + 1) /\ driver' \in {"finally", "ended"}
    BY <1>11, NodeFacts DEF NetStop, AfterRaise
  <2> HIDE DEF live
  <2> QED
    BY <1>11, <2>1, <2>2, <2>3 DEF NetStop, Lose, childVars, Inv, TypeOK
<1>12. CASE NetUnbound
  BY <1>12, NodeFacts
  DEF NetUnbound, AfterRaise, childVars, nodeVars, Inv, TypeOK
<1> QED
  BY <1>1, <1>2, <1>3, <1>4, <1>5, <1>6, <1>7, <1>8, <1>9, <1>10, <1>11,
     <1>12 DEF DriverStep

\* Steps of the test's process keep the types.
LEMMA ChildType ==
  ASSUME Inv, ChildStep
  PROVE  TypeOK'
<1>0. TypeOK /\ ServiceInv /\ ChildInv
  BY DEF Inv
<1>1. CASE PrepareNode
  <2>1. spot' \in 1..(Size + 1)
    BY <1>1, NextPlace DEF PrepareNode
  <2> QED BY <1>0, <1>1, <2>1 DEF PrepareNode, driverVars, TypeOK
<1>2. CASE TestRuns
  <2>1. calls' \in Seq(Call)
    <3>1. failure \in FailureTypes
      BY <1>0 DEF TypeOK
    <3>2. calls' = <<>> \/ \E l \in ControlPlanes : calls' = CallsOf(l)
      BY <1>2, Zenon DEF TestRuns
    <3>3. <<>> \in Seq(Call)
      OBVIOUS
    <3> QED BY <3>1, <3>2, <3>3, CallsOfType
  <2> QED BY <1>0, <1>2, <2>1 DEF TestRuns, driverVars, nodeVars, TypeOK
<1>3. CASE CallFault
  <2>1. Head(calls) \in Call /\ Tail(calls) \in Seq(Call)
    BY <1>0, <1>3 DEF CallFault, TypeOK
  <2>2. todo' \in Rests
    BY <1>3, <2>1, CommandsOfType DEF CallFault, Rests
  <2>3. calls' \in Seq(Call)
    BY <1>0, <1>3, <2>1 DEF CallFault, TypeOK
  <2> QED
    BY <1>0, <1>3, <2>2, <2>3 DEF CallFault, driverVars, nodeVars, TypeOK
<1>4. ASSUME NEW n \in Node,
             \/ Backup(n) \/ StopCapture(n) \/ RemoveHost(n) \/ Reload(n)
             \/ Restore(n) \/ Relink(n) \/ Capture(n)
      PROVE  TypeOK'
  <2>1. PICK op : Command(op, n)
    BY <1>4 DEF Backup, StopCapture, RemoveHost, Reload, Restore, Relink,
                Capture
  <2>2. todo' \in Rests /\ calls' \in Seq(Call)
    BY <1>0, <2>1, CommandType
  <2>3. /\ UNCHANGED <<failure, driver, place, killers, hosts>>
        /\ UNCHANGED <<netBound, child, spot, moved>>
    BY <2>1 DEF Command
  <2>4. /\ running' \in SUBSET Node /\ replaced' \in SUBSET Node
        /\ shells' \in SUBSET Node
    BY <1>0, <1>4 DEF Backup, StopCapture, RemoveHost, Reload, Restore, Relink,
                      Capture, Lose, TypeOK
  <2>5. container' \in [Node -> {"none", "exited", "running"}]
    BY <1>0, <1>4 DEF Backup, StopCapture, RemoveHost, Reload, Restore, Relink,
                      Capture, Launch, TypeOK
  <2>6. /\ attached' \in SUBSET Node /\ addressed' \in SUBSET Node
        /\ tmpfs' \in SUBSET Node
        /\ saved' \in SUBSET Node /\ capturing' \in SUBSET Node
    BY <1>0, <1>4 DEF Backup, StopCapture, RemoveHost, Reload, Restore, Relink,
                      Capture, Lose, Launch, TypeOK
  <2> QED BY <1>0, <2>2, <2>3, <2>4, <2>5, <2>6 DEF TypeOK
<1>5. CASE TestRaises
  BY <1>0, <1>5 DEF TestRaises, driverVars, nodeVars, TypeOK
<1>6. CASE TestEnds
  BY <1>0, <1>6, NodeFacts DEF TestEnds, driverVars, nodeVars, TypeOK
<1>7. CASE CollectNode
  <2>1. spot' \in 1..(Size + 1)
    BY <1>7, NextPlace DEF CollectNode
  <2> QED BY <1>0, <1>7, <2>1 DEF CollectNode, driverVars, TypeOK
<1>8. CASE CollectRaises
  BY <1>0, <1>8 DEF CollectRaises, driverVars, TypeOK
<1>9. CASE MoveLogs
  BY <1>0, <1>9 DEF MoveLogs, driverVars, nodeVars, TypeOK
<1> QED
  BY <1>1, <1>2, <1>3, <1>4, <1>5, <1>6, <1>7, <1>8, <1>9, Zenon
  DEF ChildStep

-----------------------------------------------------------------------------
(***************************************************************************)
(* The phases of the driver.                                               *)
(***************************************************************************)
LEMMA DriverInv ==
  ASSUME Inv, DriverStep
  PROVE  (ChildInv /\ SetupInv /\ ServiceInv /\ TeardownInv)'
<1>0. TypeOK /\ ChildInv /\ SetupInv /\ ServiceInv /\ TeardownInv
  BY DEF Inv
<1>1. CASE CreateNode
  <2>1. driver' = "create" /\ driver = "create" /\ place \in Node
        /\ place' = place + 1
    BY <1>1 DEF CreateNode
  <2>2. ChildInv'
    BY <1>0, <1>1, <2>1 DEF CreateNode, ChildInv
  <2>3. SetupInv'
    <3>1. netBound' = netBound /\ killers' = killers
      BY <1>1 DEF CreateNode
    <3>2. ~netBound' /\ killers' = {}
      BY <1>0, <2>1, <3>1, Zenon DEF SetupInv
    <3>3. hosts' = 1..(place' - 1) /\ running' = hosts'
      BY <1>0, <1>1, <2>1, NodeFacts DEF CreateNode, SetupInv
    <3>4. \A n \in hosts' : container'[n] = "running"
      BY <1>0, <1>1, <2>1 DEF CreateNode, Launch, SetupInv, TypeOK
    <3>5. driver' = "create"
      BY <2>1
    <3> QED BY <3>2, <3>3, <3>4, <3>5, Zenon DEF SetupInv
  <2> QED
    BY <2>1, <2>2, <2>3
    DEF ServiceInv, TeardownInv, TearingDown, OnlyPausedLeft
<1>2. CASE Connect
  <2>1. driver' = "start" /\ driver = "create" /\ place \notin Node
        /\ place' = 1 /\ attached' = Node /\ addressed' = Node
        /\ UNCHANGED <<killers, hosts, running, container, child, todo, calls>>
    BY <1>2 DEF Connect, childVars
  <2>2. ChildInv'
    BY <1>0, <2>1 DEF ChildInv
  <2>3. SetupInv'
    <3>1. netBound'
      BY <1>2 DEF Connect
    <3>2. hosts = Node /\ running = Node /\ killers = {}
      BY <1>0, <2>1, NodeFacts DEF SetupInv, TypeOK
    <3>3. \A n \in Node : container[n] = "running"
      BY <1>0, <2>1, <3>2 DEF SetupInv
    <3>4. \A n \in Node : ~(n < place')
      BY <2>1, NodeFacts
    <3> QED BY <2>1, <3>1, <3>2, <3>3, <3>4 DEF SetupInv
  <2> QED
    BY <2>1, <2>2, <2>3
    DEF ServiceInv, TeardownInv, TearingDown, OnlyPausedLeft
<1>3. CASE StartNode
  <2>1. driver' = "start" /\ driver = "start" /\ place \in Node
        /\ place' = place + 1 /\ tmpfs' = tmpfs \cup {place}
        /\ UNCHANGED <<killers, hosts, running, container, child, todo, calls,
                       attached, addressed>>
    BY <1>3 DEF StartNode, childVars
  <2>2. ChildInv'
    BY <1>0, <2>1 DEF ChildInv
  <2>3. SetupInv'
    <3>1. netBound'
      BY <1>0, <1>3 DEF StartNode, SetupInv
    <3>2. hosts = Node /\ running = Node /\ killers = {}
          /\ attached = Node /\ addressed = Node
      BY <1>0, <2>1 DEF SetupInv
    <3>3. \A n \in Node : container[n] = "running"
      BY <1>0, <2>1 DEF SetupInv
    <3>4. \A n \in Node : n < place' => n \in tmpfs'
      BY <1>0, <2>1, NodeFacts DEF SetupInv
    <3> QED BY <2>1, <3>1, <3>2, <3>3, <3>4 DEF SetupInv
  <2> QED
    BY <2>1, <2>2, <2>3
    DEF ServiceInv, TeardownInv, TearingDown, OnlyPausedLeft
<1>4. CASE StartNodesReturns
  <2>1. driver' = "settle" /\ driver = "start" /\ place \notin Node
        /\ killers' = Node
        /\ UNCHANGED <<place, hosts, running, container, child, todo, calls,
                       attached, addressed, tmpfs>>
    BY <1>4 DEF StartNodesReturns, childVars, nodeVars
  <2>2. ChildInv'
    BY <1>0, <2>1 DEF ChildInv
  <2>3. SetupInv'
    <3>1. netBound'
      BY <1>0, <1>4 DEF StartNodesReturns, SetupInv
    <3>2. place = Size + 1
      BY <1>0, <2>1, NodeFacts DEF TypeOK
    <3>3. /\ hosts = Node /\ running = Node
          /\ attached = Node /\ addressed = Node
          /\ \A n \in Node : container[n] = "running"
          /\ \A n \in Node : n < place => n \in tmpfs
      BY <1>0, <2>1 DEF SetupInv
    <3> QED BY <2>1, <3>1, <3>2, <3>3 DEF SetupInv
  <2> QED
    BY <2>1, <2>2, <2>3
    DEF ServiceInv, TeardownInv, TearingDown, OnlyPausedLeft
<1>5. CASE StartTest
  <2>1. driver' = "join" /\ driver = "settle" /\ child' = "prepare"
        /\ UNCHANGED <<killers, place, hosts, running, container, todo, calls,
                       attached, addressed, tmpfs, saved, replaced>>
    BY <1>5 DEF StartTest, nodeVars
  <2>2. ChildInv' /\ SetupInv'
    BY <1>0, <2>1 DEF ChildInv, SetupInv
  <2>3. ServiceInv'
    <3>1. netBound'
      BY <1>0, <1>5 DEF StartTest, SetupInv
    <3>2. killers = Node /\ hosts = Node /\ todo = <<>>
      BY <1>0, <2>1 DEF SetupInv, ChildInv
    <3>3. \A n \in Node : Settled(n)
      BY <1>0, <2>1, NodeFacts DEF SetupInv, Settled
    <3>4. \A n \in Node : Settled(n)'
      BY <2>1, <3>3 DEF Settled
    <3> QED BY <2>1, <3>1, <3>2, <3>4 DEF ServiceInv
  <2> QED
    BY <2>1, <2>2, <2>3 DEF TeardownInv, TearingDown, OnlyPausedLeft
<1>6. CASE SetupRaises
  <2>1. driver' = "handler" /\ driver \in {"create", "start", "settle"}
        /\ place' = 1
        /\ UNCHANGED <<killers, hosts, container, child, todo>>
    BY <1>6 DEF SetupRaises, childVars, nodeVars
  <2>2. ChildInv' /\ SetupInv' /\ ServiceInv'
    BY <1>0, <2>1 DEF ChildInv, SetupInv, ServiceInv
  <2>3. netBound' = netBound
    BY <1>6 DEF SetupRaises
  <2>4. TeardownInv'
    <3>1. CASE driver = "create"
      <4>1. ~netBound'
        BY <1>0, <2>3, <3>1, Zenon DEF SetupInv
      <4> QED BY <2>1, <4>1 DEF TeardownInv, TearingDown, OnlyPausedLeft
    <3>2. CASE driver \in {"start", "settle"}
      <4>1. hosts = Node /\ killers \in {{}, Node}
            /\ \A n \in Node : container[n] = "running"
        BY <1>0, <3>2 DEF SetupInv
      <4>2. \A n \in Node : ~(n < place')
        BY <2>1, NodeFacts
      <4> QED BY <2>1, <4>1, <4>2 DEF TeardownInv, TearingDown, OnlyPausedLeft
    <3> QED BY <2>1, <3>1, <3>2
  <2> QED BY <2>2, <2>4
<1>7. CASE JoinEnds
  <2>1. driver' = "finally" /\ driver = "join" /\ place' = 1
        /\ child' \in {"done", "died", "terminated"}
        /\ UNCHANGED <<killers, hosts, container>>
    BY <1>7 DEF JoinEnds, nodeVars
  <2>2. ChildInv' /\ SetupInv' /\ ServiceInv'
    BY <2>1 DEF ChildInv, SetupInv, ServiceInv
  <2>3. \A n \in Node : container[n] # "none"
    BY <1>0, <2>1 DEF ServiceInv, Current, Settled
  <2>4. \A n \in Node : ~(n < place')
    BY <2>1, NodeFacts
  <2>5. killers = Node
    BY <1>0, <2>1 DEF ServiceInv
  <2> QED
    BY <2>1, <2>2, <2>3, <2>4, <2>5
    DEF TeardownInv, TearingDown, OnlyPausedLeft
<1>8. CASE Kill
  <2>1. driver \in {"handler", "finally"} /\ driver' = driver
        /\ place \in killers /\ container[place] # "none"
        /\ container' = Removed({place}) /\ hosts' = hosts \ {place}
        /\ place' = place + 1 /\ UNCHANGED <<killers, child, todo>>
    BY <1>8 DEF Kill, TearingDown, childVars
  <2>2. ChildInv' /\ SetupInv' /\ ServiceInv'
    BY <1>0, <2>1 DEF ChildInv, SetupInv, ServiceInv
  <2>3. netBound' = netBound
    BY <1>8 DEF Kill
  <2>4. ASSUME netBound
        PROVE  killers = Node /\ \A n \in Node : container[n] = "none"
                                                 <=> n < place
    BY <1>0, <2>1, <2>4 DEF TeardownInv, TearingDown, TypeOK
  <2>5. ASSUME netBound
        PROVE  \A n \in Node : container'[n] = "none" <=> n < place'
    <3>1. place \in Node
      BY <1>0, <2>1 DEF TypeOK
    <3>2. \A n \in Node : container'[n] = IF n = place THEN "none"
                                          ELSE container[n]
      BY <2>1 DEF Removed
    <3>3. \A n \in Node : n < place + 1 <=> (n < place \/ n = place)
      BY <3>1, NodeFacts
    <3> QED BY <2>1, <2>4, <2>5, <3>2, <3>3
  <2>6. TeardownInv'
    BY <2>1, <2>3, <2>4, <2>5 DEF TeardownInv, TearingDown, OnlyPausedLeft
  <2> QED BY <2>2, <2>6
<1>9. CASE KillHangs
  <2>1. /\ driver' = "hung" /\ TearingDown
        /\ place \in killers /\ container[place] \notin {"none", "running"}
        /\ UNCHANGED <<place, container, child, todo>>
    BY <1>9 DEF KillHangs, PromptComes, childVars, nodeVars
  <2>2. netBound' = netBound
    BY <1>9 DEF KillHangs
  <2>3. ASSUME netBound
        PROVE  /\ container[place] = "exited"
               /\ \A n \in Node : container[n] = "none" <=> n < place
    <3>1. place \in Node
      BY <1>0, <2>1 DEF TypeOK
    <3>2. container[place] = "exited"
      BY <1>0, <2>1, <3>1 DEF TypeOK
    <3> QED BY <1>0, <2>1, <2>3, <3>1, <3>2 DEF TeardownInv
  <2>4. \A n \in Node : n >= place <=> ~(n < place)
    BY <1>0, NodeFacts DEF TypeOK
  <2>5. TeardownInv'
    BY <2>1, <2>2, <2>3, <2>4 DEF TeardownInv, TearingDown, OnlyPausedLeft
  <2>6. ChildInv' /\ SetupInv' /\ ServiceInv'
    BY <1>0, <2>1 DEF ChildInv, SetupInv, ServiceInv, TearingDown
  <2> QED BY <2>5, <2>6
<1>10. CASE KillRaises
  <2>1. driver \in {"handler", "finally"} /\ driver' \in {"finally", "ended"}
        /\ place \in killers /\ container[place] = "none"
        /\ UNCHANGED <<killers, child, todo, container>>
    BY <1>10 DEF KillRaises, TearingDown, AfterRaise, childVars, nodeVars
  <2>2. ChildInv' /\ SetupInv' /\ ServiceInv'
    BY <1>0, <2>1 DEF ChildInv, SetupInv, ServiceInv
  <2>3. netBound' = netBound
    BY <1>10 DEF KillRaises
  <2>4. ASSUME netBound
        PROVE  \A n \in Node : container[n] = "none"
    <3>1. place \in Node /\ ~(place < place)
      BY <1>0, <2>1 DEF TypeOK
    <3> QED BY <1>0, <2>1, <2>4, <3>1 DEF TeardownInv, TearingDown
  <2>5. TeardownInv'
    BY <2>1, <2>3, <2>4 DEF TeardownInv, TearingDown, OnlyPausedLeft
  <2> QED BY <2>2, <2>5
<1>11. CASE NetStop
  <2> DEFINE live == {n \in hosts : container[n] = "running"}
  <2>1. driver \in {"handler", "finally"} /\ driver' \in {"finally", "ended"}
        /\ place \notin killers /\ container' = Removed(live)
        /\ UNCHANGED <<killers, child, todo>>
    BY <1>11 DEF NetStop, TearingDown, AfterRaise, childVars
  <2>2. ChildInv' /\ SetupInv' /\ ServiceInv'
    BY <1>0, <2>1 DEF ChildInv, SetupInv, ServiceInv
  <2>3. netBound
    BY <1>11 DEF NetStop
  <2>4. \A n \in Node : container'[n] = "none"
    <3>1. CASE \A n \in Node : container[n] = "none"
      BY <2>1, <3>1 DEF Removed
    <3>2. CASE hosts = Node /\ \A n \in Node : container[n] = "running"
      BY <2>1, <3>2 DEF Removed
    <3>3. CASE killers = Node
               /\ \A n \in Node : container[n] = "none" <=> n < place
      <4>1. \A n \in Node : n < place
        BY <1>0, <2>1, <3>3, NodeFacts DEF TypeOK
      <4> QED BY <3>1, <3>3, <4>1
    <3> QED BY <1>0, <2>1, <2>3, <3>1, <3>2, <3>3 DEF TeardownInv, TearingDown
  <2>5. TeardownInv'
    BY <2>4 DEF TeardownInv, OnlyPausedLeft
  <2> QED BY <2>2, <2>5
<1>12. CASE NetUnbound
  <2>1. driver \in {"handler", "finally"} /\ driver' \in {"finally", "ended"}
        /\ UNCHANGED <<child, todo>>
    BY <1>12 DEF NetUnbound, TearingDown, AfterRaise, childVars
  <2>2. ChildInv' /\ SetupInv' /\ ServiceInv'
    BY <1>0, <2>1 DEF ChildInv, SetupInv, ServiceInv
  <2>3. ~netBound'
    BY <1>12 DEF NetUnbound
  <2>4. TeardownInv'
    BY <2>3 DEF TeardownInv, OnlyPausedLeft
  <2> QED BY <2>2, <2>4
<1> QED
  BY <1>1, <1>2, <1>3, <1>4, <1>5, <1>6, <1>7, <1>8, <1>9, <1>10, <1>11,
     <1>12 DEF DriverStep

-----------------------------------------------------------------------------
(***************************************************************************)
(* The test process.  It runs only while the driver joins it.              *)
(***************************************************************************)
\* A step of the test process that touches no node and is in no call.
LEMMA ServiceKept ==
  ASSUME Inv, driver = "join", driver' = driver,
         child' \in {"prepare", "test", "collect", "died", "done"},
         child' = "prepare" => child = "prepare",
         UNCHANGED <<killers, hosts, todo, running, replaced>>,
         UNCHANGED <<container, attached, addressed, tmpfs, saved>>,
         netBound' = netBound,
         calls' = calls \/ todo = <<>>
  PROVE  (ChildInv /\ SetupInv /\ ServiceInv /\ TeardownInv)'
<1>1. (ChildInv /\ SetupInv /\ TeardownInv)'
  BY DEF Inv, ChildInv, SetupInv, TeardownInv, TearingDown, OnlyPausedLeft
<1>2. netBound' /\ killers' = Node /\ hosts' = Node
  BY DEF Inv, ServiceInv
<1>3. todo' # <<>> => calls' # <<>>
  BY DEF Inv, ServiceInv
<1>4. \A n \in Node : (Settled(n) <=> Settled(n)') /\ (Current(n) <=> Current(n)')
  BY DEF Settled, Current
<1>5. \A n \in Node : IF todo' # <<>> /\ n = Head(calls')[2]
                      THEN Current(n)' ELSE Settled(n)'
  BY <1>4 DEF Inv, ServiceInv
<1> QED BY <1>1, <1>2, <1>3, <1>5 DEF ServiceInv

\* A command does its part and leaves the other nodes alone.
LEMMA CommandInv ==
  ASSUME Inv, NEW op, NEW n \in Node, Command(op, n),
         \A m \in Node \ {n} : Settled(m) => Settled(m)',
         Current(n) => IF todo' = <<>> THEN Settled(n)' ELSE Current(n)'
  PROVE  (ChildInv /\ SetupInv /\ ServiceInv /\ TeardownInv)'
<1>0. TypeOK /\ ServiceInv /\ ChildInv
  BY DEF Inv
<1>1. driver = "join" /\ calls # <<>> /\ n = Head(calls)[2]
      /\ todo # <<>> /\ todo' = Tail(todo)
  BY <1>0, CommandType
<1>2. driver' = "join" /\ child' = "test"
      /\ UNCHANGED <<killers, hosts>> /\ netBound' = netBound
      /\ calls' = (IF todo' = <<>> THEN Tail(calls) ELSE calls)
  BY <1>1 DEF Command
<1>3. (ChildInv /\ SetupInv /\ TeardownInv)'
  BY <1>2 DEF ChildInv, SetupInv, TeardownInv, TearingDown, OnlyPausedLeft
<1>4. netBound' /\ killers' = Node /\ hosts' = Node
  BY <1>0, <1>1, <1>2 DEF ServiceInv
<1>5. Current(n) /\ \A m \in Node \ {n} : Settled(m)
  BY <1>0, <1>1 DEF ServiceInv
<1>6. \A m \in Node : IF todo' # <<>> /\ m = Head(calls')[2]
                      THEN Current(m)' ELSE Settled(m)'
  <2>1. CASE todo' = <<>>
    BY <1>5, <2>1
  <2>2. CASE todo' # <<>>
    <3>1. Head(calls')[2] = n
      BY <1>1, <1>2, <2>2
    <3> QED BY <1>5, <2>2, <3>1
  <2> QED BY <2>1, <2>2
<1>7. todo' # <<>> => calls' # <<>>
  BY <1>1, <1>2
<1> QED BY <1>2, <1>3, <1>4, <1>6, <1>7 DEF ServiceInv

\* The commands on a node keep the invariant.
LEMMA CommandsInv ==
  ASSUME Inv, NEW n \in Node,
         \/ Backup(n) \/ StopCapture(n) \/ RemoveHost(n) \/ Reload(n)
         \/ Restore(n) \/ Relink(n) \/ Capture(n)
  PROVE  (ChildInv /\ SetupInv /\ ServiceInv /\ TeardownInv)'
<1>0. TypeOK /\ ServiceInv /\ ChildInv
  BY DEF Inv
<1> DEFINE Others == \A m \in Node \ {n} : Settled(m) => Settled(m)'
           Own == Current(n) => IF todo' = <<>> THEN Settled(n)'
                                ELSE Current(n)'
<1>1. CASE Backup(n)
  <2>1. Command("backup", n)
    BY <1>1 DEF Backup
  <2>2. todo = Pause3 /\ todo' = Pause2 /\ todo' # <<>>
    BY <1>0, <2>1, CommandType, RestFacts DEF TypeOK, Rests
  <2>3. UNCHANGED <<running, replaced, container, attached, addressed,
                       tmpfs>>
        /\ saved' = (IF n \in tmpfs THEN saved \cup {n} ELSE saved \ {n})
    BY <1>1 DEF Backup
  <2>4. Others
    BY <2>3 DEF Settled
  <2>5. Own
    <3>1. SUFFICES ASSUME Current(n) PROVE Current(n)'
      BY <2>2
    <3>2. Settled(n) /\ n \in running
      BY <2>2, <3>1, RestFacts DEF Current
    <3> QED BY <2>2, <2>3, <3>2 DEF Current, Settled
  <2> QED BY <2>1, <2>4, <2>5, CommandInv
<1>2. CASE StopCapture(n)
  <2>1. Command("uncapture", n)
    BY <1>2 DEF StopCapture
  <2>2. todo = Pause2 /\ todo' = Pause1 /\ todo' # <<>>
    BY <1>0, <2>1, CommandType, RestFacts DEF TypeOK, Rests
  <2>3. UNCHANGED <<running, replaced, container, attached, addressed,
                    tmpfs, saved>>
    BY <1>2 DEF StopCapture
  <2>4. \A m \in Node : Settled(m) <=> Settled(m)'
    BY <2>3 DEF Settled
  <2>5. Own
    <3>1. SUFFICES ASSUME Current(n) PROVE Current(n)'
      BY <2>2
    <3>2. Settled(n) /\ n \in saved
      BY <2>2, <3>1, RestFacts DEF Current
    <3> QED BY <2>2, <2>3, <2>4, <3>2 DEF Current
  <2> QED BY <2>1, <2>4, <2>5, CommandInv
<1>3. CASE RemoveHost(n)
  <2>1. Command("remove", n)
    BY <1>3 DEF RemoveHost
  <2>2. todo = Pause1 /\ todo' = <<>>
    BY <1>0, <2>1, CommandType, RestFacts DEF TypeOK, Rests
  <2>3. /\ container' = [container EXCEPT ![n] = "exited"]
        /\ attached' = attached \ {n} /\ tmpfs' = tmpfs \ {n}
        /\ addressed' = addressed \ {n}
        /\ running' = running \ {n} /\ UNCHANGED <<saved, replaced>>
    BY <1>3 DEF RemoveHost, Lose
  <2>4. Others
    BY <1>0, <2>3 DEF Settled, TypeOK
  <2>5. Own
    <3>1. SUFFICES ASSUME Current(n) PROVE Settled(n)'
      BY <2>2
    <3>2. n \in saved
      BY <2>2, <3>1, RestFacts DEF Current
    <3> QED BY <1>0, <2>3, <3>2 DEF Settled, TypeOK
  <2> QED BY <2>1, <2>4, <2>5, CommandInv
<1>4. CASE Reload(n)
  <2>1. Command("reload", n)
    BY <1>4 DEF Reload
  <2>2. todo = Restart4 /\ todo' = Restart3 /\ todo' # <<>>
    BY <1>0, <2>1, CommandType, RestFacts DEF TypeOK, Rests
  <2>3. /\ container[n] \in {"none", "exited"}
        /\ container' = [container EXCEPT ![n] = "running"]
        /\ tmpfs' = tmpfs \ {n}
        /\ UNCHANGED <<running, replaced, attached, addressed, saved>>
    BY <1>4 DEF Reload, NameIsUsable, Launch
  <2>4. Others
    BY <1>0, <2>3 DEF Settled, TypeOK
  <2>5. Own
    <3>1. SUFFICES ASSUME Current(n) PROVE Current(n)'
      BY <2>2
    <3>2. Settled(n)
      BY <2>2, <3>1, RestFacts DEF Current
    <3>3. n \in saved
      BY <2>3, <3>2 DEF Settled
    <3>4. container'[n] = "running"
      BY <1>0, <2>3 DEF TypeOK
    <3> QED BY <2>2, <2>3, <3>3, <3>4 DEF Current
  <2> QED BY <2>1, <2>4, <2>5, CommandInv
<1>5. CASE Restore(n)
  <2>1. Command("restore", n)
    BY <1>5 DEF Restore
  <2>2. todo = Restart3 /\ todo' = Restart2 /\ todo' # <<>>
    BY <1>0, <2>1, CommandType, RestFacts DEF TypeOK, Rests
  <2>3. /\ tmpfs' = (IF n \in saved THEN tmpfs \cup {n} ELSE tmpfs)
        /\ UNCHANGED <<running, replaced, container, attached, addressed,
                        saved>>
    BY <1>5 DEF Restore
  <2>4. Others
    BY <2>3 DEF Settled
  <2>5. Own
    <3>1. SUFFICES ASSUME Current(n) PROVE Current(n)'
      BY <2>2
    <3>2. container[n] = "running" /\ n \in saved
      BY <2>2, <3>1, RestFacts DEF Current
    <3> QED BY <2>2, <2>3, <3>2 DEF Current
  <2> QED BY <2>1, <2>4, <2>5, CommandInv
<1>6. CASE Relink(n)
  <2>1. Command("relink", n)
    BY <1>6 DEF Relink
  <2>2. todo = Restart2 /\ todo' = Restart1 /\ todo' # <<>>
    BY <1>0, <2>1, CommandType, RestFacts DEF TypeOK, Rests
  <2>3. /\ attached' = attached \cup {n}
        /\ replaced' = replaced \cup {n}
        /\ UNCHANGED <<running, container, addressed, tmpfs, saved>>
    BY <1>6 DEF Relink
  <2>4. Others
    BY <2>3 DEF Settled
  <2>5. Own
    <3>1. SUFFICES ASSUME Current(n) PROVE Current(n)'
      BY <2>2
    <3>2. container[n] = "running" /\ n \in tmpfs
      BY <2>2, <3>1, RestFacts DEF Current
    <3>3. Settled(n)'
      BY <2>3, <3>2 DEF Settled
    <3> QED BY <2>2, <3>3 DEF Current
  <2> QED BY <2>1, <2>4, <2>5, CommandInv
<1>7. CASE Capture(n)
  <2>1. Command("capture", n)
    BY <1>7 DEF Capture
  <2>2. todo = Restart1 /\ todo' = <<>>
    BY <1>0, <2>1, CommandType, RestFacts, ZenonT(40) DEF TypeOK, Rests
  <2>3. UNCHANGED <<running, replaced, container, attached, addressed,
                    tmpfs, saved>>
    BY <1>7 DEF Capture
  <2>4. \A m \in Node : Settled(m) <=> Settled(m)'
    BY <2>3 DEF Settled
  <2>5. Own
    BY <2>2, <2>4, RestFacts DEF Current
  <2> QED BY <2>1, <2>4, <2>5, CommandInv
<1> QED BY <1>1, <1>2, <1>3, <1>4, <1>5, <1>6, <1>7

\* A call begins with all nodes settled.
LEMMA CallFaultInv ==
  ASSUME Inv, CallFault
  PROVE  (ChildInv /\ SetupInv /\ ServiceInv /\ TeardownInv)'
<1>0. TypeOK /\ ServiceInv /\ ChildInv
  BY DEF Inv
<1>1. child = "test" /\ todo = <<>> /\ calls # <<>>
      /\ todo' = CommandsOf(Head(calls)) /\ child' = child
      /\ calls' = (IF todo' = <<>> THEN Tail(calls) ELSE calls)
      /\ UNCHANGED <<driver, killers, hosts, running, replaced>>
      /\ UNCHANGED <<container, attached, addressed, tmpfs, saved>>
  BY DEF CallFault, driverVars, nodeVars
<1>2. netBound' = netBound
  BY DEF CallFault, driverVars
<1>3. driver = "join"
  BY <1>0, <1>1 DEF ChildInv
<1>4. (ChildInv /\ SetupInv /\ TeardownInv)'
  BY <1>1, <1>3 DEF ChildInv, SetupInv, TeardownInv, TearingDown,
                    OnlyPausedLeft
<1>5. netBound' /\ killers' = Node /\ hosts' = Node
  BY <1>0, <1>1, <1>2, <1>3 DEF ServiceInv
<1>6. \A m \in Node : Settled(m) /\ Settled(m)'
  <2>1. \A m \in Node : Settled(m)
    BY <1>0, <1>1, <1>3 DEF ServiceInv
  <2> QED BY <1>1, <2>1 DEF Settled
<1>7. Head(calls) \in Call
  BY <1>0, <1>1 DEF TypeOK
<1>8. /\ todo' \in {<<>>, Pause3, Restart4}
      /\ todo' = Pause3 => Head(calls)[2] \in running
  BY <1>1, <1>7, CommandsOfType
<1>9. \A m \in Node : IF todo' # <<>> /\ m = Head(calls')[2]
                      THEN Current(m)' ELSE Settled(m)'
  BY <1>1, <1>6, <1>8 DEF Current
<1>10. todo' # <<>> => calls' # <<>>
  BY <1>1
<1> QED BY <1>1, <1>3, <1>4, <1>5, <1>9, <1>10 DEF ServiceInv

\* Steps of the test's process keep the invariant.
LEMMA ChildStepInv ==
  ASSUME Inv, ChildStep
  PROVE  (ChildInv /\ SetupInv /\ ServiceInv /\ TeardownInv)'
<1>0. child \in {"prepare", "test", "collect"} => driver = "join"
  BY DEF Inv, ChildInv
<1>1. CASE PrepareNode
  BY <1>0, <1>1, ServiceKept DEF PrepareNode, driverVars
<1>2. CASE TestRuns
  <2>1. todo = <<>>
    BY <1>2 DEF TestRuns, Inv, ChildInv
  <2> QED BY <1>0, <1>2, <2>1, ServiceKept DEF TestRuns, driverVars, nodeVars
<1>3. CASE CallFault
  BY <1>3, CallFaultInv
<1>4. ASSUME NEW n \in Node,
             \/ Backup(n) \/ StopCapture(n) \/ RemoveHost(n) \/ Reload(n)
             \/ Restore(n) \/ Relink(n) \/ Capture(n)
      PROVE  (ChildInv /\ SetupInv /\ ServiceInv /\ TeardownInv)'
  BY <1>4, CommandsInv
<1>5. CASE TestRaises
  BY <1>0, <1>5, ServiceKept DEF TestRaises, driverVars, nodeVars
<1>6. CASE TestEnds
  BY <1>0, <1>6, ServiceKept DEF TestEnds, driverVars, nodeVars
<1>7. CASE CollectNode
  BY <1>0, <1>7, ServiceKept DEF CollectNode, driverVars
<1>8. CASE CollectRaises
  BY <1>0, <1>8, ServiceKept DEF CollectRaises, driverVars
<1>9. CASE MoveLogs
  BY <1>0, <1>9, ServiceKept DEF MoveLogs, driverVars, nodeVars
<1> QED
  BY <1>1, <1>2, <1>3, <1>4, <1>5, <1>6, <1>7, <1>8, <1>9, Zenon
  DEF ChildStep

-----------------------------------------------------------------------------
\* Nothing changes when nothing happens.
LEMMA Stutter == Inv /\ UNCHANGED vars => Inv'
<1> SUFFICES ASSUME Inv, UNCHANGED vars PROVE Inv'
  OBVIOUS
<1> USE DEF vars, driverVars, childVars, nodeVars
<1>1. TypeOK' /\ ChildInv'
  BY DEF Inv, TypeOK, ChildInv
<1>2. SetupInv'
  BY Zenon DEF Inv, SetupInv
<1>3. \A n : (Settled(n) <=> Settled(n)') /\ (Current(n) <=> Current(n)')
  BY DEF Settled, Current
<1>4. ServiceInv'
  BY <1>3, Zenon DEF Inv, ServiceInv
<1>5. TeardownInv'
  BY Zenon DEF Inv, TeardownInv, TearingDown, OnlyPausedLeft
<1> QED BY <1>1, <1>2, <1>4, <1>5 DEF Inv

\* Every step of the driver, the test and the nodes keeps the invariant.
THEOREM Invariant == Spec => []Inv
<1>1. Inv /\ [Next]_vars => Inv'
  <2> SUFFICES ASSUME Inv, [Next]_vars PROVE Inv'
    OBVIOUS
  <2>1. CASE DriverStep
    BY <2>1, DriverType, DriverInv DEF Inv
  <2>2. CASE ChildStep
    BY <2>2, ChildType, ChildStepInv DEF Inv
  <2>3. CASE UNCHANGED vars
    BY <2>3, Stutter
  <2> QED BY <2>1, <2>2, <2>3 DEF Next
<1> QED BY InitInv, <1>1, PTL DEF Spec

(* Nodes, places and calls stay in the cluster, whatever raises and        *)
(* whenever the test process is terminated (__main__.py, reckon_types.py). *)
THEOREM TypeCorrect == Spec => []TypeOK
<1>1. Inv => TypeOK
  BY DEF Inv
<1> QED BY Invariant, <1>1, PTL

(* When the driver has ended, or hangs, and setup() had returned the net,  *)
(* the handler and the finally block of __main__.py have removed every     *)
(* container, whatever raised in between and wherever the test process was *)
(* terminated, but for a paused one whose prompt a killer waits for and    *)
(* the ones after it.                                                      *)
THEOREM TeardownLeavesPaused == Spec => []OnlyPausedLeft
<1>1. Inv => OnlyPausedLeft
  BY DEF Inv, TeardownInv
<1> QED BY Invariant, <1>1, PTL

(* Between two calls of stoppers and restarters a container that runs has  *)
(* its link and the files of its tmpfs mounts, KubeNode's pause saves what *)
(* its restart puts back; and no node but a restarted one has lost its     *)
(* address.                                                                *)
THEOREM RunningHasLinkAndFiles == Spec => []LinkAndFilesBack
<1>1. Inv => LinkAndFilesBack
  BY DEF Inv, ServiceInv, LinkAndFilesBack, BetweenCalls, Settled
<1> QED BY Invariant, <1>1, PTL

=============================================================================
