------------------------------- MODULE Faults -------------------------------
(***************************************************************************)
(* Fault injection: the failure generators of reckon/failures, applied by  *)
(* the execute thread of reckon/client_runner.py one after the other, with *)
(* the thread that the intermittent generators start beside it.            *)
(*                                                                         *)
(* A partition is made of packet filter rules.  partition(host, remote)    *)
(* inserts a rule at the head of host's OUTPUT chain and appends host to   *)
(* the list shared.partitioned; removal deletes rule number 1 of every     *)
(* host in that list, once per entry, whatever rule that is.  Chains are   *)
(* sequences of destinations, and hosts in Firewalled start with a rule of *)
(* their own (kube-proxy's, say), which is written 0.                      *)
(*                                                                         *)
(* The servers, and get_leader, are those of module Servers.  After it has *)
(* asked for the leader and built its lists, a fault is a fixed sequence   *)
(* of commands, run one at a time while leaders come and go.               *)
(***************************************************************************)
EXTENDS Servers

AllFailureTypes ==
  {"none", "leader", "leader-recovery", "partial-partition",
   "intermittent-partial", "intermittent-full", "k8s_cp_offline",
   "k8s_wn_offline", "k8s_leadreg_offline", "kill-n", "stat"}

\* Set-ups name the failure types to explore with them.
ASSUME FailureAssumption ==
  \A c \in Clusters : c.failures \subseteq AllFailureTypes

VARIABLES
  failure,      \* failure_type, fixed for the test
  next,         \* place of the current fault in the schedule
  exec,         \* program point of the execute thread
  todo,         \* commands left of the fault it is applying
  thread,       \* program point of the generator's own thread
  tloop,        \* the partition commands of that thread's loop body
  ttodo,        \* commands left of what that thread is doing
  rules,        \* per host, the OUTPUT chain
  partitioned,  \* shared.partitioned
  killed        \* Recovery.killed

vars == <<failure, next, exec, todo, thread, tloop, ttodo, rules,
          partitioned, killed, cluster, serverVars, askVars>>
netVars == <<rules, partitioned, killed, serverVars>>
threadVars == <<thread, tloop, ttodo>>

-----------------------------------------------------------------------------
(***************************************************************************)
(* Lists in cluster order, and the list that each generator returns.       *)
(***************************************************************************)
IndexIn(S, h) == Cardinality({g \in S : g <= h})
InOrder(S) ==
  [k \in 1..Cardinality(S) |-> CHOOSE h \in S : IndexIn(S, h) = k]
First(S) == InOrder(S)[1]

Schedule ==
  CASE failure = "none" -> <<"null", "null">>
    [] failure = "leader" -> <<"null", "kill_leader", "null">>
    [] failure = "leader-recovery" ->
         <<"null", "kill_leader", "recover", "null">>
    [] failure = "kill-n" -> <<"null", "kill_n", "null">>
    [] failure = "stat" -> <<"null", "stat", "stat">>
    [] OTHER -> <<"null", "create", "remove", "null">>

Fault == Schedule[next]

\* The commands that faults are made of.
Drop(host, remote) == [op |-> "drop", host |-> host, remote |-> remote]
Undo(host) == [op |-> "undo", host |-> host]
Clear == [op |-> "clear"]
Stop(host) == [op |-> "stop", host |-> host]
Start(host) == [op |-> "start", host |-> host]
Record(host) == [op |-> "record", host |-> host]
OutOfRange == [op |-> "raise"]

Between(a, b) == <<Drop(a, b), Drop(b, a)>>

\* A loop over hosts whose body gives n commands for each.
ForEach(hosts, n, Body(_)) ==
  [j \in 1..(n * Len(hosts)) |->
     Body(hosts[(j - 1) \div n + 1])[((j - 1) % n) + 1]]

\* Mutant: the leader is separated from every other host.
PartialCut_All(l) ==
  ForEach(InOrder(Host \ {l}), 2, LAMBDA h : Between(l, h))

\* partial-partition and intermittent-partial: the leader and the first
\* other host of the cluster.
PartialCut(l) == Between(l, First(Host \ {l}))

\* k8s_cp_offline and k8s_wn_offline: one host from all others.
IsolateCut(target) ==
  ForEach(InOrder(Host \ {target}), 2, LAMBDA h : Between(h, target))

\* Mutant: always the first worker.
RegionCut_FirstWorker(l) ==
  LET w == InOrder(Workers)[1]
  IN ForEach(InOrder(Host \ {l, w}), 4,
             LAMBDA h : Between(l, h) \o Between(w, h))

\* k8s_leadreg_offline: the leader and the worker of the same rank from
\* all other hosts.
RegionCut(l) ==
  LET w == InOrder(Workers)[IndexIn(Members, l)]
  IN ForEach(InOrder(Host \ {l, w}), 4,
             LAMBDA h : Between(l, h) \o Between(w, h))

\* Mutant: partitioned is a set, so each host is healed once.
HealAll_OncePerHost ==
  LET hosts == InOrder({partitioned[k] : k \in 1..Len(partitioned)})
  IN [k \in 1..Len(hosts) |-> Undo(hosts[k])] \o <<Clear>>

\* remove_partition and heal_partition, over the list as it is.
HealAll == [k \in 1..Len(partitioned) |-> Undo(partitioned[k])] \o <<Clear>>

-----------------------------------------------------------------------------
(***************************************************************************)
(* What one command does.                                                  *)
(***************************************************************************)
InsertRule(host, remote) ==
  /\ rules' = [rules EXCEPT ![host] = <<remote>> \o @]
  /\ partitioned' = Append(partitioned, host)
  /\ UNCHANGED <<killed, serverVars>>

\* iptables -D OUTPUT 1; on an empty chain it fails and nobody notices.
DeleteRule(host) ==
  /\ rules' = [rules EXCEPT ![host] = IF @ = <<>> THEN @ ELSE Tail(@)]
  /\ UNCHANGED <<partitioned, killed, serverVars>>

Perform(c) ==
  \/ c.op = "drop" /\ InsertRule(c.host, c.remote)
  \/ c.op = "undo" /\ DeleteRule(c.host)
  \/ /\ c.op = "clear"
     /\ partitioned' = <<>>
     /\ UNCHANGED <<rules, killed, serverVars>>
  \/ /\ \/ c.op = "stop" /\ StopNode(c.host)
        \/ c.op = "start" /\ StartNode(c.host)
     /\ UNCHANGED <<rules, partitioned, killed>>
  \/ /\ c.op = "record"
     /\ killed' = c.host
     /\ UNCHANGED <<rules, partitioned, serverVars>>

-----------------------------------------------------------------------------
Init ==
  /\ ServersInit
  /\ failure \in cluster.failures
  /\ next = 1 /\ exec = "boot" /\ todo = <<>>
  /\ thread = "none" /\ tloop = <<>> /\ ttodo = <<>>
  /\ rules = [h \in Host |->
                IF h \in cluster.firewalled THEN <<0>> ELSE <<>>]
  /\ partitioned = <<>> /\ killed = NoHost

\* start_nodes starts the servers in the order of the list.
BootNode ==
  /\ exec = "boot" /\ up # Host
  /\ StartNode(First(Host \ up))
  /\ UNCHANGED <<failure, next, exec, todo, threadVars, rules, partitioned,
                 killed, cluster, askVars>>

BootEnds ==
  /\ exec = "boot" /\ up = Host
  /\ exec' = "apply"
  /\ UNCHANGED <<failure, next, todo, threadVars, netVars, cluster, askVars>>

(***************************************************************************)
(* A fault that needs the leader calls get_leader first.  Every system     *)
(* raises, or returns None and makes its caller raise, when it finds none. *)
(***************************************************************************)
AsksLeader ==
  \/ Fault = "kill_leader"
  \/ /\ Fault = "create"
     /\ failure \notin {"k8s_cp_offline", "k8s_wn_offline"}

unasked == <<failure, next, todo, threadVars, netVars, cluster>>

AskLeader ==
  /\ exec = "apply" /\ AsksLeader
  /\ exec' = "ask" /\ BeginAsk
  /\ UNCHANGED unasked

AskHost ==
  /\ exec = "ask" /\ ~AskOver
  /\ AskNext
  /\ UNCHANGED <<exec, unasked>>

AskReturns ==
  /\ exec = "ask" /\ AskOver
  /\ exec' = IF found = NoHost THEN "unanswered" ELSE "told"
  /\ UNCHANGED <<askVars, unasked>>

\* The list index of the fault's target is out of range.
ListTooShort ==
  \/ failure = "k8s_cp_offline" /\ Cardinality(Members) < 3
  \/ failure = "k8s_wn_offline" /\ Cardinality(Workers) < 3
  \/ /\ failure = "k8s_leadreg_offline" /\ exec = "told"
     /\ IndexIn(Members, found) > Cardinality(Workers)

\* apply_fault begins: the commands of the fault are settled.
Apply(fault, commands) ==
  /\ \/ exec = "apply" /\ ~AsksLeader
     \/ exec = "told"
  /\ Fault = fault
  /\ exec' = "fault" /\ todo' = commands
  /\ ForgetAnswer
  /\ UNCHANGED <<failure, next, netVars, cluster>>

ApplyNull == Apply("null", <<>>) /\ UNCHANGED threadVars

ApplyStat == Apply("stat", <<>>) /\ UNCHANGED threadVars

KillLeader ==
  /\ Apply("kill_leader", IF failure = "leader-recovery"
                          THEN <<Stop(found), Record(found)>>
                          ELSE <<Stop(found)>>)
  /\ UNCHANGED threadVars

Recover == Apply("recover", <<Start(killed)>>) /\ UNCHANGED threadVars

\* Mutant: indices from one.
KillN_FromOne ==
  /\ Apply("kill_n", [k \in 1..cluster.kills |->
                        IF k + 1 \in Host THEN Stop(k + 1) ELSE OutOfRange])
  /\ UNCHANGED threadVars

\* cluster[i] for i in range(n) raises past the end of the list.
KillN ==
  /\ Apply("kill_n", [k \in 1..cluster.kills |->
                        IF k \in Host THEN Stop(k) ELSE OutOfRange])
  /\ UNCHANGED threadVars

CreatePartition ==
  /\ failure = "partial-partition"
  /\ Apply("create", PartialCut(found))
  /\ UNCHANGED threadVars

CreateRegionOffline ==
  /\ failure = "k8s_leadreg_offline"
  /\ ~ListTooShort
  /\ Apply("create", RegionCut(found))
  /\ UNCHANGED threadVars

\* Mutant: `self.remove_partition' without a call.
RemovePartition_NotCalled ==
  /\ failure \in {"partial-partition", "k8s_leadreg_offline"}
  /\ Apply("remove", <<>>)
  /\ UNCHANGED threadVars

RemovePartition ==
  /\ failure \in {"partial-partition", "k8s_leadreg_offline"}
  /\ Apply("remove", HealAll)
  /\ UNCHANGED threadVars

\* The intermittent generators only start a thread, with the hosts to
\* separate fixed now.
SpawnPartial ==
  /\ failure = "intermittent-partial"
  /\ Apply("create", <<>>)
  /\ thread' = "test" /\ tloop' = PartialCut(found) /\ ttodo' = <<>>

SpawnFull ==
  /\ failure = "intermittent-full"
  /\ Apply("create", <<>>)
  /\ thread' = "test" /\ UNCHANGED <<tloop, ttodo>>

\* The third control plane, or the third worker.
SpawnOffline ==
  LET S == IF failure = "k8s_cp_offline" THEN Members ELSE Workers IN
  /\ failure \in {"k8s_cp_offline", "k8s_wn_offline"}
  /\ ~ListTooShort
  /\ Apply("create", <<>>)
  /\ thread' = "test" /\ tloop' = IsolateCut(InOrder(S)[3]) /\ ttodo' = <<>>

\* `self.remove_failure' without a call: nothing happens.
RemoveIntermittent ==
  /\ failure \in {"intermittent-partial", "intermittent-full",
                  "k8s_cp_offline", "k8s_wn_offline"}
  /\ Apply("remove", <<>>)
  /\ UNCHANGED threadVars

\* No leader is known, a list is too short, or a node gives no statistics:
\* apply_fault raises, which ends the execute thread.
ApplyRaises ==
  /\ \/ exec = "unanswered"
     \/ exec \in {"apply", "told"} /\ Fault = "create" /\ ListTooShort
     \/ exec = "apply" /\ Fault = "stat"
  /\ exec' = "raised"
  /\ UNCHANGED <<unasked, askVars>>

FaultStep ==
  /\ exec = "fault" /\ todo # <<>>
  /\ Perform(Head(todo))
  /\ todo' = Tail(todo)
  /\ UNCHANGED <<failure, next, exec, threadVars, cluster, askVars>>

FaultStepRaises ==
  /\ exec = "fault" /\ todo # <<>> /\ Head(todo) = OutOfRange
  /\ exec' = "raised"
  /\ UNCHANGED <<unasked, askVars>>

\* Mutant: the fault joins the thread it has started.
FaultEnds_JoinsThread ==
  /\ exec = "fault" /\ todo = <<>> /\ thread \in {"none", "dead"}
  /\ next' = next + 1
  /\ exec' = IF next = Len(Schedule) THEN "done" ELSE "sleep"
  /\ UNCHANGED <<failure, todo, threadVars, netVars, cluster, askVars>>

\* The fault is over: sleep until the time of the next one, if any.
FaultEnds ==
  /\ exec = "fault" /\ todo = <<>>
  /\ next' = next + 1
  /\ exec' = IF next = Len(Schedule) THEN "done" ELSE "sleep"
  /\ UNCHANGED <<failure, todo, threadVars, netVars, cluster, askVars>>

SleepEnds ==
  /\ exec = "sleep" /\ exec' = "apply"
  /\ UNCHANGED <<unasked, askVars>>

-----------------------------------------------------------------------------
(***************************************************************************)
(* The thread of the intermittent generators.                              *)
(***************************************************************************)
otherThanThread == <<failure, next, exec, todo, cluster, askVars>>

\* while not failure_fixed.isSet(): the event is never set.  In
\* intermittent-full self.shared does not exist and the thread dies here.
LoopTest ==
  /\ thread = "test"
  /\ IF failure = "intermittent-full"
     THEN thread' = "dead" /\ UNCHANGED ttodo
     ELSE thread' = "cut" /\ ttodo' = tloop
  /\ UNCHANGED <<otherThanThread, tloop, netVars>>

ThreadStep ==
  /\ thread \in {"cut", "heal"} /\ ttodo # <<>>
  /\ Perform(Head(ttodo))
  /\ ttodo' = Tail(ttodo)
  /\ UNCHANGED <<otherThanThread, thread, tloop>>

\* Mutant: every generator has the misspelt attribute.
CutDone_AlwaysDies ==
  /\ thread = "cut" /\ ttodo = <<>>
  /\ thread' = "dead"
  /\ UNCHANGED <<otherThanThread, tloop, ttodo, netVars>>

\* time.sleep(self.sleep_duration): intermittent-partial has no such
\* attribute (it is called _sleep_duration) and its thread dies here.
CutDone ==
  /\ thread = "cut" /\ ttodo = <<>>
  /\ thread' = IF failure = "intermittent-partial" THEN "dead" ELSE "hold"
  /\ UNCHANGED <<otherThanThread, tloop, ttodo, netVars>>

HoldEnds ==
  /\ thread = "hold"
  /\ thread' = "heal" /\ ttodo' = HealAll
  /\ UNCHANGED <<otherThanThread, tloop, netVars>>

HealDone ==
  /\ thread = "heal" /\ ttodo = <<>>
  /\ thread' = "pause"
  /\ UNCHANGED <<otherThanThread, tloop, ttodo, netVars>>

PauseEnds ==
  /\ thread = "pause" /\ thread' = "test"
  /\ UNCHANGED <<otherThanThread, tloop, ttodo, netVars>>

-----------------------------------------------------------------------------
\* The system under test elects, or loses, a leader at any moment; what a
\* call of get_leader under way could have seen is kept as its history.
Election ==
  /\ \E h \in Members : Elect(h) \/ StepDown(h)
  /\ IF exec = "ask"
     THEN Witness /\ UNCHANGED <<asked, found, best>>
     ELSE UNCHANGED askVars
  /\ UNCHANGED <<failure, next, exec, todo, threadVars, rules, partitioned,
                 killed, cluster>>

ExecuteStep ==
  \/ BootNode \/ BootEnds \/ AskLeader \/ AskHost \/ AskReturns
  \/ ApplyNull \/ ApplyStat \/ KillLeader \/ Recover \/ KillN
  \/ CreatePartition \/ CreateRegionOffline \/ RemovePartition
  \/ SpawnPartial \/ SpawnFull \/ SpawnOffline \/ RemoveIntermittent
  \/ ApplyRaises \/ FaultStep \/ FaultStepRaises \/ FaultEnds \/ SleepEnds

LoopStep ==
  \/ LoopTest \/ ThreadStep \/ CutDone \/ HoldEnds \/ HealDone \/ PauseEnds

Next == ExecuteStep \/ LoopStep \/ Election

Spec == Init /\ [][Next]_vars

\* Both threads are ordinary Python threads that get to run, and sleeps end.
FairSpec == Spec /\ WF_vars(ExecuteStep) /\ WF_vars(LoopStep)

-----------------------------------------------------------------------------
BaseRules ==
  [h \in Host |-> IF h \in cluster.firewalled THEN <<0>> ELSE <<>>]

\* Packets from a to b are dropped.
Drops(a, b) == \E k \in 1..Len(rules[a]) : rules[a][k] = b

Reaches(a, b) == a = b \/ (~Drops(a, b) /\ ~Drops(b, a))
Cut == \E a, b \in Host : Drops(a, b)

\* No thread is in the middle of changing rules.
Settled == todo = <<>> /\ ttodo = <<>>

(* remove_partition and heal_partition delete rule number 1 of a host once *)
(* per entry of shared.partitioned, without looking at the rule.  That     *)
(* takes away exactly the rules partition() put there: when the list is    *)
(* empty and nothing is under way, every chain is what it was before the   *)
(* test, the host's own rules included.                                    *)
ChainsRestored == Settled /\ partitioned = <<>> => rules = BaseRules

(* README.md:40: the partition is "removed at 2/3T".  Once the third fault *)
(* of a partial-partition or k8s_leadreg_offline test has been applied     *)
(* nothing is cut, for the rest of the test.                               *)
RemovedInTime ==
  /\ failure \in {"partial-partition", "k8s_leadreg_offline"}
  /\ next > 3
  => ~Cut

(* README.md:41: "The leader is always able to communicate with a majority *)
(* of nodes."  Under the partial partitions this is so of every leader,    *)
(* the one that was asked for and any that is elected afterwards.          *)
LeaderKeepsMajority ==
  /\ failure \in {"partial-partition", "intermittent-partial"}
  /\ leader # NoHost
  => 2 * Cardinality({m \in Members : Reaches(leader, m)})
       > Cardinality(Members)

(* While a k8s_leadreg_offline partition is in place the cluster has two   *)
(* sides, one control plane with the worker of its rank, and all the rest: *)
(* hosts of one side reach each other and none of the other side.          *)
RegionIsolated ==
  /\ failure = "k8s_leadreg_offline" /\ next = 3 /\ exec = "sleep"
  => \E l \in Members, w \in Workers :
       /\ IndexIn(Members, l) = IndexIn(Workers, w)
       /\ \A a, b \in Host :
            Reaches(a, b) <=> (a \in {l, w} <=> b \in {l, w})

(* The servers that are down when the execute thread has ended, whether it *)
(* carried out its schedule or raised on the way: the first n for kill-n,  *)
(* every one there is when n goes past the end of the list, no more than   *)
(* the one leader for leader, and none for any other failure type, however *)
(* often leadership moved between the kill and the recovery.               *)
DownAsAsked ==
  exec \in {"done", "raised"} =>
    CASE failure = "leader" -> Cardinality(Host \ up) <= 1
      [] failure = "kill-n" ->
           Host \ up = {h \in Host : h <= cluster.kills}
      [] OTHER -> up = Host

(* get_leader asks host after host while leadership moves.  The host a     *)
(* fault then acts on did call itself the leader at some moment of that    *)
(* call, or for ocons held the newest term: the answer is never made of    *)
(* pieces that were true at different times.                               *)
TargetHasLed ==
  exec = "told" /\ cluster.system # "conspire" => found \in claimed

(* When one host led, and no other claimed to, from the beginning of the   *)
(* call to its end, get_leader does not fail and names that host, wherever *)
(* it stands in the list.                                                  *)
SteadyLeaderFound ==
  /\ exec \in {"told", "unanswered"} /\ steady
  /\ cluster.system # "conspire"
  /\ cluster.system = "kubernetes" => 2 \in Members
  => found \in claimed /\ Cardinality(claimed) = 1

(* The execute thread, which run_test joins, ends. *)
ExecuteEnds == <>(exec \in {"done", "raised"})

OfflineTypes == {"k8s_cp_offline", "k8s_wn_offline"}

(* The fault thread of k8s_cp_offline and k8s_wn_offline cuts a node off   *)
(* and then sleeps before it heals (k8s_control_offline.py:60).  No cut    *)
(* lasts for ever: the node comes back, whatever becomes of the execute    *)
(* thread and wherever the leader goes.                                    *)
NodeComesBack == (failure \in OfflineTypes /\ Cut) ~> ~Cut

(* What a test does to the cluster it undoes again, but for kill-n: "The   *)
(* leader is killed at 1/3 of the duration (T), and recovers at 2/3T"      *)
(* (README.md:39), a partition is "injected at 1/3T and removed at 2/3T"   *)
(* (README.md:40), and the other partitions are "intermittent"             *)
(* (README.md:41) and have a fault of kind "remove" too                    *)
(* (k8s_control_offline.py:74).  So, once the schedule has been carried    *)
(* out, for good every server is up and nothing is cut.  It is violated in *)
(* three ways: leader has nothing that restarts the leader, the thread of  *)
(* intermittent-partial dies between its first cut and the heal, and those *)
(* of the offline types are never told to stop.                            *)
FaultsAreUndone ==
  (exec = "done" /\ failure # "kill-n") ~> [](up = Host /\ ~Cut)

=============================================================================
