------------------------------- MODULE Servers -------------------------------
(***************************************************************************)
(* The systems under test as reckon/systems drives them: start_nodes, the  *)
(* stoppers and restarters it returns, and get_leader, which each system   *)
(* answers in its own way while the servers go on electing leaders.        *)
(*                                                                         *)
(*   etcd        asks the hosts in turn for the status of every endpoint   *)
(*               and takes the first that says it leads                    *)
(*   zookeeper   asks every host for its own mode and takes the first      *)
(*               "Mode: leader" in the list                                *)
(*   ocons       searches every host's log for "leader for term N" and     *)
(*               takes the host with the highest N                         *)
(*   conspire    answers the first host without asking                     *)
(*   kubernetes  asks the second host for the status of every endpoint     *)
(*                                                                         *)
(* Hosts are their places in the list cluster.  How the servers elect is   *)
(* external: a leader needs a majority, and one that has been replaced may *)
(* not know it yet.                                                        *)
(***************************************************************************)
EXTENDS Integers, Sequences, FiniteSets

CONSTANTS
  Clusters,  \* the test set-ups to explore, as records
  MaxTerm    \* bound on the elections of ocons, whose log keeps their terms

Systems == {"etcd", "zookeeper", "ocons", "conspire", "kubernetes"}

ASSUME ClusterAssumption ==
  /\ MaxTerm \in Nat
  /\ \A c \in Clusters :
       /\ c.system \in Systems
       /\ c.hosts \in Nat \ {0, 1}
       /\ c.members \subseteq 1..c.hosts /\ c.members # {}
       /\ c.system # "kubernetes" => c.members = 1..c.hosts
       /\ c.workers \subseteq (1..c.hosts) \ c.members
       /\ c.firewalled \subseteq 1..c.hosts
       /\ c.kills \in Nat

VARIABLES
  cluster,  \* the set-up of this test
  up,       \* hosts whose server process runs
  leader,   \* the leader of the newest term
  stale,    \* former leaders that have not noticed they were replaced
  term,     \* the newest term
  logged,   \* per host, the highest "leader for term" its log file holds
  asked,    \* get_leader: how many hosts it has asked
  found,    \* get_leader: the best answer so far
  best,     \* get_leader of ocons: the term of that answer
  claimed,  \* history: the hosts that claimed to lead during the call
  steady    \* history: one host, and no other, claimed to lead all along

serverVars == <<up, leader, stale, term, logged>>
askVars == <<asked, found, best, claimed, steady>>

NoHost == 0
Host == 1..cluster.hosts
Members == cluster.members
Workers == cluster.workers
Majority(S) == 2 * Cardinality(S \cap Members) > Cardinality(Members)

\* The hosts that say they lead when asked.
Claims == ((stale \cup {leader}) \ {NoHost}) \cap up

ServersInit ==
  /\ cluster \in Clusters
  /\ up = {} /\ leader = NoHost /\ stale = {} /\ term = 0
  /\ logged = [h \in Host |-> 0]
  /\ asked = 0 /\ found = NoHost /\ best = 0 /\ claimed = {} /\ steady = FALSE

\* The variables of get_leader are local to the call.
ForgetAnswer ==
  /\ asked' = 0 /\ found' = NoHost /\ best' = 0
  /\ claimed' = {} /\ steady' = FALSE

-----------------------------------------------------------------------------
(***************************************************************************)
(* Processes.  A server runs in a screen session whose command redirects   *)
(* its standard error with 2>, so a restart empties the log; the data      *)
(* directory is kept, and etcd is told the cluster already exists.         *)
(***************************************************************************)
StartNode(host) ==
  /\ up' = up \cup {host}
  /\ logged' = [logged EXCEPT ![host] = 0]
  /\ UNCHANGED <<leader, stale, term>>

StopNode(host) ==
  /\ up' = up \ {host}
  /\ leader' = IF leader = host THEN NoHost ELSE leader
  /\ stale' = stale \ {host}
  /\ UNCHANGED <<term, logged>>

\* What a change of leadership adds to the history of a call of get_leader.
Witness ==
  /\ claimed' = claimed \cup Claims'
  /\ steady' = (steady /\ Claims' = Claims)

\* A member wins an election; the old leader may be slow to notice.
Elect(host) ==
  /\ host \in Members \cap up /\ Majority(up) /\ host # leader
  /\ cluster.system = "ocons" => term < MaxTerm
  /\ leader' = host
  /\ stale' \in {stale \ {host}, (stale \cup ({leader} \ {NoHost})) \ {host}}
  /\ IF cluster.system = "ocons"
     THEN term' = term + 1 /\ logged' = [logged EXCEPT ![host] = term + 1]
     ELSE UNCHANGED <<term, logged>>
  /\ UNCHANGED up

\* The leader loses its majority, or a former one learns of its successor.
StepDown(host) ==
  /\ host \in Claims
  /\ leader' = IF leader = host THEN NoHost ELSE leader
  /\ stale' = stale \ {host}
  /\ UNCHANGED <<up, term, logged>>

-----------------------------------------------------------------------------
(***************************************************************************)
(* get_leader, one host asked per step.                                    *)
(***************************************************************************)
\* The hosts with the newest term in their logs.
Newest == {h \in Host : logged[h] # 0 /\ \A g \in Host : logged[g] <= logged[h]}

BeginAsk ==
  /\ asked' = 0 /\ found' = NoHost /\ best' = 0
  /\ claimed' = Claims \cup (IF cluster.system = "ocons" THEN Newest ELSE {})
  /\ steady' = (Claims = {leader})

AskEtcd(host) ==
  /\ cluster.system = "etcd" /\ found = NoHost
  /\ IF host \in up /\ Claims # {}
     THEN found' \in Claims
     ELSE UNCHANGED found
  /\ UNCHANGED best

\* Mutant: the last answer wins.
AskZookeeper_Last(host) ==
  /\ cluster.system = "zookeeper"
  /\ found' = IF host = leader THEN host ELSE NoHost
  /\ UNCHANGED best

AskZookeeper(host) ==
  /\ cluster.system = "zookeeper"
  /\ found' = IF found = NoHost /\ host \in Claims THEN host ELSE found
  /\ UNCHANGED best

\* Mutant: the answer is the first host whose log mentions a term.
AskOcons_First(host) ==
  /\ cluster.system = "ocons"
  /\ IF logged[host] > 0 /\ found = NoHost
     THEN found' = host /\ best' = logged[host]
     ELSE UNCHANGED <<found, best>>

\* The maximum over the hosts, first come on a tie; a host without a term,
\* or with term 0, is left out, and terms[0] raises when all are.
AskOcons(host) ==
  /\ cluster.system = "ocons"
  /\ IF logged[host] > best
     THEN found' = host /\ best' = logged[host]
     ELSE UNCHANGED <<found, best>>

AskConspire(host) ==
  /\ cluster.system = "conspire" /\ found = NoHost
  /\ found' = host
  /\ UNCHANGED best

\* Only the second host is asked, whichever that is, by one etcdctl command
\* whose readings of the members are taken for one.  _parse_resp leaves out
\* the first and the last line of what the shell printed, taken here to be
\* the echo of the command and the prompt.
AskKubernetes(host) ==
  /\ cluster.system = "kubernetes"
  /\ IF host = 2 /\ 2 \in Members \cap up /\ Claims # {}
     THEN found' \in Claims
     ELSE UNCHANGED found
  /\ UNCHANGED best

AskNext ==
  /\ asked < cluster.hosts
  /\ asked' = asked + 1
  /\ \/ AskEtcd(asked + 1) \/ AskZookeeper(asked + 1) \/ AskOcons(asked + 1)
     \/ AskConspire(asked + 1) \/ AskKubernetes(asked + 1)
  /\ UNCHANGED <<claimed, steady>>

\* etcd and conspire return with the first answer, zookeeper and ocons ask
\* everyone, Kubernetes the second host.
AskOver ==
  \/ asked = cluster.hosts
  \/ cluster.system = "kubernetes" /\ asked = 2
  \/ cluster.system \in {"etcd", "conspire"} /\ found # NoHost

=============================================================================
