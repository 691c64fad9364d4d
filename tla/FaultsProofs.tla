---------------------------- MODULE FaultsProofs ----------------------------
(***************************************************************************)
(* Proofs about fault injection, for every list of hosts, every system and *)
(* every failure type.                                                     *)
(*                                                                         *)
(* A fault becomes a list of commands, and the properties are about lists  *)
(* that were carried out while others went on.  The inductive invariant    *)
(* says for every moment what is left of a list and what has been done.    *)
(*                                                                         *)
(*   FlowInv    where the two threads are, and who has work left           *)
(*   ListInv    what the commands are that are left, by failure type       *)
(*   ChainInv   every chain is the rules of the entries of partitioned     *)
(*              that have not been undone, on top of the host's own        *)
(*   TimeInv    when partitioned is known to be empty                      *)
(*   PairInv    a partial partition concerns one pair of hosts             *)
(*   RegionInv  rules and commands left make up the region's partition     *)
(*   DownInv    which servers are down, by what is left to do              *)
(*   TermInv    the log of the newest leader has the newest term           *)
(*   ClaimInv   what get_leader has found against what was claimed         *)
(*   SteadyInv  the same when one host leads throughout the call           *)
(***************************************************************************)
EXTENDS Faults, FiniteSetTheorems, SequenceTheorems, TLAPS

ExecPoints == {"boot", "apply", "ask", "told", "unanswered", "fault", "sleep",
               "done", "raised"}
ThreadPoints == {"none", "test", "cut", "hold", "heal", "pause", "dead"}

ByExecute == {"partial-partition", "k8s_leadreg_offline"}
ByThread == {"intermittent-partial", "intermittent-full", "k8s_cp_offline",
             "k8s_wn_offline"}
Killing == {"leader", "leader-recovery", "kill-n"}
Partial == {"partial-partition", "intermittent-partial"}

Command ==
  [op : {"drop"}, host : Host, remote : Host]
    \cup [op : {"undo", "stop", "start", "record"}, host : Host]
    \cup [op : {"clear", "raise"}]

TypeControl ==
  /\ cluster \in Clusters /\ failure \in cluster.failures
  /\ next \in 1..5 /\ exec \in ExecPoints /\ thread \in ThreadPoints
TypeLists ==
  todo \in Seq(Command) /\ tloop \in Seq(Command) /\ ttodo \in Seq(Command)
TypeNet ==
  /\ rules \in [Host -> Seq(Nat)]
  /\ partitioned \in Seq(Host) /\ killed \in Host \cup {NoHost}
TypeServers ==
  /\ up \subseteq Host /\ leader \in (Members \cap up) \cup {NoHost}
  /\ stale \subseteq Members \cap up
  /\ term \in Nat /\ logged \in [Host -> Nat]
TypeAsk ==
  /\ asked \in 0..cluster.hosts /\ found \in Members \cup {NoHost}
  /\ best \in Nat /\ claimed \subseteq Host /\ steady \in BOOLEAN

TypeInv == TypeControl /\ TypeLists /\ TypeNet /\ TypeServers /\ TypeAsk

Asking == exec \in {"ask", "told", "unanswered"}

FlowInv ==
  /\ next \in 1..Len(Schedule) \/ exec = "done"
  /\ exec = "done" => next > Len(Schedule)
  /\ exec = "boot" => next = 1
  /\ exec \notin {"fault", "raised"} => todo = <<>>
  /\ Asking => next = 2 /\ AsksLeader
  /\ exec = "told" => found # NoHost
  /\ thread # "none" => failure \in ByThread
  /\ failure \in ByThread => todo = <<>>
  /\ thread \notin {"cut", "heal"} => ttodo = <<>>

IsDrop(c) == c \in [op : {"drop"}, host : Host, remote : Host]
IsServer(c) == c \in [op : {"stop", "start", "record"}, host : Host]
                     \cup {OutOfRange}

\* s is what is left of a HealAll.
Healing(s) ==
  /\ s # <<>> /\ Len(s) <= Len(partitioned) + 1
  /\ s[Len(s)] = Clear
  /\ \A k \in 1..(Len(s) - 1) :
       s[k] = Undo(partitioned[Len(partitioned) + 1 - Len(s) + k])

ListInv ==
  /\ failure \in ByExecute /\ todo # <<>> =>
       /\ exec = "fault"
       /\ \/ next = 2 /\ \A k \in 1..Len(todo) : IsDrop(todo[k])
          \/ next = 3 /\ Healing(todo)
  /\ \A k \in 1..Len(tloop) : IsDrop(tloop[k])
  /\ thread = "cut" => \A k \in 1..Len(ttodo) : IsDrop(ttodo[k])
  /\ thread = "heal" /\ ttodo # <<>> => Healing(ttodo)
  /\ failure \notin ByExecute \cup ByThread =>
       /\ partitioned = <<>>
       /\ \A k \in 1..Len(todo) : IsServer(todo[k])

Undone ==
  IF failure \in ByExecute /\ next = 3 /\ todo # <<>>
  THEN Len(partitioned) + 1 - Len(todo)
  ELSE IF thread = "heal" /\ ttodo # <<>>
       THEN Len(partitioned) + 1 - Len(ttodo)
       ELSE 0

\* The entries of partitioned for a host whose rule is still in its chain.
Pending(h) == {k \in 1..Len(partitioned) : k > Undone /\ partitioned[k] = h}

ChainInv ==
  \A h \in Host :
    /\ Len(rules[h]) = Cardinality(Pending(h)) + Len(BaseRules[h])
    /\ h \in cluster.firewalled => rules[h][Cardinality(Pending(h)) + 1] = 0

Early == next = 1 \/ (next = 2 /\ exec # "fault")

TimeInv ==
  /\ failure \in ByExecute /\ Early => partitioned = <<>>
  /\ failure \in ByExecute
     /\ (next > 3 \/ (next = 3 /\ exec = "fault" /\ todo = <<>>))
     => partitioned = <<>>
  /\ failure \in ByExecute /\ exec = "raised" => next = 2
  /\ thread = "none" => tloop = <<>>
  /\ failure \in ByThread /\ thread = "none" => partitioned = <<>>
  /\ failure \in ByThread /\ Early => thread = "none"
  /\ failure \in ByExecute /\ next > 3 => todo = <<>>

Among(s, c) == \E k \in 1..Len(s) : s[k] = c

PairInv ==
  failure \in Partial =>
    \E a, b \in Host :
      /\ a # b
      /\ \A x, y \in Host :
           \/ Drops(x, y) \/ Among(todo, Drop(x, y))
           \/ Among(ttodo, Drop(x, y)) \/ Among(tloop, Drop(x, y))
           => (x = a /\ y = b) \/ (x = b /\ y = a)

RegionInv ==
  /\ failure = "k8s_leadreg_offline"
  /\ \/ next = 2 /\ exec = "fault"
     \/ next = 3 /\ exec \in {"sleep", "apply"}
  => \E l \in Members, w \in Workers :
       /\ IndexIn(Members, l) = IndexIn(Workers, w)
       /\ \A a, b \in Host :
            (Drops(a, b) \/ Among(todo, Drop(a, b)))
              <=> ~(a \in {l, w} <=> b \in {l, w})

DownEarly ==
  /\ Early /\ exec \notin {"boot", "raised"} => up = Host
  /\ failure \notin Killing /\ exec # "boot" => up = Host
  /\ next = 1 \/ failure \in {"none", "stat"} => todo = <<>>
  /\ failure \in Killing /\ exec = "raised" => next = 2

DownLeader ==
  failure = "leader" =>
    /\ next = 2 /\ exec = "fault" =>
         \/ up = Host /\ \E h \in Host : todo = <<Stop(h)>>
         \/ todo = <<>> /\ \E h \in Host : up = Host \ {h}
    /\ next > 2 => todo = <<>> /\ \E h \in Host : up = Host \ {h}

DownRecovery ==
  failure = "leader-recovery" =>
    /\ next = 2 /\ exec = "fault" =>
         \/ up = Host /\ \E h \in Host : todo = <<Stop(h), Record(h)>>
         \/ \E h \in Host : todo = <<Record(h)>> /\ up = Host \ {h}
         \/ todo = <<>> /\ killed \in Host /\ up = Host \ {killed}
    /\ next = 3 =>
         \/ todo = <<>> /\ exec = "fault" /\ up = Host
         \/ /\ killed \in Host /\ up = Host \ {killed}
            /\ exec = "fault" => todo = <<Start(killed)>>
            /\ exec # "fault" => todo = <<>>
    /\ next > 3 => todo = <<>> /\ up = Host

\* kill-n has stopped d servers.
Stopped(d) ==
  /\ d + Len(todo) = cluster.kills
  /\ 1..d \subseteq Host /\ up = Host \ (1..d)
  /\ \A k \in 1..Len(todo) :
       todo[k] = IF d + k \in Host THEN Stop(d + k) ELSE OutOfRange

DownKillN ==
  failure = "kill-n" =>
    /\ next = 2 /\ exec = "fault" => \E d \in 0..cluster.kills : Stopped(d)
    /\ next > 2 => /\ todo = <<>> /\ up = Host \ (1..cluster.kills)
                   /\ 1..cluster.kills \subseteq Host

DownRaised ==
  exec = "raised" =>
    IF failure = "kill-n" THEN up = {} /\ Host \subseteq 1..cluster.kills
                          ELSE up = Host

DownInv ==
  DownEarly /\ DownLeader /\ DownRecovery /\ DownKillN /\ DownRaised

TermInv ==
  next <= 2 /\ cluster.system = "ocons" =>
    /\ \A h \in Host : logged[h] <= term
    /\ leader # NoHost => logged[leader] = term /\ term > 0
    /\ \A g, h \in Host :
         logged[g] = term /\ logged[h] = term /\ term > 0 => g = h
    /\ term > 0 => \E g \in Host : logged[g] = term
    /\ exec = "boot" => \A h \in Host \ up : logged[h] = 0

\* get_leader of ocons: a term M that was the newest when the call began.
NewestAtCall(M) ==
  /\ \A h \in Host \ claimed : logged[h] < M \/ logged[h] = 0
  /\ M = 0 \/ \E g \in claimed : logged[g] >= M /\ (g <= asked => best >= M)
  /\ \/ found \in claimed
     \/ best < M
     \/ found = NoHost /\ best = 0

ClaimInv ==
  /\ exec = "ask" => Claims \subseteq claimed
  /\ Asking /\ cluster.system \in {"etcd", "zookeeper", "kubernetes"} =>
       found \in claimed \cup {NoHost}
  /\ exec = "ask" /\ cluster.system = "ocons" =>
       \E M \in 0..term : NewestAtCall(M)
  /\ TargetHasLed

SteadyInv ==
  /\ exec = "ask" /\ steady =>
       /\ leader # NoHost /\ Claims = {leader} /\ claimed = {leader}
       /\ cluster.system \in {"etcd", "zookeeper"} /\ asked >= leader =>
            found = leader
       /\ cluster.system = "kubernetes" /\ 2 \in Members /\ asked >= 2 =>
            found = leader
       /\ cluster.system = "ocons" =>
            IF asked >= leader THEN found = leader /\ best = term
                               ELSE best < term
  /\ SteadyLeaderFound

Inv ==
  /\ TypeInv /\ FlowInv /\ ListInv /\ ChainInv /\ TimeInv /\ PairInv
  /\ RegionInv /\ DownInv /\ TermInv /\ ClaimInv /\ SteadyInv

-----------------------------------------------------------------------------
(***************************************************************************)
(* The set-up.                                                             *)
(***************************************************************************)

\* What the assumptions say of the cluster of a test.
LEMMA SetUp ==
  ASSUME cluster \in Clusters, failure \in cluster.failures
  PROVE  /\ cluster.hosts \in Nat \ {0, 1}
         /\ Host \subseteq Nat \ {0} /\ IsFiniteSet(Host)
         /\ \A h : h \in Host <=> h \in Nat /\ 1 <= h /\ h <= cluster.hosts
         /\ Members \subseteq Host /\ Workers \subseteq Host \ Members
         /\ cluster.firewalled \subseteq Host
         /\ cluster.kills \in Nat /\ cluster.system \in Systems
         /\ NoHost \notin Host /\ MaxTerm \in Nat
         /\ failure \in AllFailureTypes
<1>1. /\ cluster.hosts \in Nat \ {0, 1}
      /\ cluster.members \subseteq 1..cluster.hosts
      /\ cluster.workers \subseteq (1..cluster.hosts) \ cluster.members
      /\ cluster.firewalled \subseteq 1..cluster.hosts
      /\ cluster.kills \in Nat /\ cluster.system \in Systems
      /\ MaxTerm \in Nat
  BY ClusterAssumption
<1>2. IsFiniteSet(Host)
  BY <1>1, FS_Interval DEF Host
<1>3. failure \in AllFailureTypes
  BY FailureAssumption
<1> QED BY <1>1, <1>2, <1>3 DEF Host, Members, Workers, NoHost

\* The place of each fault in the schedule of its failure type.
LEMMA Places ==
  ASSUME failure \in AllFailureTypes, next \in 1..Len(Schedule)
  PROVE  /\ Len(Schedule) \in {2, 3, 4}
         /\ failure \in ByExecute \cup ByThread =>
              Len(Schedule) = 4 /\ Fault = <<"null", "create", "remove", "null">>[next]
         /\ failure = "leader" =>
              Len(Schedule) = 3 /\ Fault = <<"null", "kill_leader", "null">>[next]
         /\ failure = "leader-recovery" =>
              /\ Len(Schedule) = 4
              /\ Fault = <<"null", "kill_leader", "recover", "null">>[next]
         /\ failure = "kill-n" =>
              Len(Schedule) = 3 /\ Fault = <<"null", "kill_n", "null">>[next]
         /\ failure = "none" => Len(Schedule) = 2 /\ Fault = "null"
         /\ failure = "stat" => Len(Schedule) = 3 /\ Fault \in {"null", "stat"}
<1>1. CASE failure = "none"
  BY <1>1 DEF Schedule, Fault, ByExecute, ByThread
<1>2. CASE failure = "leader"
  BY <1>2 DEF Schedule, Fault, ByExecute, ByThread
<1>3. CASE failure = "leader-recovery"
  BY <1>3 DEF Schedule, Fault, ByExecute, ByThread
<1>4. CASE failure = "kill-n"
  BY <1>4 DEF Schedule, Fault, ByExecute, ByThread
<1>5. CASE failure = "stat"
  BY <1>5 DEF Schedule, Fault, ByExecute, ByThread
<1>6. CASE failure \in ByExecute \cup ByThread
  <2>1. Schedule = <<"null", "create", "remove", "null">>
    BY <1>6 DEF Schedule, ByExecute, ByThread
  <2> QED BY <1>6, <2>1 DEF Fault, ByExecute, ByThread
<1> QED BY <1>1, <1>2, <1>3, <1>4, <1>5, <1>6
        DEF AllFailureTypes, ByExecute, ByThread

\* Which test each fault belongs to, and when it comes.
LEMMA Times ==
  ASSUME failure \in AllFailureTypes, next \in 1..Len(Schedule)
  PROVE  /\ Fault = "create" => next = 2 /\ failure \in ByExecute \cup ByThread
         /\ Fault = "remove" => next = 3 /\ failure \in ByExecute \cup ByThread
         /\ Fault = "kill_leader" =>
              next = 2 /\ failure \in {"leader", "leader-recovery"}
         /\ Fault = "recover" => next = 3 /\ failure = "leader-recovery"
         /\ Fault = "kill_n" => next = 2 /\ failure = "kill-n"
         /\ Fault = "stat" => failure = "stat"
         /\ Fault = "null" =>
              /\ failure \in ByExecute \cup ByThread \cup {"leader-recovery"} =>
                   next \in {1, 4}
              /\ failure \in {"leader", "kill-n"} => next \in {1, 3}
<1>1. CASE failure = "none"
  BY <1>1, Places DEF ByExecute, ByThread
<1>2. CASE failure = "leader"
  <2>1. Len(Schedule) = 3 /\ Fault = <<"null", "kill_leader", "null">>[next]
    BY <1>2, Places
  <2> QED BY <1>2, <2>1 DEF ByExecute, ByThread
<1>3. CASE failure = "leader-recovery"
  <2>1. Len(Schedule) = 4
        /\ Fault = <<"null", "kill_leader", "recover", "null">>[next]
    BY <1>3, Places
  <2> QED BY <1>3, <2>1 DEF ByExecute, ByThread
<1>4. CASE failure = "kill-n"
  <2>1. Len(Schedule) = 3 /\ Fault = <<"null", "kill_n", "null">>[next]
    BY <1>4, Places
  <2> QED BY <1>4, <2>1 DEF ByExecute, ByThread
<1>5. CASE failure = "stat"
  BY <1>5, Places DEF ByExecute, ByThread
<1>6. CASE failure \in ByExecute \cup ByThread
  <2>1. Len(Schedule) = 4 /\ Fault = <<"null", "create", "remove", "null">>[next]
    BY <1>6, Places
  <2> QED BY <1>6, <2>1 DEF ByExecute, ByThread
<1> QED BY <1>1, <1>2, <1>3, <1>4, <1>5, <1>6
        DEF AllFailureTypes, ByExecute, ByThread

-----------------------------------------------------------------------------
(***************************************************************************)
(* Lists of hosts in cluster order.                                        *)
(***************************************************************************)

\* The ranks of the members of a set of hosts are 1 to its size.
LEMMA Ranks ==
  ASSUME NEW n \in Nat, NEW S \in SUBSET (1..n)
  PROVE  /\ IsFiniteSet(S) /\ Cardinality(S) \in Nat
         /\ \A h \in S : IndexIn(S, h) \in 1..Cardinality(S)
         /\ \A k \in 1..Cardinality(S) : \E h \in S : IndexIn(S, h) = k
<1>1. IsFiniteSet(S) /\ Cardinality(S) \in Nat
  <2>1. IsFiniteSet(1..n)
    BY FS_Interval
  <2>2. IsFiniteSet(S)
    BY <2>1, FS_Subset
  <2> QED BY <2>2, FS_CardinalityType
<1>2. \A h \in S : IndexIn(S, h) \in 1..Cardinality(S)
  <2> SUFFICES ASSUME NEW h \in S PROVE IndexIn(S, h) \in 1..Cardinality(S)
    OBVIOUS
  <2> DEFINE B == {g \in S : g <= h}
  <2>1. B \in SUBSET S /\ h \in B
    OBVIOUS
  <2>2. IsFiniteSet(B) /\ Cardinality(B) \in Nat /\ Cardinality(B) <= Cardinality(S)
    BY <1>1, <2>1, FS_Subset, FS_CardinalityType
  <2>3. Cardinality(B) # 0
    BY <2>1, <2>2, FS_EmptySet
  <2> QED BY <1>1, <2>2, <2>3 DEF IndexIn
<1>3. \A g, h \in S : g < h => IndexIn(S, g) < IndexIn(S, h)
  <2> SUFFICES ASSUME NEW g \in S, NEW h \in S, g < h
               PROVE  IndexIn(S, g) < IndexIn(S, h)
    OBVIOUS
  <2> DEFINE A == {x \in S : x <= g}
             B == {x \in S : x <= h}
  <2>0. \A x \in S : x \in Int
    OBVIOUS
  <2>1. A \in SUBSET B /\ B \in SUBSET S /\ h \in B /\ h \notin A
    <3>1. \A x \in A : x \in B
      BY <2>0
    <3>2. \A x \in B : x \in S
      OBVIOUS
    <3>3. h \in B /\ h \notin A
      BY <2>0
    <3> QED BY <3>1, <3>2, <3>3
  <2>2. IsFiniteSet(B) /\ Cardinality(B) \in Nat
    BY <1>1, <2>1, FS_Subset, FS_CardinalityType
  <2>3. Cardinality(A) <= Cardinality(B) /\ Cardinality(A) # Cardinality(B)
        /\ Cardinality(A) \in Nat
    <3> HIDE DEF A, B
    <3> QED BY <2>1, <2>2, FS_Subset, FS_CardinalityType
  <2> QED BY <2>2, <2>3 DEF IndexIn
<1>4. \A k \in 1..Cardinality(S) : \E h \in S : IndexIn(S, h) = k
  <2> DEFINE f == [h \in S |-> IndexIn(S, h)]
             T == 1..Cardinality(S)
  <2>1. f \in Injection(S, T)
    <3>1. f \in [S -> T]
      BY <1>2
    <3>2. \A a, b \in S : f[a] = f[b] => a = b
      <4> SUFFICES ASSUME NEW a \in S, NEW b \in S, f[a] = f[b] PROVE a = b
        OBVIOUS
      <4>1. a \in Int /\ b \in Int /\ IndexIn(S, a) \in Int
        BY <1>2
      <4>2. ~(a < b) /\ ~(b < a)
        BY <1>3, <4>1
      <4> QED BY <4>1, <4>2
    <3> QED BY <3>1, <3>2 DEF Injection, IsInjective
  <2>2. IsFiniteSet(T) /\ Cardinality(T) = Cardinality(S)
    BY <1>1, FS_Interval
  <2>3. f \in Surjection(S, T)
    <3> HIDE DEF f, T
    <3> QED BY <2>1, <2>2, FS_Injection
  <2> QED BY <2>3 DEF Surjection
<1> QED BY <1>1, <1>2, <1>4

\* InOrder lists every member of the set once, by rank.
LEMMA Ordered ==
  ASSUME NEW n \in Nat, NEW S \in SUBSET (1..n)
  PROVE  /\ InOrder(S) \in Seq(S) /\ Len(InOrder(S)) = Cardinality(S)
         /\ \A k \in 1..Cardinality(S) :
              InOrder(S)[k] \in S /\ IndexIn(S, InOrder(S)[k]) = k
         /\ \A h \in S : \E k \in 1..Cardinality(S) : InOrder(S)[k] = h
<1>1. \A k \in 1..Cardinality(S) :
        InOrder(S)[k] \in S /\ IndexIn(S, InOrder(S)[k]) = k
  BY Ranks DEF InOrder
<1>2. InOrder(S) \in Seq(S) /\ Len(InOrder(S)) = Cardinality(S)
  <2>1. Cardinality(S) \in Nat /\ InOrder(S) \in [1..Cardinality(S) -> S]
    BY <1>1, Ranks DEF InOrder
  <2> QED BY <2>1
<1>3. \A h \in S : \E k \in 1..Cardinality(S) : InOrder(S)[k] = h
  <2> DEFINE f == [k \in 1..Cardinality(S) |-> InOrder(S)[k]]
             T == 1..Cardinality(S)
  <2>1. f \in Injection(T, S)
    <3>1. f \in [T -> S]
      BY <1>1
    <3>2. \A a, b \in T : f[a] = f[b] => a = b
      BY <1>1
    <3> QED BY <3>1, <3>2 DEF Injection, IsInjective
  <2>0. IsFiniteSet(S) /\ Cardinality(S) \in Nat
    BY Ranks
  <2>2. Cardinality(T) = Cardinality(S)
    BY <2>0, FS_Interval
  <2>3. f \in Surjection(T, S)
    <3> HIDE DEF f, T
    <3> QED BY <2>0, <2>1, <2>2, FS_Injection
  <2> QED BY <2>3 DEF Surjection
<1> QED BY <1>1, <1>2, <1>3

-----------------------------------------------------------------------------
(***************************************************************************)
(* Lists of commands.                                                      *)
(***************************************************************************)

\* Every command is what its name says and no other.
LEMMA Words ==
  /\ \A a, b \in Host : Drop(a, b) \in Command /\ IsDrop(Drop(a, b))
  /\ \A h \in Host : /\ Undo(h) \in Command /\ Stop(h) \in Command
                     /\ Start(h) \in Command /\ Record(h) \in Command
                     /\ IsServer(Stop(h)) /\ IsServer(Start(h))
                     /\ IsServer(Record(h))
  /\ Clear \in Command /\ OutOfRange \in Command /\ IsServer(OutOfRange)
BY DEF Drop, Undo, Stop, Start, Record, Clear, OutOfRange, Command, IsDrop,
       IsServer

\* A drop names its hosts.
LEMMA DropIs ==
  ASSUME NEW c, IsDrop(c)
  PROVE  c.op = "drop" /\ c.host \in Host /\ c.remote \in Host
         /\ \A a, b : c = Drop(a, b) <=> a = c.host /\ b = c.remote
BY DEF IsDrop, Drop

\* A partial partition is made of two rules, between the leader and another.
LEMMA PartialCutIs ==
  ASSUME cluster \in Clusters, failure \in cluster.failures, NEW l \in Host
  PROVE  \E b \in Host : b # l /\ PartialCut(l) = <<Drop(l, b), Drop(b, l)>>
<1>1. cluster.hosts \in Nat /\ Host \ {l} \in SUBSET (1..cluster.hosts)
  BY SetUp DEF Host
<1>2. \E h \in Host : h # l
  <2>1. 1 \in Host /\ 2 \in Host
    BY SetUp
  <2> QED BY <2>1
<1>3. Cardinality(Host \ {l}) \in Nat /\ Cardinality(Host \ {l}) # 0
  BY <1>1, <1>2, Ranks, FS_EmptySet
<1>4. 1 \in 1..Cardinality(Host \ {l})
  BY <1>3
<1>5. First(Host \ {l}) \in Host \ {l}
  BY <1>1, <1>4, Ordered DEF First
<1> QED BY <1>5 DEF PartialCut, Between

\* The loop over all other hosts gives drops only.
LEMMA IsolateCutIs ==
  ASSUME cluster \in Clusters, failure \in cluster.failures, NEW t \in Host
  PROVE  /\ IsolateCut(t) \in Seq(Command)
         /\ \A k \in 1..Len(IsolateCut(t)) : IsDrop(IsolateCut(t)[k])
<1> DEFINE S == Host \ {t}
           s == InOrder(S)
           n == Cardinality(S)
<1>1. cluster.hosts \in Nat /\ S \in SUBSET (1..cluster.hosts)
  BY SetUp DEF Host
<1>2. n \in Nat /\ Len(s) = n /\ \A k \in 1..n : s[k] \in Host
  BY <1>1, Ranks, Ordered
<1>3. IsolateCut(t) = [j \in 1..(2 * n) |->
                         Between(s[(j - 1) \div 2 + 1], t)[((j - 1) % 2) + 1]]
  BY <1>2 DEF IsolateCut, ForEach
<1> HIDE DEF s, n
<1>4. ASSUME NEW j \in 1..(2 * n)
      PROVE  IsolateCut(t)[j] \in Command /\ IsDrop(IsolateCut(t)[j])
  <2>1. (j - 1) \div 2 + 1 \in 1..n /\ ((j - 1) % 2) + 1 \in {1, 2}
    BY <1>2
  <2>2. PICK h \in Host : h = s[(j - 1) \div 2 + 1]
    BY <1>2, <2>1
  <2>3. IsolateCut(t)[j] = <<Drop(h, t), Drop(t, h)>>[((j - 1) % 2) + 1]
    BY <1>3, <2>2 DEF Between
  <2>4. IsolateCut(t)[j] \in {Drop(h, t), Drop(t, h)}
    BY <2>1, <2>3
  <2> QED BY <2>4, Words
<1>5. IsolateCut(t) \in [1..(2 * n) -> Command] /\ 2 * n \in Nat
  BY <1>2, <1>3, <1>4
<1>6. IsolateCut(t) \in Seq(Command) /\ Len(IsolateCut(t)) = 2 * n
  BY <1>5
<1> QED BY <1>4, <1>6

\* The region partition separates exactly the pairs of hosts of which one
\* is the leader or the worker of its rank.
LEMMA RegionCutIs ==
  ASSUME cluster \in Clusters, failure \in cluster.failures,
         NEW l \in Members, IndexIn(Members, l) <= Cardinality(Workers)
  PROVE  /\ RegionCut(l) \in Seq(Command)
         /\ \A k \in 1..Len(RegionCut(l)) : IsDrop(RegionCut(l)[k])
         /\ \E w \in Workers :
              /\ IndexIn(Members, l) = IndexIn(Workers, w)
              /\ \A a, b \in Host :
                   Among(RegionCut(l), Drop(a, b))
                     <=> ~(a \in {l, w} <=> b \in {l, w})
<1>1. /\ cluster.hosts \in Nat /\ Members \in SUBSET (1..cluster.hosts)
      /\ Workers \in SUBSET (1..cluster.hosts)
      /\ Members \subseteq Host /\ Workers \subseteq Host
  BY SetUp DEF Host
<1>2. IndexIn(Members, l) \in 1..Cardinality(Workers)
  <2>1. IndexIn(Members, l) \in 1..Cardinality(Members)
        /\ Cardinality(Members) \in Nat /\ Cardinality(Workers) \in Nat
    BY <1>1, Ranks
  <2> QED BY <2>1
<1> DEFINE w == InOrder(Workers)[IndexIn(Members, l)]
           S == Host \ {l, w}
           s == InOrder(S)
           n == Cardinality(S)
<1>3. w \in Workers /\ IndexIn(Workers, w) = IndexIn(Members, l)
  BY <1>1, <1>2, Ordered
<1>4. S \in SUBSET (1..cluster.hosts)
  BY DEF Host
<1>5. /\ n \in Nat /\ Len(s) = n /\ \A k \in 1..n : s[k] \in S
      /\ \A h \in S : \E k \in 1..n : s[k] = h
  BY <1>1, <1>4, Ranks, Ordered, ZenonT(40)
<1>6. RegionCut(l) =
        [j \in 1..(4 * n) |->
           (Between(l, s[(j - 1) \div 4 + 1])
              \o Between(w, s[(j - 1) \div 4 + 1]))[((j - 1) % 4) + 1]]
  BY <1>5 DEF RegionCut, ForEach
<1>7. w \in Host /\ l \in Host /\ S = Host \ {l, w}
  BY <1>1, <1>3
<1> HIDE DEF s, n, w, S
<1>8. ASSUME NEW j \in 1..(4 * n)
      PROVE  \E h \in S :
               /\ h = s[(j - 1) \div 4 + 1]
               /\ RegionCut(l)[j] = <<Drop(l, h), Drop(h, l),
                                      Drop(w, h), Drop(h, w)>>[((j - 1) % 4) + 1]
               /\ RegionCut(l)[j]
                    \in {Drop(l, h), Drop(h, l), Drop(w, h), Drop(h, w)}
  <2>1. (j - 1) \div 4 + 1 \in 1..n /\ ((j - 1) % 4) + 1 \in {1, 2, 3, 4}
    BY <1>5
  <2>2. PICK h \in S : h = s[(j - 1) \div 4 + 1]
    BY <1>5, <2>1
  <2>3. ASSUME NEW i \in {1, 2, 3, 4}
        PROVE  (Between(l, h) \o Between(w, h))[i]
                 = <<Drop(l, h), Drop(h, l), Drop(w, h), Drop(h, w)>>[i]
    <3> DEFINE p == Between(l, h)
               q == Between(w, h)
    <3>1. /\ p \in Seq(Command) /\ Len(p) = 2
          /\ p[1] = Drop(l, h) /\ p[2] = Drop(h, l)
      BY <1>7, Words DEF Between
    <3>2. /\ q \in Seq(Command) /\ Len(q) = 2
          /\ q[1] = Drop(w, h) /\ q[2] = Drop(h, w)
      BY <1>7, Words DEF Between
    <3> HIDE DEF p, q
    <3> DEFINE r == p \o q
    <3>3. \A x \in 1..(Len(p) + Len(q)) :
            r[x] = IF x <= Len(p) THEN p[x] ELSE q[x - Len(p)]
      BY <3>1, <3>2, ConcatProperties
    <3> HIDE DEF r
    <3>4. /\ r[1] = Drop(l, h) /\ r[2] = Drop(h, l)
          /\ r[3] = Drop(w, h) /\ r[4] = Drop(h, w)
      BY <3>1, <3>2, <3>3
    <3>5. r[i] = <<Drop(l, h), Drop(h, l), Drop(w, h), Drop(h, w)>>[i]
      BY <3>4
    <3> QED BY <3>5 DEF p, q, r
  <2>4. RegionCut(l)[j] = <<Drop(l, h), Drop(h, l),
                            Drop(w, h), Drop(h, w)>>[((j - 1) % 4) + 1]
    <3>1. RegionCut(l)[j] = (Between(l, h) \o Between(w, h))[((j - 1) % 4) + 1]
      BY <1>6, <2>2
    <3> QED BY <2>1, <2>3, <3>1
  <2>5. RegionCut(l)[j] \in {Drop(l, h), Drop(h, l), Drop(w, h), Drop(h, w)}
    BY <2>1, <2>4
  <2> QED BY <2>2, <2>4, <2>5
<1>9. ASSUME NEW j \in 1..(4 * n)
      PROVE  RegionCut(l)[j] \in Command /\ IsDrop(RegionCut(l)[j])
  <2>1. PICK h \in S : RegionCut(l)[j]
                         \in {Drop(l, h), Drop(h, l), Drop(w, h), Drop(h, w)}
    BY <1>8
  <2>2. h \in Host
    BY <1>7
  <2> QED BY <1>7, <2>1, <2>2, Words
<1>10. RegionCut(l) \in Seq(Command) /\ Len(RegionCut(l)) = 4 * n
  <2>0. RegionCut(l) = [j \in 1..(4 * n) |-> RegionCut(l)[j]]
    BY <1>6
  <2>1. RegionCut(l) \in [1..(4 * n) -> Command] /\ 4 * n \in Nat
    BY <1>5, <1>9, <2>0
  <2> QED BY <2>1
<1>11. ASSUME NEW a \in Host, NEW b \in Host, Among(RegionCut(l), Drop(a, b))
       PROVE  ~(a \in {l, w} <=> b \in {l, w})
  <2>1. PICK j \in 1..(4 * n) : RegionCut(l)[j] = Drop(a, b)
    BY <1>10, <1>11 DEF Among
  <2>2. PICK h \in S : Drop(a, b) \in {Drop(l, h), Drop(h, l),
                                       Drop(w, h), Drop(h, w)}
    BY <1>8, <2>1
  <2> QED BY <1>7, <2>2 DEF Drop
<1>12. ASSUME NEW h \in S
       PROVE  \A c \in {Drop(l, h), Drop(h, l), Drop(w, h), Drop(h, w)} :
                Among(RegionCut(l), c)
  <2>1. PICK k \in 1..n : s[k] = h
    BY <1>5
  <2>2. ASSUME NEW i \in 1..4
        PROVE  /\ 4 * (k - 1) + i \in 1..(4 * n)
               /\ (4 * (k - 1) + i - 1) \div 4 + 1 = k
               /\ ((4 * (k - 1) + i - 1) % 4) + 1 = i
    <3>1. CASE i = 1
      BY <1>5, <3>1
    <3>2. CASE i = 2
      BY <1>5, <3>2
    <3>3. CASE i = 3
      BY <1>5, <3>3
    <3>4. CASE i = 4
      BY <1>5, <3>4
    <3> QED BY <3>1, <3>2, <3>3, <3>4
  <2>3. ASSUME NEW i \in 1..4
        PROVE  RegionCut(l)[4 * (k - 1) + i]
                 = <<Drop(l, h), Drop(h, l), Drop(w, h), Drop(h, w)>>[i]
    <3>1. PICK j \in 1..(4 * n) : j = 4 * (k - 1) + i
      BY <2>2
    <3>2. (j - 1) \div 4 + 1 = k /\ ((j - 1) % 4) + 1 = i
      BY <2>2, <3>1
    <3>3. RegionCut(l)[j] = <<Drop(l, h), Drop(h, l), Drop(w, h), Drop(h, w)>>[i]
      BY <1>8, <2>1, <3>1, <3>2
    <3> QED BY <3>1, <3>3
  <2>4. ASSUME NEW i \in 1..4
        PROVE  Among(RegionCut(l),
                     <<Drop(l, h), Drop(h, l), Drop(w, h), Drop(h, w)>>[i])
    BY <1>10, <2>2, <2>3 DEF Among
  <2>5. /\ <<Drop(l, h), Drop(h, l), Drop(w, h), Drop(h, w)>>[1] = Drop(l, h)
        /\ <<Drop(l, h), Drop(h, l), Drop(w, h), Drop(h, w)>>[2] = Drop(h, l)
        /\ <<Drop(l, h), Drop(h, l), Drop(w, h), Drop(h, w)>>[3] = Drop(w, h)
        /\ <<Drop(l, h), Drop(h, l), Drop(w, h), Drop(h, w)>>[4] = Drop(h, w)
    OBVIOUS
  <2> QED BY <2>4, <2>5
<1>13. ASSUME NEW a \in Host, NEW b \in Host, ~(a \in {l, w} <=> b \in {l, w})
       PROVE  Among(RegionCut(l), Drop(a, b))
  <2>1. CASE a \in {l, w}
    <3>1. b \in S
      BY <1>7, <1>13, <2>1
    <3> QED BY <1>12, <2>1, <3>1
  <2>2. CASE b \in {l, w}
    <3>1. a \in S
      BY <1>7, <1>13, <2>2
    <3> QED BY <1>12, <2>2, <3>1
  <2> QED BY <1>13, <2>1, <2>2
<1> QED BY <1>3, <1>9, <1>10, <1>11, <1>13

\* HealAll has one command per entry of partitioned, and clears the list.
LEMMA HealAllIs ==
  ASSUME partitioned \in Seq(Host)
  PROVE  /\ HealAll \in Seq(Command) /\ Len(HealAll) = Len(partitioned) + 1
         /\ Healing(HealAll)
<1> DEFINE n == Len(partitioned)
           u == [k \in 1..n |-> Undo(partitioned[k])]
<1>1. n \in Nat /\ u \in Seq(Command) /\ Len(u) = n
  <2>1. n \in Nat /\ u \in [1..n -> Command]
    BY Words
  <2> QED BY <2>1
<1>2. <<Clear>> \in Seq(Command) /\ Len(<<Clear>>) = 1 /\ <<Clear>>[1] = Clear
  BY Words
<1>3. HealAll = u \o <<Clear>>
  BY DEF HealAll
<1>4. \A k \in 1..n : u[k] = Undo(partitioned[k])
  OBVIOUS
<1> HIDE DEF u
<1>5. /\ HealAll \in Seq(Command) /\ Len(HealAll) = n + 1
      /\ HealAll[n + 1] = Clear /\ \A k \in 1..n : HealAll[k] = u[k]
  <2> DEFINE v == <<Clear>>
  <2>1. v \in Seq(Command) /\ Len(v) = 1 /\ v[1] = Clear
    BY <1>2
  <2> HIDE DEF v
  <2> DEFINE r == u \o v
  <2>2. /\ r \in Seq(Command) /\ Len(r) = Len(u) + Len(v)
        /\ \A x \in 1..(Len(u) + Len(v)) :
             r[x] = IF x <= Len(u) THEN u[x] ELSE v[x - Len(u)]
    BY <1>1, <2>1, ConcatProperties, ZenonT(40)
  <2>3. HealAll = r
    BY <1>3 DEF v
  <2> HIDE DEF r
  <2> QED BY <1>1, <2>1, <2>2, <2>3
<1>6. HealAll # <<>>
  BY <1>1, <1>5
<1> QED BY <1>1, <1>4, <1>5, <1>6 DEF Healing

-----------------------------------------------------------------------------
(***************************************************************************)
(* Who changes what.                                                       *)
(***************************************************************************)
Applies ==
  \/ ApplyNull \/ ApplyStat \/ KillLeader \/ Recover \/ KillN
  \/ CreatePartition \/ CreateRegionOffline \/ RemovePartition
  \/ SpawnPartial \/ SpawnFull \/ SpawnOffline \/ RemoveIntermittent

\* apply_fault begins after the leader was asked for, if it has to be, and
\* touches nothing but the list of commands.
LEMMA ApplyIs ==
  ASSUME Applies
  PROVE  /\ \/ exec = "apply" /\ ~AsksLeader
            \/ exec = "told"
         /\ exec' = "fault" /\ ForgetAnswer
         /\ UNCHANGED <<failure, next, netVars, cluster>>
<1>1. CASE ApplyNull
  BY <1>1 DEF ApplyNull, Apply
<1>2. CASE ApplyStat
  BY <1>2 DEF ApplyStat, Apply
<1>3. CASE KillLeader
  BY <1>3 DEF KillLeader, Apply
<1>4. CASE Recover
  BY <1>4 DEF Recover, Apply
<1>5. CASE KillN
  BY <1>5 DEF KillN, Apply
<1>6. CASE CreatePartition
  BY <1>6 DEF CreatePartition, Apply
<1>7. CASE CreateRegionOffline
  BY <1>7 DEF CreateRegionOffline, Apply
<1>8. CASE RemovePartition
  BY <1>8 DEF RemovePartition, Apply
<1>9. CASE SpawnPartial
  BY <1>9 DEF SpawnPartial, Apply
<1>10. CASE SpawnFull
  BY <1>10 DEF SpawnFull, Apply
<1>11. CASE SpawnOffline
  BY <1>11 DEF SpawnOffline, Apply
<1>12. CASE RemoveIntermittent
  BY <1>12 DEF RemoveIntermittent, Apply
<1> QED BY <1>1, <1>2, <1>3, <1>4, <1>5, <1>6, <1>7, <1>8, <1>9, <1>10,
           <1>11, <1>12 DEF Applies

\* Steps that only move the execute thread, and those of the other thread.
Moves == BootEnds \/ AskReturns \/ ApplyRaises \/ FaultStepRaises \/ SleepEnds
Spawns == SpawnPartial \/ SpawnFull \/ SpawnOffline

\* A program point moves and nothing else does.
LEMMA MoveIs ==
  ASSUME Moves
  PROVE  UNCHANGED <<failure, next, todo, threadVars, netVars, cluster, askVars>>
<1>1. CASE BootEnds
  BY <1>1 DEF BootEnds
<1>2. CASE AskReturns
  BY <1>2 DEF AskReturns, unasked
<1>3. CASE ApplyRaises
  BY <1>3 DEF ApplyRaises, unasked
<1>4. CASE FaultStepRaises
  BY <1>4 DEF FaultStepRaises, unasked
<1>5. CASE SleepEnds
  BY <1>5 DEF SleepEnds, unasked
<1> QED BY <1>1, <1>2, <1>3, <1>4, <1>5 DEF Moves

LoopMoves == LoopTest \/ CutDone \/ HoldEnds \/ HealDone \/ PauseEnds

\* The thread moves; it may take a new list.
LEMMA LoopMoveIs ==
  ASSUME LoopMoves
  PROVE  UNCHANGED <<otherThanThread, tloop, netVars>>
<1>1. CASE LoopTest
  BY <1>1 DEF LoopTest
<1>2. CASE CutDone
  BY <1>2 DEF CutDone
<1>3. CASE HoldEnds
  BY <1>3 DEF HoldEnds
<1>4. CASE HealDone
  BY <1>4 DEF HealDone
<1>5. CASE PauseEnds
  BY <1>5 DEF PauseEnds
<1> QED BY <1>1, <1>2, <1>3, <1>4, <1>5 DEF LoopMoves

\* The kinds of step, and what the rest of them leave alone.
LEMMA Frames ==
  ASSUME [Next]_vars
  PROVE  /\ \/ Applies \/ Moves \/ LoopMoves \/ BootNode \/ AskLeader \/ AskHost
            \/ FaultStep \/ FaultEnds \/ ThreadStep \/ Election
            \/ UNCHANGED vars
         /\ UNCHANGED <<failure, cluster>>
<1>1. \/ Applies \/ Moves \/ LoopMoves \/ BootNode \/ AskLeader \/ AskHost
      \/ FaultStep \/ FaultEnds \/ ThreadStep \/ Election
      \/ UNCHANGED vars
  BY DEF Next, ExecuteStep, LoopStep, Applies, Moves, LoopMoves
<1>2. CASE Applies
  BY <1>1, <1>2, ApplyIs
<1>3. CASE Moves
  BY <1>1, <1>3, MoveIs
<1>4. CASE LoopMoves
  BY <1>1, <1>4, LoopMoveIs DEF otherThanThread
<1>5. CASE BootNode
  BY <1>1, <1>5 DEF BootNode
<1>6. CASE AskLeader
  BY <1>1, <1>6 DEF AskLeader, unasked
<1>7. CASE AskHost
  BY <1>1, <1>7 DEF AskHost, unasked
<1>8. CASE FaultStep
  BY <1>1, <1>8 DEF FaultStep
<1>9. CASE FaultEnds
  BY <1>1, <1>9 DEF FaultEnds
<1>10. CASE ThreadStep
  BY <1>1, <1>10 DEF ThreadStep, otherThanThread
<1>11. CASE Election
  BY <1>1, <1>11 DEF Election
<1>12. CASE UNCHANGED vars
  BY <1>1, <1>12 DEF vars
<1> QED BY <1>1, <1>2, <1>3, <1>4, <1>5, <1>6, <1>7, <1>8, <1>9, <1>10,
           <1>11, <1>12

\* The set-up of the test does not change.
LEMMA SameSetUp ==
  ASSUME UNCHANGED <<failure, cluster>>
  PROVE  /\ Host' = Host /\ Members' = Members /\ Workers' = Workers
         /\ BaseRules' = BaseRules /\ Command' = Command /\ Schedule' = Schedule
         /\ \A c : IsDrop(c)' = IsDrop(c) /\ IsServer(c)' = IsServer(c)
BY DEF Host, Members, Workers, BaseRules, Command, Schedule, IsDrop, IsServer

-----------------------------------------------------------------------------
(***************************************************************************)
(* Types.                                                                  *)
(***************************************************************************)

\* What the steps that depend on the leader were told.
LEMMA Told ==
  ASSUME TypeInv, FlowInv, exec = "told"
  PROVE  /\ found \in Members /\ found \in Host
         /\ next = 2 /\ Fault \in {"kill_leader", "create"}
<1>1. found \in Members /\ found \in Host
  BY SetUp DEF TypeInv, TypeControl, TypeAsk, FlowInv
<1>2. next = 2 /\ AsksLeader
  BY DEF FlowInv, Asking
<1> QED BY <1>1, <1>2 DEF AsksLeader

\* The place in the schedule, and the fault there, while there is one.
LEMMA Now ==
  ASSUME TypeInv, FlowInv, exec # "done"
  PROVE  /\ next \in 1..Len(Schedule) /\ failure \in AllFailureTypes
         /\ next \in {1, 2, 3, 4}
<1>1. next \in 1..Len(Schedule)
  BY DEF FlowInv
<1>2. failure \in AllFailureTypes
  BY SetUp DEF TypeInv, TypeControl
<1>3. PICK n \in {2, 3, 4} : n = Len(Schedule)
  BY <1>1, <1>2, Places
<1>4. next \in {1, 2, 3, 4}
  BY <1>1, <1>3
<1> QED BY <1>1, <1>2, <1>4

\* Ranks and sizes are numbers.
LEMMA RankTypes ==
  ASSUME cluster \in Clusters, failure \in cluster.failures
  PROVE  /\ Cardinality(Workers) \in Nat /\ Cardinality(Members) \in Nat
         /\ \A m \in Members : IndexIn(Members, m) \in Nat
<1>1. /\ cluster.hosts \in Nat /\ Members \in SUBSET (1..cluster.hosts)
      /\ Workers \in SUBSET (1..cluster.hosts)
  BY SetUp DEF Host
<1>2. Cardinality(Workers) \in Nat
  BY <1>1, Ranks
<1>3. /\ Cardinality(Members) \in Nat
      /\ \A m \in Members : IndexIn(Members, m) \in 1..Cardinality(Members)
  BY <1>1, Ranks
<1> QED BY <1>2, <1>3

\* The target of k8s_cp_offline or k8s_wn_offline is a host.
LEMMA OfflineIs ==
  ASSUME cluster \in Clusters, failure \in cluster.failures, SpawnOffline
  PROVE  \E t \in Host :
           tloop' = IsolateCut(t) /\ todo' = <<>> /\ ttodo' = <<>>
<1>1. ASSUME NEW S \in {Members, Workers}, ~(Cardinality(S) < 3)
      PROVE  InOrder(S)[3] \in Host
  <2>1. cluster.hosts \in Nat /\ S \in SUBSET (1..cluster.hosts) /\ S \subseteq Host
    BY SetUp DEF Host
  <2>2. Cardinality(S) \in Nat
    BY <2>1, Ranks
  <2>3. 3 \in 1..Cardinality(S)
    BY <1>1, <2>2
  <2>4. InOrder(S)[3] \in S
    BY <2>1, <2>3, Ordered
  <2> QED BY <2>1, <2>4
<1>2. CASE failure = "k8s_cp_offline"
  <2>1. /\ ~(Cardinality(Members) < 3) /\ tloop' = IsolateCut(InOrder(Members)[3])
        /\ todo' = <<>> /\ ttodo' = <<>>
    BY <1>2 DEF SpawnOffline, Apply, ListTooShort
  <2> QED BY <1>1, <2>1
<1>3. CASE failure = "k8s_wn_offline"
  <2>1. /\ ~(Cardinality(Workers) < 3) /\ tloop' = IsolateCut(InOrder(Workers)[3])
        /\ todo' = <<>> /\ ttodo' = <<>>
    BY <1>3 DEF SpawnOffline, Apply, ListTooShort
  <2> QED BY <1>1, <2>1
<1> QED BY <1>2, <1>3 DEF SpawnOffline

\* Program points and places keep their types.
LEMMA TypeControlStep ==
  ASSUME TypeInv, FlowInv, [Next]_vars
  PROVE  TypeControl'
<1>0. UNCHANGED <<failure, cluster>>
  BY Frames
<1> USE <1>0 DEF TypeInv, TypeControl, ExecPoints, ThreadPoints
<1>1. CASE Applies
  <2>1. next' = next /\ exec' = "fault"
    BY <1>1, ApplyIs
  <2>2. thread' \in {thread, "test"}
    BY <1>1 DEF Applies, ApplyNull, ApplyStat, KillLeader, Recover, KillN,
       CreatePartition, CreateRegionOffline, RemovePartition, SpawnPartial,
       SpawnFull, SpawnOffline, RemoveIntermittent, threadVars
  <2> QED BY <2>1, <2>2
<1>2. CASE Moves
  <2>1. UNCHANGED <<next, thread>>
    BY <1>2, MoveIs DEF threadVars
  <2>2. exec' \in ExecPoints
    BY <1>2 DEF Moves, BootEnds, AskReturns, ApplyRaises, FaultStepRaises,
       SleepEnds
  <2> QED BY <2>1, <2>2
<1>3. CASE LoopMoves
  <2>1. UNCHANGED <<next, exec>>
    BY <1>3, LoopMoveIs DEF otherThanThread
  <2>2. thread' \in ThreadPoints
    BY <1>3 DEF LoopMoves, LoopTest, CutDone, HoldEnds, HealDone, PauseEnds
  <2> QED BY <2>1, <2>2
<1>4. CASE BootNode
  BY <1>4 DEF BootNode, threadVars
<1>5. CASE AskLeader
  BY <1>5 DEF AskLeader, unasked, threadVars
<1>6. CASE AskHost
  BY <1>6 DEF AskHost, unasked, threadVars
<1>7. CASE FaultStep
  BY <1>7 DEF FaultStep, threadVars
<1>8. CASE FaultEnds
  <2>2. next' \in 1..5 /\ thread' = thread
    <3>1. next \in {1, 2, 3, 4}
      BY <1>8, Now DEF FaultEnds
    <3>2. next' = next + 1 /\ thread' = thread
      BY <1>8 DEF FaultEnds, threadVars
    <3> QED BY <3>1, <3>2
  <2>3. exec' \in {"done", "sleep"}
    BY <1>8 DEF FaultEnds
  <2> QED BY <2>2, <2>3
<1>9. CASE ThreadStep
  BY <1>9 DEF ThreadStep, otherThanThread
<1>10. CASE Election
  BY <1>10 DEF Election, threadVars
<1>11. CASE UNCHANGED vars
  BY <1>11 DEF vars
<1> QED BY <1>1, <1>2, <1>3, <1>4, <1>5, <1>6, <1>7, <1>8, <1>9, <1>10,
           <1>11, Frames

\* The lists of both threads stay lists of commands.
LEMMA TypeListsStep ==
  ASSUME TypeInv, FlowInv, DownInv, [Next]_vars
  PROVE  TypeLists'
<1>0. UNCHANGED <<failure, cluster>> /\ Command' = Command
  BY Frames, SameSetUp
<1>t. /\ todo \in Seq(Command) /\ tloop \in Seq(Command) /\ ttodo \in Seq(Command)
      /\ cluster \in Clusters /\ failure \in cluster.failures
  BY DEF TypeInv, TypeLists, TypeControl
<1>e. <<>> \in Seq(Command)
  OBVIOUS
<1>1. CASE Applies
  <2>1. CASE ApplyNull \/ ApplyStat \/ SpawnFull \/ RemoveIntermittent
    BY <1>0, <1>t, <1>e, <2>1 DEF ApplyNull, ApplyStat, SpawnFull,
       RemoveIntermittent, Apply, threadVars, TypeLists
  <2>2. CASE KillLeader
    <3>1. exec = "told" /\ UNCHANGED threadVars
          /\ todo' \in {<<Stop(found), Record(found)>>, <<Stop(found)>>}
      BY <2>2 DEF KillLeader, Apply, AsksLeader
    <3>2. found \in Host
      BY <3>1, Told
    <3>3. Stop(found) \in Command /\ Record(found) \in Command
      BY <3>2, Words
    <3>4. <<Stop(found)>> \in Seq(Command)
      BY <3>3
    <3>5. <<Stop(found), Record(found)>> \in Seq(Command)
      BY <3>3
    <3> QED BY <1>0, <1>t, <3>1, <3>4, <3>5 DEF TypeLists, threadVars
  <2>3. CASE Recover
    <3>1. todo' = <<Start(killed)>> /\ UNCHANGED threadVars /\ Fault = "recover"
          /\ exec \in {"apply", "told"}
      BY <2>3 DEF Recover, Apply
    <3>2. next = 3 /\ failure = "leader-recovery" /\ exec = "apply"
      BY <2>3, Now, Times, Told DEF Recover, Apply
    <3>3. killed \in Host
      BY <3>2 DEF DownInv, DownRecovery
    <3>4. todo' \in Seq(Command)
      BY <2>3, <3>3, Words DEF Recover, Apply
    <3> QED BY <1>0, <1>t, <2>3, <3>4 DEF TypeLists, threadVars, Recover
  <2>4. CASE KillN
    <3>1. UNCHANGED threadVars
          /\ todo' = [k \in 1..cluster.kills |->
                        IF k \in Host THEN Stop(k) ELSE OutOfRange]
      BY <2>4 DEF KillN, Apply
    <3>2. cluster.kills \in Nat
      BY <1>t, SetUp
    <3>3. todo' \in [1..cluster.kills -> Command]
      BY <3>1, Words
    <3>4. todo' \in Seq(Command)
      BY <3>2, <3>3
    <3> QED BY <1>0, <1>t, <3>1, <3>4 DEF TypeLists, threadVars
  <2>5. CASE CreatePartition
    <3>1. exec = "told" /\ UNCHANGED threadVars /\ todo' = PartialCut(found)
      BY <2>5 DEF CreatePartition, Apply, AsksLeader
    <3>2. PICK b \in Host : PartialCut(found) = <<Drop(found, b), Drop(b, found)>>
      BY <1>t, <3>1, Told, PartialCutIs
    <3>3. todo' \in Seq(Command)
      BY <3>1, <3>2, Told, Words
    <3> QED BY <1>0, <1>t, <3>1, <3>3 DEF TypeLists, threadVars
  <2>6. CASE CreateRegionOffline
    <3>1. /\ exec = "told" /\ UNCHANGED threadVars /\ todo' = RegionCut(found)
          /\ found \in Members
      BY <2>6, Told DEF CreateRegionOffline, Apply, AsksLeader
    <3>i. IndexIn(Members, found) <= Cardinality(Workers)
      <4>1. ~(IndexIn(Members, found) > Cardinality(Workers))
        BY <2>6, <3>1 DEF CreateRegionOffline, ListTooShort
      <4>2. IndexIn(Members, found) \in Int /\ Cardinality(Workers) \in Int
        BY <1>t, <3>1, RankTypes
      <4> QED BY <4>1, <4>2
    <3>2. todo' \in Seq(Command)
      BY <1>t, <3>1, <3>i, RegionCutIs
    <3> QED BY <1>0, <1>t, <3>1, <3>2 DEF TypeLists, threadVars
  <2>7. CASE RemovePartition
    <3>1. todo' = HealAll /\ UNCHANGED threadVars
      BY <2>7 DEF RemovePartition, Apply
    <3>2. HealAll \in Seq(Command)
      BY HealAllIs DEF TypeInv, TypeNet
    <3> QED BY <1>0, <1>t, <3>1, <3>2 DEF TypeLists, threadVars
  <2>8. CASE SpawnPartial
    <3>1. /\ exec = "told" /\ tloop' = PartialCut(found)
          /\ todo' = <<>> /\ ttodo' = <<>>
      BY <2>8 DEF SpawnPartial, Apply, AsksLeader
    <3>2. PICK b \in Host : PartialCut(found) = <<Drop(found, b), Drop(b, found)>>
      BY <1>t, <3>1, Told, PartialCutIs
    <3>3. tloop' \in Seq(Command)
      BY <3>1, <3>2, Told, Words
    <3> QED BY <1>0, <1>e, <3>1, <3>3 DEF TypeLists
  <2>9. CASE SpawnOffline
    <3>1. PICK t \in Host :
            tloop' = IsolateCut(t) /\ todo' = <<>> /\ ttodo' = <<>>
      BY <1>t, <2>9, OfflineIs
    <3>2. tloop' \in Seq(Command)
      BY <1>t, <3>1, IsolateCutIs
    <3> QED BY <1>0, <1>e, <3>1, <3>2 DEF TypeLists
  <2> QED BY <1>1, <2>1, <2>2, <2>3, <2>4, <2>5, <2>6, <2>7, <2>8, <2>9
          DEF Applies
<1>2. CASE Moves
  BY <1>0, <1>t, <1>2, MoveIs DEF threadVars, TypeLists
<1>3. CASE LoopMoves
  <2>1. UNCHANGED <<todo, tloop>>
    BY <1>3, LoopMoveIs DEF otherThanThread
  <2>2. ttodo' \in {ttodo, tloop, HealAll}
    BY <1>3 DEF LoopMoves, LoopTest, CutDone, HoldEnds, HealDone, PauseEnds
  <2>3. HealAll \in Seq(Command)
    BY HealAllIs DEF TypeInv, TypeNet
  <2> QED BY <1>0, <1>t, <2>1, <2>2, <2>3 DEF TypeLists
<1>4. CASE BootNode
  BY <1>0, <1>t, <1>4 DEF BootNode, threadVars, TypeLists
<1>5. CASE AskLeader
  BY <1>0, <1>t, <1>5 DEF AskLeader, unasked, threadVars, TypeLists
<1>6. CASE AskHost
  BY <1>0, <1>t, <1>6 DEF AskHost, unasked, threadVars, TypeLists
<1>7. CASE FaultStep
  BY <1>0, <1>t, <1>7 DEF FaultStep, threadVars, TypeLists
<1>8. CASE FaultEnds
  BY <1>0, <1>t, <1>8 DEF FaultEnds, threadVars, TypeLists
<1>9. CASE ThreadStep
  BY <1>0, <1>t, <1>9 DEF ThreadStep, otherThanThread, TypeLists
<1>10. CASE Election
  BY <1>0, <1>t, <1>10 DEF Election, threadVars, TypeLists
<1>11. CASE UNCHANGED vars
  BY <1>0, <1>t, <1>11 DEF vars, TypeLists
<1> QED BY <1>1, <1>2, <1>3, <1>4, <1>5, <1>6, <1>7, <1>8, <1>9, <1>10,
           <1>11, Frames

\* A command that names a host names one of the cluster.
LEMMA CommandHost ==
  ASSUME NEW c \in Command
  PROVE  /\ c.op \in {"drop", "undo", "stop", "start", "record"} => c.host \in Host
         /\ c.op = "drop" => c.remote \in Host
BY DEF Command

\* A server that starts keeps the types of the servers.
LEMMA StartTypes ==
  ASSUME TypeServers, Host' = Host, Members' = Members, NEW h \in Host, StartNode(h)
  PROVE  TypeServers'
BY DEF TypeServers, StartNode

\* A server that stops keeps the types of the servers.
LEMMA StopTypes ==
  ASSUME TypeServers, Host' = Host, Members' = Members, NEW h \in Host, StopNode(h)
  PROVE  TypeServers'
BY DEF TypeServers, StopNode, NoHost

\* The five kinds of command keep network and servers well typed.
LEMMA PerformTypes ==
  ASSUME TypeNet, TypeServers, Host' = Host, Members' = Members, Host \subseteq Nat,
         NEW c \in Command, Perform(c)
  PROVE  TypeNet' /\ TypeServers'
<1>s. ASSUME UNCHANGED serverVars PROVE TypeServers'
  BY <1>s DEF TypeServers, serverVars
<1>n. ASSUME UNCHANGED <<rules, partitioned, killed>> PROVE TypeNet'
  BY <1>n DEF TypeNet
<1>1. CASE c.op = "drop" /\ InsertRule(c.host, c.remote)
  <2>1. c.host \in Host /\ c.remote \in Nat
    BY <1>1, CommandHost
  <2>2. rules[c.host] \in Seq(Nat)
    BY <2>1 DEF TypeNet
  <2>3. <<c.remote>> \in Seq(Nat)
    BY <2>1
  <2>4. <<c.remote>> \o rules[c.host] \in Seq(Nat)
    BY <2>2, <2>3, ConcatProperties
  <2>5. rules' = [rules EXCEPT ![c.host] = <<c.remote>> \o rules[c.host]]
        /\ partitioned' = Append(partitioned, c.host)
        /\ UNCHANGED <<killed, serverVars>>
    BY <1>1 DEF InsertRule
  <2>6. rules' \in [Host -> Seq(Nat)]
    BY <2>1, <2>4, <2>5 DEF TypeNet
  <2>7. partitioned' \in Seq(Host)
    BY <2>1, <2>5 DEF TypeNet
  <2> QED BY <1>s, <2>5, <2>6, <2>7 DEF TypeNet
<1>2. CASE c.op = "undo" /\ DeleteRule(c.host)
  <2>1. c.host \in Host
    BY <1>2, CommandHost
  <2>2. /\ rules' = [rules EXCEPT ![c.host] = IF rules[c.host] = <<>>
                                              THEN rules[c.host]
                                              ELSE Tail(rules[c.host])]
        /\ UNCHANGED <<partitioned, killed, serverVars>>
    BY <1>2 DEF DeleteRule
  <2>3. rules' \in [Host -> Seq(Nat)]
    BY <2>1, <2>2 DEF TypeNet
  <2> QED BY <1>s, <2>2, <2>3 DEF TypeNet
<1>3. CASE /\ c.op = "clear" /\ partitioned' = <<>>
           /\ UNCHANGED <<rules, killed, serverVars>>
  BY <1>s, <1>3 DEF TypeNet
<1>4. CASE /\ \/ c.op = "stop" /\ StopNode(c.host)
              \/ c.op = "start" /\ StartNode(c.host)
           /\ UNCHANGED <<rules, partitioned, killed>>
  <2>1. c.host \in Host
    BY <1>4, CommandHost
  <2> QED BY <1>n, <1>4, <2>1, StartTypes, StopTypes
<1>5. CASE /\ c.op = "record" /\ killed' = c.host
           /\ UNCHANGED <<rules, partitioned, serverVars>>
  BY <1>s, <1>5, CommandHost DEF TypeNet
<1> QED BY <1>1, <1>2, <1>3, <1>4, <1>5 DEF Perform

\* start_nodes starts a host that is not up.
LEMMA BootIs ==
  ASSUME TypeInv, BootNode
  PROVE  \E h \in Host : h \notin up /\ StartNode(h)
<1> DEFINE S == Host \ up
<1>1. cluster.hosts \in Nat /\ S \in SUBSET (1..cluster.hosts)
  BY SetUp DEF TypeInv, TypeControl, Host
<1>2. S # {}
  BY DEF BootNode, TypeInv, TypeServers
<1>3. IsFiniteSet(S) /\ Cardinality(S) \in Nat
  BY <1>1, Ranks
<1>4. Cardinality(S) # 0
  BY <1>2, <1>3, FS_EmptySet
<1> HIDE DEF S
<1>5. First(S) \in S
  <2>1. 1 \in 1..Cardinality(S)
    BY <1>3, <1>4
  <2> QED BY <1>1, <2>1, Ordered DEF First
<1> QED BY <1>5 DEF BootNode, S

\* An election keeps leader and former leaders among the members that run.
LEMMA ElectionTypes ==
  ASSUME TypeInv, Members' = Members, Host' = Host, NEW h \in Members,
         Elect(h) \/ StepDown(h)
  PROVE  TypeServers'
<1>0. NoHost \notin Host /\ Members \subseteq Host
  BY SetUp DEF TypeInv, TypeControl
<1>1. CASE Elect(h)
  <2>1. /\ h \in Members \cap up /\ leader' = h /\ up' = up
        /\ stale' \subseteq stale \cup ({leader} \ {NoHost})
    BY <1>1 DEF Elect
  <2>2. term' \in Nat /\ logged' \in [Host -> Nat]
    <3>1. CASE cluster.system = "ocons"
      BY <1>1, <3>1 DEF Elect, TypeInv, TypeServers
    <3>2. CASE cluster.system # "ocons"
      BY <1>1, <3>2 DEF Elect, TypeInv, TypeServers
    <3> QED BY <3>1, <3>2
  <2> QED BY <2>1, <2>2 DEF TypeInv, TypeServers
<1>2. CASE StepDown(h)
  BY <1>2 DEF StepDown, TypeInv, TypeServers
<1> QED BY <1>1, <1>2

\* Chains, the list of partitions and servers keep their types.
LEMMA TypeNetServersStep ==
  ASSUME TypeInv, [Next]_vars
  PROVE  TypeNet' /\ TypeServers'
<1>0. /\ UNCHANGED <<failure, cluster>> /\ Host' = Host /\ Members' = Members
      /\ Host \subseteq Nat
  BY Frames, SameSetUp, SetUp DEF TypeInv, TypeControl
<1>s. ASSUME UNCHANGED serverVars PROVE TypeServers'
  BY <1>0, <1>s DEF TypeInv, TypeServers, serverVars
<1>n. ASSUME UNCHANGED <<rules, partitioned, killed>> PROVE TypeNet'
  BY <1>0, <1>n DEF TypeInv, TypeNet
<1>q. ASSUME UNCHANGED netVars PROVE TypeNet' /\ TypeServers'
  BY <1>s, <1>n, <1>q DEF netVars
<1>1. CASE Applies
  BY <1>1, <1>q, ApplyIs
<1>2. CASE Moves
  BY <1>2, <1>q, MoveIs
<1>3. CASE LoopMoves
  BY <1>3, <1>q, LoopMoveIs
<1>4. CASE BootNode
  <2>1. PICK h \in Host : StartNode(h)
    BY <1>4, BootIs
  <2> QED BY <1>0, <1>4, <1>n, <2>1, StartTypes DEF BootNode, TypeInv
<1>5. CASE AskLeader
  BY <1>5, <1>q DEF AskLeader, unasked
<1>6. CASE AskHost
  BY <1>6, <1>q DEF AskHost, unasked
<1>7. CASE FaultStep
  <2>1. Head(todo) \in Command /\ Perform(Head(todo))
    BY <1>7 DEF FaultStep, TypeInv, TypeLists
  <2> QED BY <1>0, <2>1, PerformTypes DEF TypeInv
<1>8. CASE FaultEnds
  BY <1>8, <1>q DEF FaultEnds
<1>9. CASE ThreadStep
  <2>1. Head(ttodo) \in Command /\ Perform(Head(ttodo))
    BY <1>9 DEF ThreadStep, TypeInv, TypeLists
  <2> QED BY <1>0, <2>1, PerformTypes DEF TypeInv
<1>10. CASE Election
  BY <1>0, <1>10, <1>n, ElectionTypes DEF Election
<1>11. CASE UNCHANGED vars
  BY <1>11, <1>s, <1>n DEF vars
<1> QED BY <1>1, <1>2, <1>3, <1>4, <1>5, <1>6, <1>7, <1>8, <1>9, <1>10,
           <1>11, Frames

\* Every host of a key-value store is a member.
LEMMA StoreMembers ==
  ASSUME cluster \in Clusters, failure \in cluster.failures,
         cluster.system # "kubernetes"
  PROVE  Members = Host
BY ClusterAssumption DEF Members, Host

\* get_leader asks one more host; what it may find.
LEMMA AskIs ==
  ASSUME TypeInv, AskNext
  PROVE  /\ asked < cluster.hosts /\ asked' = asked + 1 /\ asked + 1 \in Host
         /\ found' \in {found} \cup Claims \cup {asked + 1}
         /\ cluster.system \in {"etcd", "zookeeper", "kubernetes"} =>
              found' \in {found} \cup Claims
         /\ best' \in Nat /\ claimed' = claimed
<1>1. /\ asked \in Nat /\ asked < cluster.hosts /\ asked' = asked + 1
      /\ asked + 1 \in Host
  BY SetUp DEF AskNext, TypeInv, TypeControl, TypeAsk
<1>2. CASE AskEtcd(asked + 1)
  BY <1>1, <1>2 DEF AskEtcd, AskNext, TypeInv, TypeAsk
<1>3. CASE AskZookeeper(asked + 1)
  BY <1>1, <1>3 DEF AskZookeeper, AskNext, TypeInv, TypeAsk
<1>4. CASE AskOcons(asked + 1)
  BY <1>1, <1>4 DEF AskOcons, AskNext, TypeInv, TypeAsk, TypeServers
<1>5. CASE AskConspire(asked + 1)
  BY <1>1, <1>5 DEF AskConspire, AskNext, TypeInv, TypeAsk
<1>6. CASE AskKubernetes(asked + 1)
  BY <1>1, <1>6 DEF AskKubernetes, AskNext, TypeInv, TypeAsk
<1> QED BY <1>1, <1>2, <1>3, <1>4, <1>5, <1>6 DEF AskNext

\* Only members of the cluster claim to lead.
LEMMA ClaimTypes ==
  ASSUME TypeServers, NoHost \notin Host, Members \subseteq Host
  PROVE  Claims \subseteq Members
BY DEF TypeServers, Claims

\* What get_leader holds keeps its type.
LEMMA TypeAskStep ==
  ASSUME TypeInv, [Next]_vars
  PROVE  TypeAsk'
<1>0. /\ UNCHANGED <<failure, cluster>> /\ Host' = Host /\ Members' = Members
      /\ Members \subseteq Host /\ NoHost \notin Host
      /\ cluster.hosts \in Nat
  BY Frames, SameSetUp, SetUp DEF TypeInv, TypeControl
<1>c. Claims \subseteq Members /\ Claims' \subseteq Members
  BY <1>0, TypeNetServersStep, ClaimTypes DEF TypeInv, TypeServers, Claims
<1>q. ASSUME UNCHANGED askVars PROVE TypeAsk'
  BY <1>0, <1>q DEF TypeInv, TypeAsk, askVars
<1>1. CASE Applies
  BY <1>0, <1>1, ApplyIs DEF ForgetAnswer, TypeAsk
<1>2. CASE Moves
  BY <1>2, <1>q, MoveIs
<1>3. CASE LoopMoves
  BY <1>3, <1>q, LoopMoveIs DEF otherThanThread
<1>4. CASE BootNode
  BY <1>4, <1>q DEF BootNode
<1>5. CASE AskLeader
  <2>1. /\ asked' = 0 /\ found' = NoHost /\ best' = 0
        /\ claimed' = Claims \cup (IF cluster.system = "ocons" THEN Newest ELSE {})
        /\ steady' = (Claims = {leader})
    BY <1>5 DEF AskLeader, BeginAsk
  <2>2. claimed' \subseteq Host
    BY <1>0, <1>c, <2>1 DEF Newest
  <2>3. steady' \in BOOLEAN
    BY <2>1
  <2> QED BY <1>0, <2>1, <2>2, <2>3 DEF TypeAsk
<1>6. CASE AskHost
  <2>1. AskNext
    BY <1>6 DEF AskHost
  <2>2. /\ asked' = asked + 1 /\ asked < cluster.hosts /\ best' \in Nat
        /\ claimed' = claimed /\ steady' = steady
    BY <2>1, AskIs DEF AskNext
  <2>3. found' \in Members \cup {NoHost}
    <3>1. CASE cluster.system \in {"etcd", "zookeeper", "kubernetes"}
      BY <1>c, <2>1, <3>1, AskIs DEF TypeInv, TypeAsk
    <3>2. CASE cluster.system # "kubernetes"
      <4>1. Members = Host
        BY <3>2, StoreMembers DEF TypeInv, TypeControl
      <4> QED BY <1>c, <2>1, <4>1, AskIs DEF TypeInv, TypeAsk
    <3> QED BY <3>1, <3>2
  <2>4. asked' \in 0..cluster.hosts
    BY <1>0, <2>2 DEF TypeInv, TypeAsk
  <2> QED BY <1>0, <2>2, <2>3, <2>4 DEF TypeInv, TypeAsk
<1>7. CASE FaultStep
  BY <1>7, <1>q DEF FaultStep
<1>8. CASE FaultEnds
  BY <1>8, <1>q DEF FaultEnds
<1>9. CASE ThreadStep
  BY <1>9, <1>q DEF ThreadStep, otherThanThread
<1>10. CASE Election
  <2>1. CASE exec = "ask"
    <3>1. /\ claimed' = claimed \cup Claims'
          /\ steady' = (steady /\ Claims' = Claims)
          /\ UNCHANGED <<asked, found, best>>
      BY <1>10, <2>1 DEF Election, Witness
    <3>2. claimed' \subseteq Host
      BY <1>0, <1>c, <3>1 DEF TypeInv, TypeAsk
    <3>3. steady' \in BOOLEAN
      BY <3>1
    <3> QED BY <1>0, <3>1, <3>2, <3>3 DEF TypeInv, TypeAsk
  <2>2. CASE exec # "ask"
    BY <1>10, <1>q, <2>2 DEF Election
  <2> QED BY <2>1, <2>2
<1>11. CASE UNCHANGED vars
  BY <1>11, <1>q DEF vars
<1> QED BY <1>1, <1>2, <1>3, <1>4, <1>5, <1>6, <1>7, <1>8, <1>9, <1>10,
           <1>11, Frames

\* Every step keeps the types.
LEMMA TypeStep ==
  ASSUME TypeInv, FlowInv, DownInv, [Next]_vars
  PROVE  TypeInv'
BY TypeControlStep, TypeListsStep, TypeNetServersStep, TypeAskStep DEF TypeInv

-----------------------------------------------------------------------------
(***************************************************************************)
(* Control.                                                                *)
(***************************************************************************)

\* Which list a fault begins with, by failure type.
LEMMA ApplyLists ==
  ASSUME TypeInv, FlowInv, Applies
  PROVE  /\ failure \in ByThread => todo' = <<>>
         /\ Spawns => failure \in ByThread /\ next = 2 /\ Fault = "create"
         /\ ~Spawns => UNCHANGED threadVars
         /\ failure \in ByExecute =>
              \/ next = 2 /\ (CreatePartition \/ CreateRegionOffline)
              \/ next = 3 /\ RemovePartition
              \/ next \in {1, 4} /\ todo' = <<>>
         /\ failure \notin ByExecute \cup ByThread =>
              ApplyNull \/ ApplyStat \/ KillLeader \/ Recover \/ KillN
         /\ exec # "done" /\ next \in 1..Len(Schedule)
         /\ failure \in AllFailureTypes
<1>0. exec # "done" /\ next \in 1..Len(Schedule) /\ failure \in AllFailureTypes
  BY ApplyIs, Now
<1>1. CASE ApplyNull
  BY <1>0, <1>1, Times DEF ApplyNull, Apply, Spawns, SpawnPartial, SpawnFull,
     SpawnOffline, ByExecute, ByThread
<1>2. CASE ApplyStat
  BY <1>0, <1>2, Times DEF ApplyStat, Apply, Spawns, SpawnPartial, SpawnFull,
     SpawnOffline, ByExecute, ByThread
<1>3. CASE KillLeader
  BY <1>0, <1>3, Times DEF KillLeader, Apply, Spawns, SpawnPartial, SpawnFull,
     SpawnOffline, ByExecute, ByThread
<1>4. CASE Recover
  BY <1>0, <1>4, Times DEF Recover, Apply, Spawns, SpawnPartial, SpawnFull,
     SpawnOffline, ByExecute, ByThread
<1>5. CASE KillN
  BY <1>0, <1>5, Times DEF KillN, Apply, Spawns, SpawnPartial, SpawnFull,
     SpawnOffline, ByExecute, ByThread
<1>6. CASE CreatePartition
  BY <1>0, <1>6, Times DEF CreatePartition, Apply, Spawns, SpawnPartial,
     SpawnFull, SpawnOffline, ByExecute, ByThread
<1>7. CASE CreateRegionOffline
  BY <1>0, <1>7, Times DEF CreateRegionOffline, Apply, Spawns, SpawnPartial,
     SpawnFull, SpawnOffline, ByExecute, ByThread
<1>8. CASE RemovePartition
  BY <1>0, <1>8, Times DEF RemovePartition, Apply, Spawns, SpawnPartial,
     SpawnFull, SpawnOffline, ByExecute, ByThread
<1>9. CASE Spawns
  BY <1>0, <1>9, Times DEF Spawns, SpawnPartial, SpawnFull, SpawnOffline,
     Apply, ByExecute, ByThread
<1>10. CASE RemoveIntermittent
  BY <1>0, <1>10, Times DEF RemoveIntermittent, Apply, Spawns, SpawnPartial,
     SpawnFull, SpawnOffline, ByExecute, ByThread
<1> QED BY <1>1, <1>2, <1>3, <1>4, <1>5, <1>6, <1>7, <1>8, <1>9, <1>10
        DEF Applies, Spawns

\* Every step keeps the control of both threads in order.
LEMMA FlowStep ==
  ASSUME TypeInv, FlowInv, TimeInv, [Next]_vars
  PROVE  FlowInv'
<1>0. UNCHANGED <<failure, cluster>> /\ Schedule' = Schedule
  BY Frames, SameSetUp
<1>q. ASSUME UNCHANGED <<next, exec, todo, threadVars, found>> PROVE FlowInv'
  BY <1>0, <1>q DEF FlowInv, Asking, AsksLeader, Fault, threadVars
<1>1. CASE Applies
  <2>1. exec' = "fault" /\ next' = next /\ next \in 1..Len(Schedule)
    BY <1>1, ApplyIs, ApplyLists
  <2>2. failure \in ByThread => todo' = <<>>
    BY <1>1, ApplyLists
  <2>3. (thread' # "none" => failure \in ByThread)
        /\ (thread' \notin {"cut", "heal"} => ttodo' = <<>>)
    <3>1. CASE Spawns
      <4>1. failure \in ByThread /\ next = 2 /\ Early
        BY <1>1, <3>1, ApplyLists, ApplyIs DEF Early
      <4>2. thread = "none" /\ ttodo = <<>>
        BY <4>1 DEF TimeInv, FlowInv
      <4>3. ttodo' = <<>>
        BY <3>1, <4>2 DEF Spawns, SpawnPartial, SpawnFull, SpawnOffline
      <4> QED BY <4>1, <4>3
    <3>2. CASE ~Spawns
      BY <1>1, <3>2, ApplyLists DEF threadVars, FlowInv
    <3> QED BY <3>1, <3>2
  <2> QED BY <1>0, <2>1, <2>2, <2>3 DEF FlowInv, Asking
<1>2. CASE Moves
  <2>1. UNCHANGED <<next, todo, thread, ttodo, found>>
    BY <1>2, MoveIs DEF threadVars, askVars
  <2>2. CASE BootEnds
    BY <1>0, <2>1, <2>2 DEF BootEnds, FlowInv, Asking
  <2>3. CASE AskReturns
    BY <1>0, <2>1, <2>3 DEF AskReturns, FlowInv, Asking, AsksLeader, Fault
  <2>4. CASE ApplyRaises
    BY <1>0, <2>1, <2>4 DEF ApplyRaises, FlowInv, Asking
  <2>5. CASE FaultStepRaises
    BY <1>0, <2>1, <2>5 DEF FaultStepRaises, FlowInv, Asking
  <2>6. CASE SleepEnds
    BY <1>0, <2>1, <2>6 DEF SleepEnds, FlowInv, Asking
  <2> QED BY <1>2, <2>2, <2>3, <2>4, <2>5, <2>6 DEF Moves
<1>3. CASE LoopMoves
  <2>1. UNCHANGED <<next, exec, todo, found>>
    BY <1>3, LoopMoveIs DEF otherThanThread, askVars
  <2>2. /\ thread' # "none" => failure \in ByThread
        /\ thread' \notin {"cut", "heal"} => ttodo' = <<>>
    BY <1>3 DEF LoopMoves, LoopTest, CutDone, HoldEnds, HealDone, PauseEnds,
       FlowInv
  <2> QED BY <1>0, <2>1, <2>2 DEF FlowInv, Asking, AsksLeader, Fault
<1>4. CASE BootNode
  BY <1>4, <1>q DEF BootNode, askVars
<1>5. CASE AskLeader
  <2>1. /\ exec = "apply" /\ AsksLeader /\ exec' = "ask"
        /\ UNCHANGED <<next, todo, thread, ttodo>>
    BY <1>5 DEF AskLeader, unasked, threadVars
  <2>2. next = 2
    BY <2>1, Now, Times DEF AsksLeader
  <2> QED BY <1>0, <2>1, <2>2 DEF FlowInv, Asking, AsksLeader, Fault
<1>6. CASE AskHost
  BY <1>0, <1>6 DEF AskHost, unasked, threadVars, FlowInv, Asking, AsksLeader,
     Fault
<1>7. CASE FaultStep
  <2>1. /\ exec = "fault" /\ todo # <<>>
        /\ UNCHANGED <<next, exec, thread, ttodo>>
    BY <1>7 DEF FaultStep, threadVars
  <2> QED BY <1>0, <2>1 DEF FlowInv, Asking
<1>8. CASE FaultEnds
  <2>1. /\ exec = "fault" /\ todo = <<>> /\ next' = next + 1
        /\ exec' = IF next = Len(Schedule) THEN "done" ELSE "sleep"
        /\ UNCHANGED <<todo, thread, ttodo>>
    BY <1>8 DEF FaultEnds, threadVars
  <2>2. next \in 1..Len(Schedule) /\ next \in {1, 2, 3, 4}
        /\ Len(Schedule) \in {2, 3, 4}
    BY <2>1, Now, Places
  <2>3. PICK n \in {2, 3, 4} : n = Len(Schedule)
    BY <2>2
  <2>4. \/ exec' = "done" /\ next' > n
        \/ exec' = "sleep" /\ next' \in 1..n
    BY <2>1, <2>2, <2>3
  <2> QED BY <1>0, <2>1, <2>3, <2>4 DEF FlowInv, Asking
<1>9. CASE ThreadStep
  <2>1. /\ thread \in {"cut", "heal"} /\ UNCHANGED <<next, exec, todo, found, thread>>
    BY <1>9 DEF ThreadStep, otherThanThread, askVars
  <2> QED BY <1>0, <2>1 DEF FlowInv, Asking, AsksLeader, Fault
<1>10. CASE Election
  <2>1. UNCHANGED <<next, exec, todo, threadVars, found>>
    BY <1>10 DEF Election, askVars
  <2> QED BY <1>q, <2>1
<1>11. CASE UNCHANGED vars
  BY <1>11, <1>q DEF vars, askVars, threadVars
<1> QED BY <1>1, <1>2, <1>3, <1>4, <1>5, <1>6, <1>7, <1>8, <1>9, <1>10,
           <1>11, Frames

-----------------------------------------------------------------------------
(***************************************************************************)
(* What is left of a list of commands.                                     *)
(***************************************************************************)
LEMMA PerformIs ==
  ASSUME NEW c, Perform(c)
  PROVE  /\ IsDrop(c) => InsertRule(c.host, c.remote)
         /\ \A h : c = Undo(h) => DeleteRule(h)
         /\ c = Clear => partitioned' = <<>> /\ UNCHANGED <<rules, killed, serverVars>>
         /\ IsServer(c) => UNCHANGED <<rules, partitioned>> /\ c # OutOfRange
         /\ \A h : c = Stop(h) => StopNode(h) /\ UNCHANGED killed
         /\ \A h : c = Start(h) => StartNode(h) /\ UNCHANGED killed
         /\ \A h : c = Record(h) => killed' = h /\ UNCHANGED serverVars
<1>1. ASSUME IsDrop(c) PROVE InsertRule(c.host, c.remote)
  <2>1. c.op = "drop"
    BY <1>1, DropIs
  <2> QED BY <2>1 DEF Perform
<1>2. ASSUME NEW h, c = Undo(h) PROVE DeleteRule(h)
  <2>1. c.op = "undo" /\ c.host = h
    BY <1>2 DEF Undo
  <2> QED BY <2>1 DEF Perform
<1>3. ASSUME c = Clear
      PROVE  partitioned' = <<>> /\ UNCHANGED <<rules, killed, serverVars>>
  <2>1. c.op = "clear"
    BY <1>3 DEF Clear
  <2> QED BY <2>1 DEF Perform
<1>4. ASSUME IsServer(c) PROVE UNCHANGED <<rules, partitioned>> /\ c # OutOfRange
  <2>1. c.op \in {"stop", "start", "record", "raise"}
        /\ (c = OutOfRange => c.op = "raise")
    BY <1>4 DEF IsServer, OutOfRange
  <2> QED BY <2>1 DEF Perform
<1>5. ASSUME NEW h, c = Stop(h) PROVE StopNode(h) /\ UNCHANGED killed
  <2>1. c.op = "stop" /\ c.host = h
    BY <1>5 DEF Stop
  <2> QED BY <2>1 DEF Perform
<1>6. ASSUME NEW h, c = Start(h) PROVE StartNode(h) /\ UNCHANGED killed
  <2>1. c.op = "start" /\ c.host = h
    BY <1>6 DEF Start
  <2> QED BY <2>1 DEF Perform
<1>7. ASSUME NEW h, c = Record(h) PROVE killed' = h /\ UNCHANGED serverVars
  <2>1. c.op = "record" /\ c.host = h
    BY <1>7 DEF Record
  <2> QED BY <2>1 DEF Perform
<1> QED BY <1>1, <1>2, <1>3, <1>4, <1>5, <1>6, <1>7

\* The rest of a list.
LEMMA Rest ==
  ASSUME NEW S, NEW s \in Seq(S), s # <<>>
  PROVE  /\ Len(s) \in Nat \ {0} /\ Head(s) = s[1] /\ Tail(s) \in Seq(S)
         /\ Len(Tail(s)) = Len(s) - 1
         /\ \A k \in 1..Len(Tail(s)) : Tail(s)[k] = s[k + 1] /\ k + 1 \in 1..Len(s)
         /\ 1 \in 1..Len(s)
         /\ Tail(s) # <<>> <=> Len(s) > 1
<1>1. Len(s) \in Nat \ {0} /\ 1 \in 1..Len(s)
  OBVIOUS
<1>2. Head(s) = s[1] /\ Tail(s) \in Seq(S) /\ Len(Tail(s)) = Len(s) - 1
  BY <1>1
<1>3. \A k \in 1..Len(Tail(s)) : Tail(s)[k] = s[k + 1] /\ k + 1 \in 1..Len(s)
  BY <1>1, <1>2
<1>4. Tail(s) # <<>> <=> Len(Tail(s)) # 0
  BY <1>2, EmptySeq
<1> QED BY <1>1, <1>2, <1>3, <1>4

\* The first command of what is left of HealAll, and the rest.
LEMMA RestHealing ==
  ASSUME partitioned \in Seq(Host), NEW s \in Seq(Command), Healing(s)
  PROVE  /\ Len(s) > 1 =>
              /\ Len(partitioned) + 2 - Len(s) \in 1..Len(partitioned)
              /\ Head(s) = Undo(partitioned[Len(partitioned) + 2 - Len(s)])
              /\ Healing(Tail(s))
         /\ Len(s) <= 1 => Head(s) = Clear /\ Tail(s) = <<>> /\ Len(s) = 1
<1> DEFINE n == Len(partitioned)
           t == Tail(s)
<1>0. /\ n \in Nat /\ s # <<>> /\ Len(s) <= n + 1 /\ s[Len(s)] = Clear
      /\ \A k \in 1..(Len(s) - 1) : s[k] = Undo(partitioned[n + 1 - Len(s) + k])
  BY DEF Healing
<1>1. /\ Len(s) \in Nat \ {0} /\ Head(s) = s[1] /\ t \in Seq(Command)
      /\ Len(t) = Len(s) - 1
      /\ \A k \in 1..Len(t) : t[k] = s[k + 1]
      /\ t # <<>> <=> Len(s) > 1
  BY <1>0, Rest
<1> HIDE DEF n, t
<1>2. CASE Len(s) > 1
  <2>1. n + 2 - Len(s) \in 1..n /\ Head(s) = Undo(partitioned[n + 2 - Len(s)])
    <3>1. 1 \in 1..(Len(s) - 1) /\ n + 1 - Len(s) + 1 = n + 2 - Len(s)
      BY <1>0, <1>1, <1>2
    <3> QED BY <1>0, <1>1, <1>2, <3>1
  <2>2. t # <<>> /\ Len(t) <= n + 1 /\ t[Len(t)] = Clear
    <3>1. Len(t) \in 1..Len(t) /\ Len(t) + 1 = Len(s)
      BY <1>1, <1>2
    <3> QED BY <1>0, <1>1, <1>2, <3>1
  <2>3. \A k \in 1..(Len(t) - 1) : t[k] = Undo(partitioned[n + 1 - Len(t) + k])
    <3> SUFFICES ASSUME NEW k \in 1..(Len(t) - 1)
                 PROVE  t[k] = Undo(partitioned[n + 1 - Len(t) + k])
      OBVIOUS
    <3>1. /\ k \in 1..Len(t) /\ k + 1 \in 1..(Len(s) - 1)
          /\ n + 1 - Len(s) + (k + 1) = n + 1 - Len(t) + k
      BY <1>0, <1>1
    <3>2. t[k] = s[k + 1]
      BY <1>1, <3>1
    <3>3. s[k + 1] = Undo(partitioned[n + 1 - Len(s) + (k + 1)])
      BY <1>0, <3>1
    <3> QED BY <3>1, <3>2, <3>3
  <2> QED BY <1>1, <1>2, <2>1, <2>2, <2>3 DEF Healing, n, t
<1>3. CASE Len(s) <= 1
  BY <1>0, <1>1, <1>3 DEF t
<1> QED BY <1>1, <1>2, <1>3

\* The commands of the killing faults concern servers only.
LEMMA KillingLists ==
  ASSUME TypeInv, FlowInv, DownInv, KillLeader \/ Recover \/ KillN
  PROVE  \A k \in 1..Len(todo') : IsServer(todo'[k])
<1>1. CASE KillLeader
  <2>1. exec = "told" /\ todo' \in {<<Stop(found), Record(found)>>, <<Stop(found)>>}
    BY <1>1 DEF KillLeader, Apply, AsksLeader
  <2>2. IsServer(Stop(found)) /\ IsServer(Record(found))
    BY <2>1, Told, Words
  <2>3. CASE todo' = <<Stop(found)>>
    BY <2>2, <2>3
  <2>4. CASE todo' = <<Stop(found), Record(found)>>
    BY <2>2, <2>4
  <2> QED BY <2>1, <2>3, <2>4
<1>2. CASE Recover
  <2>1. next = 3 /\ failure = "leader-recovery" /\ exec = "apply"
        /\ todo' = <<Start(killed)>>
    BY <1>2, Now, Times, Told DEF Recover, Apply
  <2>2. IsServer(Start(killed))
    BY <2>1, Words DEF DownInv, DownRecovery
  <2> QED BY <2>1, <2>2
<1>3. CASE KillN
  <2>1. todo' = [k \in 1..cluster.kills |->
                   IF k \in Host THEN Stop(k) ELSE OutOfRange]
    BY <1>3 DEF KillN, Apply
  <2>2. Len(todo') = cluster.kills
    BY <2>1, SetUp DEF TypeInv, TypeControl
  <2> QED BY <2>1, <2>2, Words
<1> QED BY <1>1, <1>2, <1>3

\* The commands of the partitions are drops.
LEMMA CutLists ==
  ASSUME TypeInv, FlowInv
  PROVE  /\ CreatePartition \/ CreateRegionOffline =>
              \A k \in 1..Len(todo') : IsDrop(todo'[k])
         /\ CreateRegionOffline =>
              /\ found \in Members /\ todo' = RegionCut(found)
              /\ IndexIn(Members, found) <= Cardinality(Workers)
         /\ SpawnPartial \/ SpawnOffline =>
              \A k \in 1..Len(tloop') : IsDrop(tloop'[k])
<1>t. cluster \in Clusters /\ failure \in cluster.failures
  BY DEF TypeInv, TypeControl
<1>p. ASSUME exec = "told"
      PROVE  \A k \in 1..Len(PartialCut(found)) : IsDrop(PartialCut(found)[k])
  <2>1. found \in Host
    BY <1>p, Told
  <2>2. PICK b \in Host : PartialCut(found) = <<Drop(found, b), Drop(b, found)>>
    BY <1>t, <2>1, PartialCutIs
  <2>3. IsDrop(Drop(found, b)) /\ IsDrop(Drop(b, found))
    BY <2>1, Words
  <2> QED BY <2>2, <2>3
<1>1. ASSUME CreatePartition PROVE \A k \in 1..Len(todo') : IsDrop(todo'[k])
  <2>1. exec = "told" /\ todo' = PartialCut(found)
    BY <1>1 DEF CreatePartition, Apply, AsksLeader
  <2> QED BY <1>p, <2>1
<1>2. ASSUME CreateRegionOffline
      PROVE  /\ found \in Members /\ todo' = RegionCut(found)
             /\ IndexIn(Members, found) <= Cardinality(Workers)
  <2>1. exec = "told" /\ todo' = RegionCut(found) /\ found \in Members
    BY <1>2, Told DEF CreateRegionOffline, Apply, AsksLeader
  <2>2. ~(IndexIn(Members, found) > Cardinality(Workers))
    BY <1>2, <2>1 DEF CreateRegionOffline, ListTooShort
  <2>3. IndexIn(Members, found) \in Int /\ Cardinality(Workers) \in Int
    BY <1>t, <2>1, RankTypes
  <2> QED BY <2>1, <2>2, <2>3
<1>3. ASSUME CreateRegionOffline PROVE \A k \in 1..Len(todo') : IsDrop(todo'[k])
  BY <1>t, <1>2, <1>3, RegionCutIs
<1>4. ASSUME SpawnPartial PROVE \A k \in 1..Len(tloop') : IsDrop(tloop'[k])
  <2>1. exec = "told" /\ tloop' = PartialCut(found)
    BY <1>4 DEF SpawnPartial, Apply, AsksLeader
  <2> QED BY <1>p, <2>1
<1>5. ASSUME SpawnOffline PROVE \A k \in 1..Len(tloop') : IsDrop(tloop'[k])
  <2>1. PICK t \in Host : tloop' = IsolateCut(t)
    BY <1>t, <1>5, OfflineIs
  <2> QED BY <1>t, <2>1, IsolateCutIs
<1> QED BY <1>1, <1>2, <1>3, <1>4, <1>5

\* Only kill-n has a command that raises.
LEMMA RaisesIs ==
  ASSUME TypeInv, FlowInv, ListInv, FaultStepRaises
  PROVE  failure \notin ByExecute \cup ByThread
<1>t. todo \in Seq(Command) /\ partitioned \in Seq(Host)
  BY DEF TypeInv, TypeLists, TypeNet
<1>1. todo # <<>> /\ Head(todo) = OutOfRange
  BY DEF FaultStepRaises
<1>2. Head(todo) = todo[1] /\ 1 \in 1..Len(todo) /\ Len(todo) \in Nat
  BY <1>t, <1>1, Rest
<1>3. ASSUME failure \in ByExecute PROVE FALSE
  <2>1. CASE \A k \in 1..Len(todo) : IsDrop(todo[k])
    BY <1>1, <1>2, <2>1 DEF IsDrop, OutOfRange
  <2>2. CASE Healing(todo)
    <3>1. \/ Head(todo) = Clear
          \/ \E h : Head(todo) = Undo(h)
      BY <1>t, <1>2, <2>2, RestHealing
    <3> QED BY <1>1, <3>1 DEF Clear, Undo, OutOfRange
  <2> QED BY <1>1, <1>3, <2>1, <2>2 DEF ListInv
<1> QED BY <1>1, <1>3 DEF FlowInv

\* Every step leaves lists that fit the failure type and the moment.
LEMMA ListStep ==
  ASSUME TypeInv, FlowInv, ListInv, DownInv, TimeInv, [Next]_vars
  PROVE  ListInv'
<1>0. /\ UNCHANGED <<failure, cluster>>
      /\ \A c : IsDrop(c)' = IsDrop(c) /\ IsServer(c)' = IsServer(c)
  BY Frames, SameSetUp
<1>t. /\ todo \in Seq(Command) /\ ttodo \in Seq(Command)
      /\ partitioned \in Seq(Host)
  BY DEF TypeInv, TypeLists, TypeNet
<1>h. ASSUME UNCHANGED partitioned, NEW s
      PROVE  Healing(s)' <=> Healing(s)
  BY <1>h DEF Healing
<1>a. HealAll \in Seq(Command) /\ Healing(HealAll)
  BY <1>t, HealAllIs
<1>q. ASSUME UNCHANGED <<partitioned, todo, threadVars>>,
             \/ todo = <<>>
             \/ UNCHANGED <<exec, next>>
             \/ failure \notin ByExecute
      PROVE  ListInv'
  BY <1>0, <1>q DEF ListInv, Healing, threadVars
<1>1. CASE Applies
  <2>1. UNCHANGED <<next, partitioned>> /\ exec' = "fault"
    BY <1>1, ApplyIs DEF netVars
  <2>2. failure \in ByExecute /\ todo' # <<>> =>
          \/ next = 2 /\ \A k \in 1..Len(todo') : IsDrop(todo'[k])
          \/ next = 3 /\ Healing(todo')
    <3> SUFFICES ASSUME failure \in ByExecute, todo' # <<>>
                 PROVE  \/ next = 2 /\ \A k \in 1..Len(todo') : IsDrop(todo'[k])
                        \/ next = 3 /\ Healing(todo')
      OBVIOUS
    <3>1. CASE next = 2 /\ (CreatePartition \/ CreateRegionOffline)
      BY <3>1, CutLists
    <3>2. CASE next = 3 /\ RemovePartition
      BY <1>a, <3>2 DEF RemovePartition, Apply
    <3> QED BY <1>1, <3>1, <3>2, ApplyLists
  <2>3. /\ \A k \in 1..Len(tloop') : IsDrop(tloop'[k])
        /\ thread' = "cut" => \A k \in 1..Len(ttodo') : IsDrop(ttodo'[k])
        /\ thread' = "heal" /\ ttodo' # <<>> => Healing(ttodo')
    <3>1. CASE SpawnPartial \/ SpawnOffline
      BY <3>1, CutLists DEF SpawnPartial, SpawnOffline
    <3>2. CASE SpawnFull
      BY <3>2 DEF SpawnFull, ListInv
    <3>3. CASE ~Spawns
      BY <1>1, <3>3, ApplyLists DEF threadVars, ListInv
    <3> QED BY <3>1, <3>2, <3>3 DEF Spawns
  <2>4. failure \notin ByExecute \cup ByThread =>
          \A k \in 1..Len(todo') : IsServer(todo'[k])
    <3> SUFFICES ASSUME failure \notin ByExecute \cup ByThread
                 PROVE  \A k \in 1..Len(todo') : IsServer(todo'[k])
      OBVIOUS
    <3>1. CASE ApplyNull \/ ApplyStat
      BY <3>1 DEF ApplyNull, ApplyStat, Apply
    <3>2. CASE KillLeader \/ Recover \/ KillN
      BY <3>2, KillingLists
    <3> QED BY <1>1, <3>1, <3>2, ApplyLists
  <2> HIDE DEF Healing
  <2> QED BY <1>0, <1>h, <2>1, <2>2, <2>3, <2>4 DEF ListInv
<1>2. CASE Moves
  <2>1. UNCHANGED <<partitioned, todo, threadVars, next>>
    BY <1>2, MoveIs DEF netVars
  <2>2. \/ todo = <<>>
        \/ failure \notin ByExecute
    <3>1. CASE FaultStepRaises
      BY <3>1, RaisesIs
    <3>2. CASE ~FaultStepRaises
      BY <1>2, <3>2 DEF Moves, BootEnds, AskReturns, ApplyRaises, SleepEnds,
         FlowInv
    <3> QED BY <3>1, <3>2
  <2> QED BY <1>q, <2>1, <2>2
<1>3. CASE LoopMoves
  <2>1. UNCHANGED <<next, exec, todo, tloop, partitioned>>
    BY <1>3, LoopMoveIs DEF otherThanThread, netVars
  <2>2. /\ thread' = "cut" => \A k \in 1..Len(ttodo') : IsDrop(ttodo'[k])
        /\ thread' = "heal" /\ ttodo' # <<>> => Healing(ttodo')
    BY <1>3, <1>a DEF LoopMoves, LoopTest, CutDone, HoldEnds, HealDone,
       PauseEnds, ListInv
  <2> QED BY <1>0, <1>h, <2>1, <2>2 DEF ListInv
<1>4. CASE BootNode
  BY <1>4, <1>q DEF BootNode
<1>5. CASE AskLeader
  BY <1>5, <1>q DEF AskLeader, unasked, netVars, FlowInv
<1>6. CASE AskHost
  BY <1>6, <1>q DEF AskHost, unasked, netVars
<1>7. CASE FaultStep
  <2>1. /\ exec = "fault" /\ todo # <<>> /\ Perform(Head(todo))
        /\ todo' = Tail(todo) /\ UNCHANGED <<next, exec, threadVars>>
    BY <1>7 DEF FaultStep
  <2>2. /\ Head(todo) = todo[1] /\ 1 \in 1..Len(todo) /\ Len(todo) \in Nat
        /\ \A k \in 1..Len(todo') : todo'[k] = todo[k + 1] /\ k + 1 \in 1..Len(todo)
    BY <1>t, <2>1, Rest
  <2>3. failure \notin ByThread
    BY <2>1 DEF FlowInv
  <2>4. thread = "none" /\ thread' = "none" /\ tloop' = tloop
    BY <2>1, <2>3 DEF FlowInv, threadVars
  <2>5. CASE failure \in ByExecute
    <3>1. CASE next = 2 /\ \A k \in 1..Len(todo) : IsDrop(todo[k])
      <4>1. \A k \in 1..Len(todo') : IsDrop(todo'[k])
        BY <2>2, <3>1
      <4> QED BY <1>0, <2>1, <2>4, <2>5, <3>1, <4>1 DEF ListInv
    <3>2. CASE next = 3 /\ Healing(todo)
      <4>1. CASE Len(todo) > 1
        <5>1. Healing(todo') /\ \E h : Head(todo) = Undo(h)
          BY <1>t, <2>1, <3>2, <4>1, RestHealing
        <5>2. UNCHANGED partitioned
          BY <2>1, <5>1, PerformIs DEF DeleteRule
        <5> QED BY <1>0, <1>h, <2>1, <2>4, <2>5, <3>2, <5>1, <5>2 DEF ListInv
      <4>2. CASE Len(todo) <= 1
        <5>1. todo' = <<>>
          BY <1>t, <2>1, <3>2, <4>2, RestHealing
        <5> QED BY <1>0, <2>1, <2>4, <2>5, <5>1 DEF ListInv
      <4> QED BY <2>2, <4>1, <4>2
    <3> QED BY <2>1, <2>5, <3>1, <3>2 DEF ListInv
  <2>6. CASE failure \notin ByExecute
    <3>1. /\ \A k \in 1..Len(todo) : IsServer(todo[k])
          /\ partitioned = <<>>
      BY <2>3, <2>6 DEF ListInv
    <3>2. UNCHANGED partitioned
      BY <2>1, <2>2, <3>1, PerformIs
    <3>3. \A k \in 1..Len(todo') : IsServer(todo'[k])
      BY <2>2, <3>1
    <3> QED BY <1>0, <2>4, <2>6, <3>1, <3>2, <3>3 DEF ListInv
  <2> QED BY <2>5, <2>6
<1>8. CASE FaultEnds
  BY <1>8, <1>q DEF FaultEnds, netVars
<1>9. CASE ThreadStep
  <2>1. /\ thread \in {"cut", "heal"} /\ ttodo # <<>> /\ Perform(Head(ttodo))
        /\ ttodo' = Tail(ttodo) /\ UNCHANGED <<next, exec, todo, thread, tloop>>
    BY <1>9 DEF ThreadStep, otherThanThread
  <2>2. /\ Len(ttodo) \in Nat
        /\ \A k \in 1..Len(ttodo') : ttodo'[k] = ttodo[k + 1] /\ k + 1 \in 1..Len(ttodo)
    BY <1>t, <2>1, Rest
  <2>3. failure \in ByThread /\ failure \notin ByExecute
    BY <2>1 DEF FlowInv, ByThread, ByExecute
  <2>4. CASE thread = "cut"
    BY <1>0, <2>1, <2>2, <2>3, <2>4 DEF ListInv
  <2>5. CASE thread = "heal"
    <3>1. Healing(ttodo)
      BY <2>1, <2>5 DEF ListInv
    <3>2. CASE Len(ttodo) > 1
      <4>1. Healing(ttodo') /\ \E h : Head(ttodo) = Undo(h)
        BY <1>t, <2>1, <3>1, <3>2, RestHealing
      <4>2. UNCHANGED partitioned
        BY <2>1, <4>1, PerformIs DEF DeleteRule
      <4> QED BY <1>0, <1>h, <2>1, <2>3, <2>5, <4>1, <4>2 DEF ListInv
    <3>3. CASE Len(ttodo) <= 1
      <4>1. ttodo' = <<>>
        BY <1>t, <2>1, <3>1, <3>3, RestHealing
      <4> QED BY <1>0, <2>1, <2>3, <2>5, <4>1 DEF ListInv
    <3> QED BY <2>2, <3>2, <3>3
  <2> QED BY <2>1, <2>4, <2>5
<1>10. CASE Election
  BY <1>10, <1>q DEF Election
<1>11. CASE UNCHANGED vars
  BY <1>11, <1>q DEF vars, threadVars
<1> QED BY <1>1, <1>2, <1>3, <1>4, <1>5, <1>6, <1>7, <1>8, <1>9, <1>10,
           <1>11, Frames

\* partitioned is empty when it should be.
LEMMA TimeStep ==
  ASSUME TypeInv, FlowInv, ListInv, TimeInv, [Next]_vars
  PROVE  TimeInv'
<1>0. UNCHANGED <<failure, cluster>>
  BY Frames
<1>d. ByExecute \cap ByThread = {}
  BY DEF ByExecute, ByThread
<1>n. next \in 1..5
  BY DEF TypeInv, TypeControl
<1>q. ASSUME UNCHANGED <<next, exec, todo, threadVars, partitioned>>
      PROVE  TimeInv'
  BY <1>0, <1>q DEF TimeInv, Early, threadVars
<1>1. CASE Applies
  <2>1. UNCHANGED <<next, partitioned>> /\ exec' = "fault"
        /\ exec \in {"apply", "told"}
    BY <1>1, ApplyIs DEF netVars
  <2>2. failure \in ByExecute =>
          \/ next = 2
          \/ next = 3 /\ todo' # <<>>
          \/ next \in {1, 4} /\ todo' = <<>>
    <3>1. CASE next = 3 /\ RemovePartition
      <4>1. todo' = HealAll
        BY <3>1 DEF RemovePartition, Apply
      <4>2. Healing(HealAll)
        BY HealAllIs DEF TypeInv, TypeNet
      <4> QED BY <3>1, <4>1, <4>2 DEF Healing
    <3> QED BY <1>1, <3>1, ApplyLists
  <2>3. CASE Spawns
    <3>1. failure \in ByThread /\ next = 2 /\ thread' = "test"
      BY <1>1, <2>3, ApplyLists DEF Spawns, SpawnPartial, SpawnFull, SpawnOffline
    <3> QED BY <1>0, <1>d, <2>1, <3>1 DEF TimeInv, Early
  <2>4. CASE ~Spawns
    <3>1. UNCHANGED <<thread, tloop>>
      BY <1>1, <2>4, ApplyLists DEF threadVars
    <3> QED BY <1>0, <1>d, <2>1, <2>2, <3>1 DEF TimeInv, Early
  <2> QED BY <2>3, <2>4
<1>2. CASE Moves
  <2>1. UNCHANGED <<next, partitioned, todo, thread, tloop>>
    BY <1>2, MoveIs DEF netVars, threadVars
  <2>2. CASE BootEnds
    BY <1>0, <2>1, <2>2 DEF BootEnds, TimeInv, Early
  <2>3. CASE AskReturns
    BY <1>0, <2>1, <2>3 DEF AskReturns, TimeInv, Early
  <2>4. CASE ApplyRaises
    <3>1. exec # "fault" /\ exec' = "raised" /\ exec # "done"
      BY <2>4 DEF ApplyRaises
    <3>2. failure \in ByExecute => next = 2
      <4>1. exec = "unanswered" \/ Fault \in {"create", "stat"}
        BY <2>4 DEF ApplyRaises
      <4>2. CASE exec = "unanswered"
        BY <4>2 DEF FlowInv, Asking
      <4>3. CASE Fault \in {"create", "stat"}
        BY <3>1, <4>3, Now, Times DEF ByExecute
      <4> QED BY <4>1, <4>2, <4>3
    <3> QED BY <1>0, <2>1, <3>1, <3>2 DEF TimeInv, Early
  <2>5. CASE FaultStepRaises
    BY <1>0, <2>1, <2>5, RaisesIs DEF TimeInv
  <2>6. CASE SleepEnds
    BY <1>0, <2>1, <2>6 DEF SleepEnds, TimeInv, Early
  <2> QED BY <1>2, <2>2, <2>3, <2>4, <2>5, <2>6 DEF Moves
<1>3. CASE LoopMoves
  <2>1. UNCHANGED <<next, exec, todo, tloop, partitioned>>
    BY <1>3, LoopMoveIs DEF otherThanThread, netVars
  <2>2. thread # "none" /\ thread' # "none"
    BY <1>3 DEF LoopMoves, LoopTest, CutDone, HoldEnds, HealDone, PauseEnds
  <2>3. failure \in ByThread
    BY <2>2 DEF FlowInv
  <2> QED BY <1>0, <1>d, <2>1, <2>2, <2>3 DEF TimeInv, Early
<1>4. CASE BootNode
  BY <1>4, <1>q DEF BootNode
<1>5. CASE AskLeader
  <2>1. /\ exec = "apply" /\ exec' = "ask"
        /\ UNCHANGED <<next, todo, thread, tloop, partitioned>>
    BY <1>5 DEF AskLeader, unasked, netVars, threadVars
  <2> QED BY <1>0, <2>1 DEF TimeInv, Early
<1>6. CASE AskHost
  BY <1>6, <1>q DEF AskHost, unasked, netVars
<1>7. CASE FaultStep
  <2>1. /\ exec = "fault" /\ todo # <<>> /\ Perform(Head(todo))
        /\ todo' = Tail(todo) /\ UNCHANGED <<next, exec, thread, tloop>>
    BY <1>7 DEF FaultStep, threadVars
  <2>2. failure \notin ByThread
    BY <2>1 DEF FlowInv
  <2>3. CASE failure \in ByExecute
    <3>1. CASE next = 2
      BY <1>0, <1>d, <2>1, <2>3, <3>1 DEF TimeInv, Early
    <3>2. CASE next = 3 /\ Healing(todo)
      <4>0. todo \in Seq(Command) /\ partitioned \in Seq(Host)
        BY DEF TypeInv, TypeLists, TypeNet
      <4>1. CASE Len(todo) > 1
        <5>1. todo' # <<>>
          BY <2>1, <3>2, <4>0, <4>1, RestHealing DEF Healing
        <5> QED BY <1>0, <1>d, <2>1, <2>3, <3>2, <5>1 DEF TimeInv, Early
      <4>2. CASE Len(todo) <= 1
        <5>1. partitioned' = <<>>
          BY <2>1, <3>2, <4>0, <4>2, RestHealing, PerformIs
        <5> QED BY <1>0, <1>d, <2>1, <2>3, <3>2, <5>1 DEF TimeInv, Early
      <4>3. Len(todo) \in Nat
        BY <4>0
      <4> QED BY <4>1, <4>2, <4>3
    <3> QED BY <2>1, <2>3, <3>1, <3>2 DEF ListInv
  <2>4. CASE failure \notin ByExecute
    BY <1>0, <2>1, <2>2, <2>4 DEF TimeInv
  <2> QED BY <2>3, <2>4
<1>8. CASE FaultEnds
  <2>1. /\ exec = "fault" /\ todo = <<>> /\ next' = next + 1
        /\ exec' \in {"done", "sleep"}
        /\ UNCHANGED <<todo, thread, tloop, partitioned>>
    BY <1>8 DEF FaultEnds, threadVars, netVars
  <2> QED BY <1>0, <1>n, <2>1 DEF TimeInv, Early
<1>9. CASE ThreadStep
  <2>1. thread # "none" /\ UNCHANGED <<next, exec, todo, thread, tloop>>
    BY <1>9 DEF ThreadStep, otherThanThread
  <2>2. failure \in ByThread
    BY <2>1 DEF FlowInv
  <2> QED BY <1>0, <1>d, <2>1, <2>2 DEF TimeInv, Early
<1>10. CASE Election
  BY <1>10, <1>q DEF Election
<1>11. CASE UNCHANGED vars
  BY <1>11, <1>q DEF vars, threadVars
<1> QED BY <1>1, <1>2, <1>3, <1>4, <1>5, <1>6, <1>7, <1>8, <1>9, <1>10,
           <1>11, Frames

-----------------------------------------------------------------------------
(***************************************************************************)
(* Chains.                                                                 *)
(***************************************************************************)
Chain(h) ==
  /\ Len(rules[h]) = Cardinality(Pending(h)) + Len(BaseRules[h])
  /\ h \in cluster.firewalled => rules[h][Cardinality(Pending(h)) + 1] = 0

\* Finitely many entries are still to be undone.
LEMMA PendingFinite ==
  ASSUME partitioned \in Seq(Host), NEW h
  PROVE  IsFiniteSet(Pending(h)) /\ Cardinality(Pending(h)) \in Nat
<1>1. IsFiniteSet(1..Len(partitioned))
  BY FS_Interval
<1>2. Pending(h) \in SUBSET (1..Len(partitioned))
  BY DEF Pending
<1>3. IsFiniteSet(Pending(h))
  BY <1>1, <1>2, FS_Subset
<1> QED BY <1>3, FS_CardinalityType

\* The rules a host begins with.
LEMMA BaseIs ==
  ASSUME NEW h \in Host
  PROVE  /\ h \in cluster.firewalled => BaseRules[h] = <<0>> /\ Len(BaseRules[h]) = 1
         /\ h \notin cluster.firewalled => BaseRules[h] = <<>> /\ Len(BaseRules[h]) = 0
BY DEF BaseRules

\* partition() puts a rule on top and an entry at the end.
LEMMA ChainDrop ==
  ASSUME TypeNet, ChainInv, Undone = 0, Undone' = 0, UNCHANGED <<failure, cluster>>,
         NEW g \in Host, NEW r \in Nat, InsertRule(g, r)
  PROVE  ChainInv'
<1>0. Host' = Host /\ BaseRules' = BaseRules
  BY SameSetUp
<1>t. partitioned \in Seq(Host) /\ rules \in [Host -> Seq(Nat)]
  BY DEF TypeNet
<1>1. /\ rules' = [rules EXCEPT ![g] = <<r>> \o rules[g]]
      /\ partitioned' = Append(partitioned, g)
  BY DEF InsertRule
<1> DEFINE n == Len(partitioned)
<1>2. /\ n \in Nat /\ Len(partitioned') = n + 1 /\ partitioned'[n + 1] = g
      /\ \A k \in 1..n : partitioned'[k] = partitioned[k]
  BY <1>t, <1>1
<1> SUFFICES ASSUME NEW h \in Host PROVE Chain(h)'
  BY <1>0 DEF ChainInv, Chain
<1>3. Chain(h)
  BY DEF ChainInv, Chain
<1>4. IsFiniteSet(Pending(h)) /\ Cardinality(Pending(h)) \in Nat
  BY <1>t, PendingFinite
<1>5. Pending(h)' = IF h = g THEN Pending(h) \cup {n + 1} ELSE Pending(h)
  <2>1. Pending(h) = {k \in 1..n : k > 0 /\ partitioned[k] = h}
    BY DEF Pending
  <2>2. Pending(h)' = {k \in 1..(n + 1) : k > 0 /\ partitioned'[k] = h}
    BY <1>2 DEF Pending
  <2> HIDE DEF n
  <2>3. \A k \in 1..(n + 1) : k \in 1..n \/ k = n + 1
    BY <1>2
  <2> QED BY <1>2, <2>1, <2>2, <2>3
<1>6. n + 1 \notin Pending(h)
  BY <1>2 DEF Pending
<1>7. CASE h = g
  <2>1. Cardinality(Pending(h)') = Cardinality(Pending(h)) + 1
    BY <1>4, <1>5, <1>6, <1>7, FS_AddElement
  <2> DEFINE s == rules[h]
             q == <<r>> \o s
  <2>2. s \in Seq(Nat) /\ <<r>> \in Seq(Nat) /\ Len(<<r>>) = 1
    BY <1>t
  <2>3. /\ Len(q) = Len(<<r>>) + Len(s)
        /\ \A i \in 1..(Len(<<r>>) + Len(s)) :
             q[i] = IF i <= Len(<<r>>) THEN <<r>>[i] ELSE s[i - Len(<<r>>)]
    BY <2>2, ConcatProperties
  <2>4. rules'[h] = q
    BY <1>t, <1>1, <1>7
  <2> HIDE DEF q, s
  <2>5. Len(s) = Cardinality(Pending(h)) + Len(BaseRules[h])
        /\ (h \in cluster.firewalled => s[Cardinality(Pending(h)) + 1] = 0)
    BY <1>3 DEF Chain, s
  <2>6. Len(q) = Cardinality(Pending(h)') + Len(BaseRules[h])
    BY <1>4, <2>1, <2>2, <2>3, <2>5, BaseIs
  <2>7. ASSUME h \in cluster.firewalled PROVE q[Cardinality(Pending(h)') + 1] = 0
    <3> DEFINE c == Cardinality(Pending(h))
    <3>1. c \in Nat /\ Len(s) = c + 1 /\ s[c + 1] = 0
      BY <1>4, <2>5, <2>7, BaseIs
    <3> HIDE DEF c
    <3>2. c + 2 \in 1..(Len(<<r>>) + Len(s)) /\ ~(c + 2 <= Len(<<r>>))
          /\ c + 2 - Len(<<r>>) = c + 1
      BY <2>2, <3>1
    <3>3. q[c + 2] = 0
      BY <2>3, <3>1, <3>2
    <3>4. Cardinality(Pending(h)') + 1 = c + 2
      BY <1>4, <2>1 DEF c
    <3> QED BY <3>3, <3>4
  <2> QED BY <1>0, <2>4, <2>6, <2>7 DEF Chain
<1>8. CASE h # g
  <2>1. rules'[h] = rules[h] /\ Pending(h)' = Pending(h)
    BY <1>t, <1>1, <1>5, <1>8
  <2> QED BY <1>0, <1>3, <2>1 DEF Chain
<1> QED BY <1>7, <1>8

\* Removal takes the top rule of the next host in the list.
LEMMA ChainUndo ==
  ASSUME TypeNet, ChainInv, UNCHANGED <<failure, cluster>>,
         NEW u \in Nat, u + 1 \in 1..Len(partitioned), Undone = u, Undone' = u + 1,
         DeleteRule(partitioned[u + 1])
  PROVE  ChainInv'
<1>0. Host' = Host /\ BaseRules' = BaseRules
  BY SameSetUp
<1>t. partitioned \in Seq(Host) /\ rules \in [Host -> Seq(Nat)]
  BY DEF TypeNet
<1> DEFINE g == partitioned[u + 1]
<1>1. /\ g \in Host /\ partitioned' = partitioned
      /\ rules' = [rules EXCEPT ![g] = IF rules[g] = <<>> THEN rules[g]
                                       ELSE Tail(rules[g])]
  BY <1>t DEF DeleteRule
<1> SUFFICES ASSUME NEW h \in Host PROVE Chain(h)'
  BY <1>0 DEF ChainInv, Chain
<1>2. Chain(h)
  BY DEF ChainInv, Chain
<1>3. IsFiniteSet(Pending(h)) /\ Cardinality(Pending(h)) \in Nat
  BY <1>t, PendingFinite
<1>4. Pending(h)' = Pending(h) \ {u + 1} /\ (u + 1 \in Pending(h) <=> h = g)
  <2>1. Pending(h) = {k \in 1..Len(partitioned) : k > u /\ partitioned[k] = h}
    BY DEF Pending
  <2>2. Pending(h)' = {k \in 1..Len(partitioned) : k > u + 1 /\ partitioned[k] = h}
    BY <1>1 DEF Pending
  <2>3. \A k \in 1..Len(partitioned) : k > u <=> k > u + 1 \/ k = u + 1
    BY <1>t
  <2> QED BY <2>1, <2>2, <2>3
<1> HIDE DEF g
<1>5. CASE h = g
  <2>1. Cardinality(Pending(h)') = Cardinality(Pending(h)) - 1
    BY <1>3, <1>4, <1>5, FS_RemoveElement
  <2>2. Cardinality(Pending(h)) # 0
    BY <1>3, <1>4, <1>5, FS_EmptySet
  <2> DEFINE s == rules[h]
             c == Cardinality(Pending(h))
  <2>3. /\ s \in Seq(Nat) /\ c \in Nat \ {0} /\ Len(s) = c + Len(BaseRules[h])
        /\ h \in cluster.firewalled => s[c + 1] = 0
    BY <1>t, <1>2, <1>3, <2>2 DEF Chain
  <2> HIDE DEF s, c
  <2>4. s # <<>>
    BY <2>3, BaseIs, EmptySeq
  <2>5. rules'[h] = Tail(s)
    BY <1>t, <1>1, <1>5, <2>4 DEF s
  <2>6. /\ Len(Tail(s)) = Len(s) - 1
        /\ \A k \in 1..Len(Tail(s)) : Tail(s)[k] = s[k + 1]
    BY <2>3, <2>4, Rest
  <2>7. Cardinality(Pending(h)') = c - 1
    BY <2>1 DEF c
  <2>8. Len(Tail(s)) = (c - 1) + Len(BaseRules[h])
    BY <2>3, <2>6, BaseIs
  <2>9. ASSUME h \in cluster.firewalled PROVE Tail(s)[(c - 1) + 1] = 0
    <3>1. Len(BaseRules[h]) = 1
      BY <2>9, BaseIs
    <3>2. Len(Tail(s)) = c /\ c \in 1..c /\ (c - 1) + 1 = c
      BY <2>3, <2>8, <3>1
    <3>3. Tail(s)[c] = 0
      BY <2>3, <2>6, <2>9, <3>2
    <3> QED BY <3>2, <3>3
  <2> QED BY <1>0, <2>5, <2>7, <2>8, <2>9 DEF Chain
<1>6. CASE h # g
  <2>1. rules'[h] = rules[h] /\ Pending(h)' = Pending(h)
    BY <1>t, <1>1, <1>4, <1>6
  <2> QED BY <1>0, <1>2, <2>1 DEF Chain
<1> QED BY <1>5, <1>6

\* Without an entry left the list may be forgotten.
LEMMA ChainClear ==
  ASSUME TypeNet, ChainInv, UNCHANGED <<failure, cluster, rules>>,
         Undone = Len(partitioned), partitioned' = <<>>
  PROVE  ChainInv'
<1>0. Host' = Host /\ BaseRules' = BaseRules
  BY SameSetUp
<1>1. Len(partitioned) \in Nat
  BY DEF TypeNet
<1>2. ASSUME NEW h PROVE Pending(h)' = Pending(h)
  <2>1. Pending(h) = {}
    BY <1>1 DEF Pending
  <2>2. Pending(h)' = {}
    BY DEF Pending
  <2> QED BY <2>1, <2>2
<1> QED BY <1>0, <1>2 DEF ChainInv

\* Every step keeps the chains and the list of partitions together.
LEMMA ChainStep ==
  ASSUME TypeInv, FlowInv, ListInv, TimeInv, ChainInv, [Next]_vars
  PROVE  ChainInv'
<1>0. /\ UNCHANGED <<failure, cluster>> /\ Host' = Host
      /\ BaseRules' = BaseRules
  BY Frames, SameSetUp
<1>t. /\ todo \in Seq(Command) /\ ttodo \in Seq(Command) /\ TypeNet
      /\ partitioned \in Seq(Host) /\ Len(partitioned) \in Nat
  BY DEF TypeInv, TypeLists, TypeNet
<1>d. /\ ByExecute \cap ByThread = {}
      /\ failure \notin ByThread => thread = "none"
  BY DEF ByExecute, ByThread, FlowInv
<1>q. ASSUME UNCHANGED <<rules, partitioned>>, Undone' = Undone
      PROVE  ChainInv'
  <2>1. \A h : Pending(h)' = Pending(h)
    BY <1>q DEF Pending
  <2> QED BY <1>0, <1>q, <2>1 DEF ChainInv
<1>a. Len(HealAll) = Len(partitioned) + 1
  BY <1>t, HealAllIs
<1>1. CASE Applies
  <2>1. UNCHANGED <<next, partitioned, rules>> /\ exec \in {"apply", "told"}
    BY <1>1, ApplyIs DEF netVars
  <2>2. todo = <<>>
    BY <2>1 DEF FlowInv
  <2>3. CASE failure \in ByExecute
    <3>1. thread = "none" /\ thread' = "none"
      BY <1>1, <1>d, <2>3, ApplyLists DEF threadVars
    <3>2. Undone = 0
      BY <2>2, <3>1 DEF Undone
    <3>3. CASE next = 3 /\ RemovePartition
      <4>1. Len(todo') = Len(partitioned) + 1
        BY <1>a, <3>3 DEF RemovePartition, Apply
      <4> QED BY <1>q, <1>t, <2>1, <3>1, <3>2, <4>1 DEF Undone
    <3>4. CASE next # 3
      <4>1. Undone' = 0
        BY <2>1, <3>1, <3>4 DEF Undone
      <4> QED BY <1>q, <2>1, <3>2, <4>1
    <3> QED BY <1>1, <2>3, <3>3, <3>4, ApplyLists
  <2>4. CASE failure \notin ByExecute
    <3>1. CASE Spawns
      <4>1. thread = "none"
        BY <1>1, <2>1, <3>1, ApplyLists DEF TimeInv, Early
      <4>2. thread' = "test"
        BY <3>1 DEF Spawns, SpawnPartial, SpawnFull, SpawnOffline
      <4> QED BY <1>0, <1>q, <2>1, <2>4, <4>1, <4>2 DEF Undone
    <3>2. CASE ~Spawns
      <4>1. UNCHANGED <<thread, ttodo>>
        BY <1>1, <3>2, ApplyLists DEF threadVars
      <4> QED BY <1>0, <1>q, <2>1, <2>4, <4>1 DEF Undone
    <3> QED BY <3>1, <3>2
  <2> QED BY <2>3, <2>4
<1>2. CASE Moves
  <2>1. UNCHANGED <<next, partitioned, rules, todo, thread, ttodo>>
    BY <1>2, MoveIs DEF netVars, threadVars
  <2> QED BY <1>0, <1>q, <2>1 DEF Undone
<1>3. CASE LoopMoves
  <2>1. UNCHANGED <<next, exec, todo, rules, partitioned>>
    BY <1>3, LoopMoveIs DEF otherThanThread, netVars
  <2>2. thread # "none"
    BY <1>3 DEF LoopMoves, LoopTest, CutDone, HoldEnds, HealDone, PauseEnds
  <2>3. failure \notin ByExecute
    BY <1>d, <2>2 DEF FlowInv
  <2>4. Undone = 0
    BY <1>3, <2>3 DEF LoopMoves, LoopTest, CutDone, HoldEnds, HealDone,
       PauseEnds, Undone
  <2>5. thread' = "heal" => ttodo' = HealAll
    BY <1>3 DEF LoopMoves, LoopTest, CutDone, HoldEnds, HealDone, PauseEnds
  <2>6. Undone' = 0
    <3> HIDE DEF HealAll
    <3> QED BY <1>0, <1>a, <1>t, <2>1, <2>3, <2>5 DEF Undone
  <2> QED BY <1>q, <2>1, <2>4, <2>6
<1>4. CASE BootNode
  BY <1>0, <1>4, <1>q DEF BootNode, Undone, threadVars
<1>5. CASE AskLeader
  BY <1>0, <1>5, <1>q DEF AskLeader, unasked, netVars, Undone, threadVars
<1>6. CASE AskHost
  BY <1>0, <1>6, <1>q DEF AskHost, unasked, netVars, Undone, threadVars
<1>7. CASE FaultStep
  <2>1. /\ exec = "fault" /\ todo # <<>> /\ Perform(Head(todo))
        /\ todo' = Tail(todo) /\ UNCHANGED <<next, exec, thread, ttodo>>
    BY <1>7 DEF FaultStep, threadVars
  <2>2. /\ Head(todo) = todo[1] /\ 1 \in 1..Len(todo) /\ Len(todo) \in Nat
        /\ Len(todo') = Len(todo) - 1
        /\ todo' # <<>> <=> Len(todo) > 1
    BY <1>t, <2>1, Rest
  <2>3. failure \notin ByThread /\ thread = "none" /\ thread' = "none"
    BY <1>d, <2>1 DEF FlowInv
  <2>4. CASE failure \in ByExecute
    <3>1. CASE next = 2 /\ \A k \in 1..Len(todo) : IsDrop(todo[k])
      <4>1. IsDrop(Head(todo))
        BY <2>2, <3>1
      <4>2. Undone = 0 /\ Undone' = 0
        BY <2>1, <2>3, <3>1 DEF Undone
      <4>3. Head(todo).host \in Host /\ Head(todo).remote \in Nat
        BY <4>1, DropIs DEF Host
      <4>4. InsertRule(Head(todo).host, Head(todo).remote)
        BY <2>1, <4>1, PerformIs
      <4> QED BY <1>0, <1>t, <4>2, <4>3, <4>4, ChainDrop
    <3>2. CASE next = 3 /\ Healing(todo)
      <4>0. Undone = Len(partitioned) + 1 - Len(todo)
        BY <2>1, <2>4, <3>2 DEF Undone
      <4>1. CASE Len(todo) > 1
        <5>0. Len(todo) <= Len(partitioned) + 1
          BY <3>2 DEF Healing
        <5> DEFINE u == Len(partitioned) + 1 - Len(todo)
        <5>1. u \in Nat
          <6>1. Len(todo) \in Nat /\ Len(partitioned) \in Nat
            BY <1>t, <2>2
          <6> QED BY <5>0, <6>1
        <5>2. u + 1 \in 1..Len(partitioned) /\ Head(todo) = Undo(partitioned[u + 1])
          <6>1. u + 1 = Len(partitioned) + 2 - Len(todo)
            BY <1>t, <2>2, <5>1
          <6> QED BY <1>t, <3>2, <4>1, <6>1, RestHealing
        <5>3. DeleteRule(partitioned[u + 1])
          BY <2>1, <5>2, PerformIs
        <5>4. Undone = u
          BY <4>0, <5>1
        <5>5. partitioned' = partitioned
          BY <5>3 DEF DeleteRule
        <5>6. Undone' = u + 1
          BY <1>0, <1>t, <2>1, <2>2, <2>4, <3>2, <4>1, <5>1, <5>5 DEF Undone
        <5> HIDE DEF u
        <5> QED BY <1>0, <1>t, <5>1, <5>2, <5>3, <5>4, <5>6, ChainUndo
      <4>2. CASE Len(todo) <= 1
        <5>1. Head(todo) = Clear /\ Len(todo) = 1
          BY <1>t, <3>2, <4>2, RestHealing
        <5>2. partitioned' = <<>> /\ UNCHANGED rules
          BY <2>1, <5>1, PerformIs
        <5>3. Undone = Len(partitioned)
          BY <1>t, <4>0, <5>1
        <5> QED BY <1>0, <1>t, <5>2, <5>3, ChainClear
      <4> QED BY <2>2, <4>1, <4>2
    <3> QED BY <2>1, <2>4, <3>1, <3>2 DEF ListInv
  <2>5. CASE failure \notin ByExecute
    <3>1. IsServer(Head(todo))
      BY <2>2, <2>3, <2>5 DEF ListInv
    <3>2. UNCHANGED <<rules, partitioned>>
      BY <2>1, <3>1, PerformIs
    <3>3. Undone = 0 /\ Undone' = 0
      BY <1>0, <2>3, <2>5 DEF Undone
    <3> QED BY <1>q, <3>2, <3>3
  <2> QED BY <2>4, <2>5
<1>8. CASE FaultEnds
  <2>1. /\ todo = <<>> /\ UNCHANGED <<todo, thread, ttodo, rules, partitioned>>
    BY <1>8 DEF FaultEnds, threadVars, netVars
  <2> QED BY <1>0, <1>q, <2>1 DEF Undone
<1>9. CASE ThreadStep
  <2>1. /\ thread \in {"cut", "heal"} /\ ttodo # <<>> /\ Perform(Head(ttodo))
        /\ ttodo' = Tail(ttodo) /\ UNCHANGED <<next, exec, todo, thread>>
    BY <1>9 DEF ThreadStep, otherThanThread
  <2>2. /\ Head(ttodo) = ttodo[1] /\ 1 \in 1..Len(ttodo) /\ Len(ttodo) \in Nat
        /\ Len(ttodo') = Len(ttodo) - 1
        /\ ttodo' # <<>> <=> Len(ttodo) > 1
    BY <1>t, <2>1, Rest
  <2>3. failure \notin ByExecute
    BY <1>d, <2>1 DEF FlowInv
  <2>4. CASE thread = "cut"
    <3>1. IsDrop(Head(ttodo))
      BY <2>2, <2>4 DEF ListInv
    <3>2. Undone = 0 /\ Undone' = 0
      BY <1>0, <2>1, <2>3, <2>4 DEF Undone
    <3>3. Head(ttodo).host \in Host /\ Head(ttodo).remote \in Nat
      BY <3>1, DropIs DEF Host
    <3>4. InsertRule(Head(ttodo).host, Head(ttodo).remote)
      BY <2>1, <3>1, PerformIs
    <3> QED BY <1>0, <1>t, <3>2, <3>3, <3>4, ChainDrop
  <2>5. CASE thread = "heal"
    <3>1. Healing(ttodo)
      BY <2>1, <2>5 DEF ListInv
    <3>2. Undone = Len(partitioned) + 1 - Len(ttodo)
      BY <2>1, <2>3, <2>5 DEF Undone
    <3>3. CASE Len(ttodo) > 1
      <4>0. Len(ttodo) <= Len(partitioned) + 1
        BY <3>1 DEF Healing
      <4>1. PICK u \in Nat : u = Len(partitioned) + 1 - Len(ttodo)
        BY <1>t, <2>2, <4>0
      <4>2. u + 1 \in 1..Len(partitioned) /\ Head(ttodo) = Undo(partitioned[u + 1])
        <5>1. u + 1 = Len(partitioned) + 2 - Len(ttodo)
          BY <1>t, <2>2, <4>1
        <5> QED BY <1>t, <3>1, <3>3, <5>1, RestHealing
      <4>3. DeleteRule(partitioned[u + 1])
        BY <2>1, <4>2, PerformIs
      <4>4. Undone = u
        BY <3>2, <4>1
      <4>5. partitioned' = partitioned
        BY <4>3 DEF DeleteRule
      <4>6. Undone' = u + 1
        BY <1>0, <1>t, <2>1, <2>2, <2>3, <2>5, <3>3, <4>1, <4>5 DEF Undone
      <4> QED BY <1>0, <1>t, <4>2, <4>3, <4>4, <4>6, ChainUndo
    <3>4. CASE Len(ttodo) <= 1
      <4>1. Head(ttodo) = Clear /\ Len(ttodo) = 1
        BY <1>t, <3>1, <3>4, RestHealing
      <4>2. partitioned' = <<>> /\ UNCHANGED rules
        BY <2>1, <4>1, PerformIs
      <4>3. Undone = Len(partitioned)
        BY <1>t, <3>2, <4>1
      <4> QED BY <1>0, <1>t, <4>2, <4>3, ChainClear
    <3> QED BY <2>2, <3>3, <3>4
  <2> QED BY <2>1, <2>4, <2>5
<1>10. CASE Election
  BY <1>0, <1>10, <1>q DEF Election, Undone, threadVars
<1>11. CASE UNCHANGED vars
  BY <1>0, <1>11, <1>q DEF vars, Undone
<1> QED BY <1>1, <1>2, <1>3, <1>4, <1>5, <1>6, <1>7, <1>8, <1>9, <1>10,
           <1>11, Frames

\* With no entry in partitioned every chain is the host's own.
LEMMA NoEntries ==
  ASSUME TypeNet, ChainInv, partitioned = <<>>, NoHost \notin Host
  PROVE  /\ \A h \in Host : rules[h] = BaseRules[h]
         /\ \A a, b \in Host : ~Drops(a, b)
<1>t. rules \in [Host -> Seq(Nat)]
  BY DEF TypeNet
<1>1. ASSUME NEW h PROVE Cardinality(Pending(h)) = 0
  <2>1. Pending(h) = {}
    BY DEF Pending
  <2> QED BY <2>1, FS_EmptySet
<1>2. ASSUME NEW h \in Host PROVE rules[h] = BaseRules[h]
  <2>1. /\ Len(rules[h]) = 0 + Len(BaseRules[h])
        /\ h \in cluster.firewalled => rules[h][0 + 1] = 0
    BY <1>1 DEF ChainInv
  <2>2. CASE h \in cluster.firewalled
    <3>1. Len(rules[h]) = 1 /\ rules[h][1] = 0 /\ BaseRules[h] = <<0>>
      BY <2>1, <2>2, BaseIs
    <3>2. rules[h] \in Seq(Nat)
      BY <1>t
    <3> QED BY <3>1, <3>2
  <2>3. CASE h \notin cluster.firewalled
    <3>1. Len(rules[h]) = 0 /\ BaseRules[h] = <<>>
      BY <2>1, <2>3, BaseIs
    <3>2. rules[h] \in Seq(Nat)
      BY <1>t
    <3> QED BY <3>1, <3>2, EmptySeq
  <2> QED BY <2>2, <2>3
<1>3. ASSUME NEW a \in Host, NEW b \in Host, Drops(a, b) PROVE FALSE
  <2>1. PICK k \in 1..Len(rules[a]) : rules[a][k] = b
    BY <1>3 DEF Drops
  <2>2. CASE a \in cluster.firewalled
    <3>1. rules[a] = <<0>>
      BY <1>2, <2>2, BaseIs
    <3>2. k = 1 /\ b = 0
      BY <2>1, <3>1
    <3> QED BY <3>2 DEF NoHost
  <2>3. CASE a \notin cluster.firewalled
    <3>1. rules[a] = <<>>
      BY <1>2, <2>3, BaseIs
    <3> QED BY <2>1, <3>1
  <2> QED BY <2>2, <2>3
<1> QED BY <1>2, <1>3

-----------------------------------------------------------------------------
(***************************************************************************)
(* Who is cut off from whom.                                               *)
(***************************************************************************)

\* A rule that is inserted cuts one host from another.
LEMMA InsertDrops ==
  ASSUME TypeNet, NEW g \in Host, NEW r \in Nat, InsertRule(g, r),
         NEW x \in Host, NEW y \in Host
  PROVE  Drops(x, y)' <=> Drops(x, y) \/ (x = g /\ y = r)
<1>t. rules \in [Host -> Seq(Nat)]
  BY DEF TypeNet
<1>1. rules' = [rules EXCEPT ![g] = <<r>> \o rules[g]]
  BY DEF InsertRule
<1>2. CASE x = g
  <2> DEFINE s == rules[x]
             q == <<r>> \o s
  <2>1. rules'[x] = q
    BY <1>t, <1>1, <1>2
  <2>2. s \in Seq(Nat) /\ <<r>> \in Seq(Nat) /\ Len(<<r>>) = 1
    BY <1>t
  <2>3. /\ Len(q) = Len(<<r>>) + Len(s)
        /\ \A i \in 1..(Len(<<r>>) + Len(s)) :
             q[i] = IF i <= Len(<<r>>) THEN <<r>>[i] ELSE s[i - Len(<<r>>)]
    BY <2>2, ConcatProperties
  <2>4. Len(s) \in Nat /\ <<r>>[1] = r
    BY <2>2
  <2> HIDE DEF q, s
  <2>5. /\ Len(q) = Len(s) + 1 /\ q[1] = r
        /\ \A i \in 1..Len(s) : q[i + 1] = s[i]
    <3>1. Len(q) = Len(s) + 1 /\ q[1] = r
      BY <2>2, <2>3, <2>4
    <3>2. ASSUME NEW i \in 1..Len(s) PROVE q[i + 1] = s[i]
      <4>1. /\ i + 1 \in 1..(Len(<<r>>) + Len(s)) /\ ~(i + 1 <= Len(<<r>>))
            /\ i + 1 - Len(<<r>>) = i
        BY <2>2, <2>4
      <4> QED BY <2>3, <4>1
    <3> QED BY <3>1, <3>2
  <2>6. (\E k \in 1..Len(q) : q[k] = y) <=> (\E k \in 1..Len(s) : s[k] = y) \/ y = r
    <3>1. ASSUME NEW k \in 1..Len(q), q[k] = y, y # r
          PROVE  \E j \in 1..Len(s) : s[j] = y
      <4>1. k # 1
        BY <2>5, <3>1
      <4>2. k - 1 \in 1..Len(s) /\ (k - 1) + 1 = k
        BY <2>4, <2>5, <4>1
      <4>3. s[k - 1] = y
        BY <2>5, <3>1, <4>2
      <4> QED BY <4>2, <4>3
    <3>2. ASSUME NEW k \in 1..Len(s), s[k] = y
          PROVE  \E j \in 1..Len(q) : q[j] = y
      <4>1. k + 1 \in 1..Len(q) /\ q[k + 1] = y
        BY <2>4, <2>5, <3>2
      <4> QED BY <4>1
    <3>3. 1 \in 1..Len(q)
      BY <2>4, <2>5
    <3> QED BY <2>5, <3>1, <3>2, <3>3
  <2>7. Drops(x, y) <=> \E k \in 1..Len(s) : s[k] = y
    BY DEF Drops, s
  <2>8. Drops(x, y)' <=> \E k \in 1..Len(q) : q[k] = y
    BY <2>1 DEF Drops
  <2> QED BY <1>2, <2>6, <2>7, <2>8
<1>3. CASE x # g
  <2>1. rules'[x] = rules[x]
    BY <1>t, <1>1, <1>3
  <2> QED BY <1>3, <2>1 DEF Drops
<1> QED BY <1>2, <1>3

\* Nothing else cuts hosts off.
LEMMA PerformDrops ==
  ASSUME TypeNet, NEW c \in Command, Perform(c), Host \subseteq Nat,
         NEW x \in Host, NEW y \in Host, Drops(x, y)'
  PROVE  Drops(x, y) \/ c = Drop(x, y)
<1>t. rules \in [Host -> Seq(Nat)]
  BY DEF TypeNet
<1>1. CASE IsDrop(c)
  <2>1. InsertRule(c.host, c.remote) /\ c.host \in Host /\ c.remote \in Host
    BY <1>1, PerformIs, DropIs
  <2>2. Drops(x, y) \/ (x = c.host /\ y = c.remote)
    BY <2>1, InsertDrops
  <2> QED BY <1>1, <2>2, DropIs
<1>2. CASE c.op = "undo"
  <2>1. DeleteRule(c.host)
    BY <1>2 DEF Perform
  <2>2. rules'[x] = rules[x] \/ (rules[x] # <<>> /\ rules'[x] = Tail(rules[x]))
    BY <1>t, <2>1 DEF DeleteRule
  <2>3. CASE rules'[x] = rules[x]
    BY <2>3 DEF Drops
  <2>4. CASE rules[x] # <<>> /\ rules'[x] = Tail(rules[x])
    <3>1. PICK k \in 1..Len(Tail(rules[x])) : Tail(rules[x])[k] = y
      BY <2>4 DEF Drops
    <3>2. rules[x][k + 1] = y /\ k + 1 \in 1..Len(rules[x])
      BY <1>t, <2>4, <3>1, Rest
    <3> QED BY <3>2 DEF Drops
  <2> QED BY <2>2, <2>3, <2>4
<1>3. CASE c.op \notin {"drop", "undo"}
  <2>1. UNCHANGED rules
    BY <1>3 DEF Perform
  <2> QED BY <2>1 DEF Drops
<1>4. c.op = "drop" => IsDrop(c)
  BY DEF Command, IsDrop
<1> QED BY <1>1, <1>2, <1>3, <1>4

\* The commands of a list are its first one and the rest.
LEMMA AmongRest ==
  ASSUME NEW s \in Seq(Command), s # <<>>, NEW c
  PROVE  Among(s, c) <=> c = Head(s) \/ Among(Tail(s), c)
<1>0. /\ Len(s) \in Nat \ {0} /\ Head(s) = s[1] /\ Tail(s) \in Seq(Command)
      /\ Len(Tail(s)) = Len(s) - 1
      /\ \A k \in 1..Len(Tail(s)) : Tail(s)[k] = s[k + 1] /\ k + 1 \in 1..Len(s)
      /\ 1 \in 1..Len(s)
  BY Rest
<1>1. ASSUME Among(s, c), c # Head(s) PROVE Among(Tail(s), c)
  <2>1. PICK k \in 1..Len(s) : s[k] = c
    BY <1>1 DEF Among
  <2>2. k # 1
    BY <1>0, <1>1, <2>1
  <2>3. k - 1 \in 1..Len(Tail(s)) /\ (k - 1) + 1 = k
    BY <1>0, <2>2
  <2>4. Tail(s)[k - 1] = c
    BY <1>0, <2>1, <2>3
  <2> QED BY <2>3, <2>4 DEF Among
<1>2. ASSUME Among(Tail(s), c) PROVE Among(s, c)
  BY <1>0, <1>2 DEF Among
<1>3. Among(s, Head(s))
  BY <1>0 DEF Among
<1> QED BY <1>1, <1>2, <1>3

\* A removal drops nothing.
LEMMA HealCutsNothing ==
  ASSUME partitioned \in Seq(Host), NEW x, NEW y
  PROVE  ~Among(HealAll, Drop(x, y))
<1>1. HealAll \in Seq(Command) /\ Healing(HealAll)
  BY HealAllIs
<1> DEFINE s == HealAll
<1> HIDE DEF s
<1>2. s \in Seq(Command) /\ Healing(s)
  BY <1>1 DEF s
<1>3. ASSUME NEW k \in 1..Len(s), s[k] = Drop(x, y) PROVE FALSE
  <2>1. Len(s) \in Nat
    BY <1>2
  <2>2. k = Len(s) \/ k \in 1..(Len(s) - 1)
    BY <2>1
  <2>3. s[k] = Clear \/ \E h : s[k] = Undo(h)
    BY <1>2, <2>2 DEF Healing
  <2>4. Clear.op = "clear" /\ (\A h : Undo(h).op = "undo") /\ Drop(x, y).op = "drop"
    BY DEF Clear, Undo, Drop
  <2> QED BY <1>3, <2>3, <2>4
<1> QED BY <1>3 DEF Among, s

\* x is cut off from y, or will be.
Touches(x, y) ==
  \/ Drops(x, y) \/ Among(todo, Drop(x, y))
  \/ Among(ttodo, Drop(x, y)) \/ Among(tloop, Drop(x, y))

\* Every step keeps a partial partition between the two hosts it is about.
LEMMA PairStep ==
  ASSUME TypeInv, FlowInv, ListInv, TimeInv, ChainInv, PairInv, [Next]_vars
  PROVE  PairInv'
<1>0. UNCHANGED <<failure, cluster>> /\ Host' = Host
  BY Frames, SameSetUp
<1>t. /\ todo \in Seq(Command) /\ ttodo \in Seq(Command) /\ tloop \in Seq(Command)
      /\ TypeNet /\ partitioned \in Seq(Host)
      /\ cluster \in Clusters /\ failure \in cluster.failures
  BY DEF TypeInv, TypeControl, TypeLists, TypeNet
<1>u. NoHost \notin Host /\ Host \subseteq Nat
  BY <1>t, SetUp
<1>d. ByExecute \cap ByThread = {} /\ Partial \subseteq ByExecute \cup ByThread
  BY DEF ByExecute, ByThread, Partial
<1> SUFFICES ASSUME failure \in Partial
             PROVE  \E a, b \in Host :
                      /\ a # b
                      /\ \A x, y \in Host :
                           Touches(x, y)' => (x = a /\ y = b) \/ (x = b /\ y = a)
  BY <1>0 DEF PairInv, Touches
<1>q. ASSUME \A x, y \in Host : Touches(x, y)' => Touches(x, y)
      PROVE  \E a, b \in Host :
               /\ a # b
               /\ \A x, y \in Host :
                    Touches(x, y)' => (x = a /\ y = b) \/ (x = b /\ y = a)
  BY <1>q DEF PairInv, Touches
<1>e. \A c : ~Among(<<>>, c)
  BY DEF Among
<1>k. ASSUME UNCHANGED <<rules, todo, ttodo, tloop>>
      PROVE  \A x, y \in Host : Touches(x, y)' => Touches(x, y)
  BY <1>k DEF Touches, Drops, Among
<1>n. \A x, y : ~Among(HealAll, Drop(x, y))
  BY <1>t, HealCutsNothing
<1> HIDE DEF HealAll
<1>1. CASE Applies
  <2>1. UNCHANGED <<next, rules, partitioned>> /\ exec \in {"apply", "told"}
    BY <1>1, ApplyIs DEF netVars
  <2>2. \A x, y : Drops(x, y)' = Drops(x, y)
    BY <2>1 DEF Drops
  <2>3. todo = <<>>
    BY <2>1 DEF FlowInv
  <2>4. ASSUME exec = "told", partitioned = <<>>,
               NEW s, s = PartialCut(found),
               \A x, y \in Host : Touches(x, y)' =>
                                    Drops(x, y) \/ Among(s, Drop(x, y))
        PROVE  \E a, b \in Host :
                 /\ a # b
                 /\ \A x, y \in Host :
                      Touches(x, y)' => (x = a /\ y = b) \/ (x = b /\ y = a)
    <3>1. found \in Host
      BY <2>4, Told
    <3>2. PICK b \in Host :
            b # found /\ PartialCut(found) = <<Drop(found, b), Drop(b, found)>>
      BY <1>t, <3>1, PartialCutIs
    <3>3. ASSUME NEW x \in Host, NEW y \in Host, Among(s, Drop(x, y))
          PROVE  (x = found /\ y = b) \/ (x = b /\ y = found)
      <4>1. Drop(x, y) = Drop(found, b) \/ Drop(x, y) = Drop(b, found)
        BY <2>4, <3>2, <3>3 DEF Among
      <4>2. Drop(x, y).host = x /\ Drop(x, y).remote = y
        BY DEF Drop
      <4>3. /\ Drop(found, b).host = found /\ Drop(found, b).remote = b
            /\ Drop(b, found).host = b /\ Drop(b, found).remote = found
        BY DEF Drop
      <4> QED BY <4>1, <4>2, <4>3
    <3>4. \A x, y \in Host : ~Drops(x, y)
      BY <1>t, <1>u, <2>4, NoEntries
    <3>5. \A x, y \in Host :
            Touches(x, y)' => (x = found /\ y = b) \/ (x = b /\ y = found)
      BY <2>4, <3>3, <3>4
    <3> HIDE DEF Touches
    <3> QED BY <3>1, <3>2, <3>5
  <2>5. CASE CreatePartition
    <3>1. exec = "told" /\ todo' = PartialCut(found) /\ failure = "partial-partition"
          /\ UNCHANGED threadVars
      BY <2>5 DEF CreatePartition, Apply, AsksLeader
    <3>2. thread = "none" /\ next = 2
      BY <3>1, Told DEF FlowInv, ByThread
    <3>3. ttodo' = <<>> /\ tloop' = <<>> /\ partitioned = <<>>
      BY <3>1, <3>2 DEF FlowInv, TimeInv, threadVars, Early, ByExecute
    <3>4. \A x, y : Touches(x, y)' =>
                      Drops(x, y) \/ Among(PartialCut(found), Drop(x, y))
      BY <1>e, <2>2, <3>1, <3>3 DEF Touches, Among
    <3> QED BY <2>4, <3>1, <3>3, <3>4
  <2>6. CASE SpawnPartial
    <3>1. exec = "told" /\ todo' = <<>> /\ failure = "intermittent-partial"
          /\ tloop' = PartialCut(found) /\ ttodo' = <<>>
      BY <2>6 DEF SpawnPartial, Apply, AsksLeader
    <3>2. next = 2
      BY <3>1, Told
    <3>3. partitioned = <<>>
      BY <3>1, <3>2 DEF TimeInv, Early, ByThread
    <3>4. \A x, y : Touches(x, y)' =>
                      Drops(x, y) \/ Among(PartialCut(found), Drop(x, y))
      BY <1>e, <2>2, <3>1, <3>3 DEF Touches, Among
    <3> QED BY <2>4, <3>1, <3>3, <3>4
  <2>7. CASE ~CreatePartition /\ ~SpawnPartial
    <3>1. todo' = <<>> \/ todo' = HealAll
      <4>1. CASE failure \in ByThread
        BY <1>1, <4>1, ApplyLists
      <4>2. CASE failure \in ByExecute
        <5>1. ~CreateRegionOffline
          BY DEF CreateRegionOffline, Partial
        <5>2. RemovePartition => todo' = HealAll
          BY DEF RemovePartition, Apply
        <5> QED BY <1>1, <2>7, <4>2, <5>1, <5>2, ApplyLists
      <4> QED BY <1>d, <4>1, <4>2
    <3>2. ~Spawns
      BY <2>7 DEF Spawns, SpawnFull, SpawnOffline, Partial
    <3>3. UNCHANGED <<ttodo, tloop>>
      BY <1>1, <3>2, ApplyLists DEF threadVars
    <3>4. \A x, y : ~Among(todo, Drop(x, y))'
      BY <1>e, <1>n, <3>1 DEF Among
    <3>5. \A x, y : Touches(x, y)' => Touches(x, y)
      BY <2>2, <3>3, <3>4 DEF Touches, Among
    <3> QED BY <1>q, <3>5
  <2> QED BY <2>5, <2>6, <2>7
<1>2. CASE Moves
  <2>1. UNCHANGED <<rules, todo, ttodo, tloop>>
    BY <1>2, MoveIs DEF netVars, threadVars
  <2> QED BY <1>k, <1>q, <2>1
<1>3. CASE LoopMoves
  <2>1. UNCHANGED <<todo, tloop, rules>>
    BY <1>3, LoopMoveIs DEF otherThanThread, netVars
  <2>2. ttodo' \in {ttodo, tloop, HealAll}
    BY <1>3 DEF LoopMoves, LoopTest, CutDone, HoldEnds, HealDone, PauseEnds
  <2>3. ASSUME NEW x \in Host, NEW y \in Host, Among(ttodo, Drop(x, y))'
        PROVE  Among(ttodo, Drop(x, y)) \/ Among(tloop, Drop(x, y))
    BY <1>n, <2>2, <2>3 DEF Among
  <2>4. \A x, y \in Host : Touches(x, y)' => Touches(x, y)
    BY <2>1, <2>3 DEF Touches, Among, Drops
  <2> QED BY <1>q, <2>4
<1>4. CASE BootNode
  BY <1>4, <1>k, <1>q DEF BootNode, threadVars
<1>5. CASE AskLeader
  BY <1>5, <1>k, <1>q DEF AskLeader, unasked, netVars, threadVars
<1>6. CASE AskHost
  BY <1>6, <1>k, <1>q DEF AskHost, unasked, netVars, threadVars
<1>7. CASE FaultStep
  <2>1. /\ todo # <<>> /\ Perform(Head(todo)) /\ todo' = Tail(todo)
        /\ UNCHANGED <<ttodo, tloop>>
    BY <1>7 DEF FaultStep, threadVars
  <2>2. Head(todo) \in Command
    BY <1>t, <2>1
  <2>3. ASSUME NEW x \in Host, NEW y \in Host, Touches(x, y)'
        PROVE  Touches(x, y)
    <3>1. Drops(x, y)' => Drops(x, y) \/ Head(todo) = Drop(x, y)
      BY <1>t, <1>u, <2>1, <2>2, PerformDrops
    <3>2. Among(todo, Drop(x, y)) <=>
            Drop(x, y) = Head(todo) \/ Among(todo', Drop(x, y))
      BY <1>t, <2>1, AmongRest
    <3>3. Among(todo, Drop(x, y))' <=> Among(todo', Drop(x, y))
      BY DEF Among, Drop
    <3>4. /\ Among(ttodo, Drop(x, y))' <=> Among(ttodo, Drop(x, y))
          /\ Among(tloop, Drop(x, y))' <=> Among(tloop, Drop(x, y))
      BY <2>1 DEF Among, Drop
    <3> QED BY <2>3, <3>1, <3>2, <3>3, <3>4 DEF Touches
  <2> QED BY <1>q, <2>3
<1>8. CASE FaultEnds
  BY <1>8, <1>k, <1>q DEF FaultEnds, netVars, threadVars
<1>9. CASE ThreadStep
  <2>1. /\ ttodo # <<>> /\ Perform(Head(ttodo)) /\ ttodo' = Tail(ttodo)
        /\ UNCHANGED <<todo, tloop>>
    BY <1>9 DEF ThreadStep, otherThanThread
  <2>2. Head(ttodo) \in Command
    BY <1>t, <2>1
  <2>3. ASSUME NEW x \in Host, NEW y \in Host, Touches(x, y)'
        PROVE  Touches(x, y)
    <3>1. Drops(x, y)' => Drops(x, y) \/ Head(ttodo) = Drop(x, y)
      BY <1>t, <1>u, <2>1, <2>2, PerformDrops
    <3>2. Among(ttodo, Drop(x, y)) <=>
            Drop(x, y) = Head(ttodo) \/ Among(ttodo', Drop(x, y))
      BY <1>t, <2>1, AmongRest
    <3>3. Among(ttodo, Drop(x, y))' <=> Among(ttodo', Drop(x, y))
      BY DEF Among, Drop
    <3>4. /\ Among(todo, Drop(x, y))' <=> Among(todo, Drop(x, y))
          /\ Among(tloop, Drop(x, y))' <=> Among(tloop, Drop(x, y))
      BY <2>1 DEF Among, Drop
    <3> QED BY <2>3, <3>1, <3>2, <3>3, <3>4 DEF Touches
  <2> QED BY <1>q, <2>3
<1>10. CASE Election
  BY <1>10, <1>k, <1>q DEF Election, threadVars
<1>11. CASE UNCHANGED vars
  BY <1>11, <1>k, <1>q DEF vars
<1> QED BY <1>1, <1>2, <1>3, <1>4, <1>5, <1>6, <1>7, <1>8, <1>9, <1>10,
           <1>11, Frames

\* The rules and the commands left of the partition of l and w.
Region(l, w) ==
  /\ IndexIn(Members, l) = IndexIn(Workers, w)
  /\ \A a, b \in Host :
       (Drops(a, b) \/ Among(todo, Drop(a, b)))
         <=> ~(a \in {l, w} <=> b \in {l, w})

\* Every step keeps rules and commands a partition of one region.
LEMMA RegionStep ==
  ASSUME TypeInv, FlowInv, ListInv, TimeInv, ChainInv, RegionInv, [Next]_vars
  PROVE  RegionInv'
<1>0. /\ UNCHANGED <<failure, cluster>> /\ Host' = Host
      /\ Members' = Members /\ Workers' = Workers
  BY Frames, SameSetUp
<1>t. /\ todo \in Seq(Command) /\ TypeNet /\ partitioned \in Seq(Host)
      /\ cluster \in Clusters /\ failure \in cluster.failures /\ next \in 1..5
  BY DEF TypeInv, TypeControl, TypeLists, TypeNet
<1>u. NoHost \notin Host /\ Host \subseteq Nat
  BY <1>t, SetUp
<1> DEFINE Held == \/ next = 2 /\ exec = "fault"
                   \/ next = 3 /\ exec \in {"sleep", "apply"}
<1> SUFFICES ASSUME failure = "k8s_leadreg_offline", Held'
             PROVE  \E l \in Members, w \in Workers : Region(l, w)'
  BY <1>0 DEF RegionInv, Region, IndexIn
<1>q. ASSUME Held, UNCHANGED <<rules, todo>>
      PROVE  \E l \in Members, w \in Workers : Region(l, w)'
  <2>1. PICK l \in Members, w \in Workers : Region(l, w)
    BY <1>q DEF RegionInv, Region
  <2>2. Region(l, w)'
    BY <1>0, <1>q, <2>1 DEF Region, IndexIn, Drops, Among, Drop
  <2> QED BY <2>2
<1>x. failure \in ByExecute /\ failure \notin ByThread
  BY DEF ByExecute, ByThread
<1>1. CASE Applies
  <2>1. UNCHANGED <<next, rules, partitioned>> /\ exec' = "fault"
        /\ exec \in {"apply", "told"}
    BY <1>1, ApplyIs DEF netVars
  <2>2. next = 2
    BY <2>1
  <2>3. CreateRegionOffline
    BY <1>1, <1>x, <2>2, ApplyLists DEF CreatePartition
  <2>4. /\ found \in Members /\ todo' = RegionCut(found)
        /\ IndexIn(Members, found) <= Cardinality(Workers)
    BY <2>3, CutLists
  <2>5. PICK w \in Workers :
          /\ IndexIn(Members, found) = IndexIn(Workers, w)
          /\ \A a, b \in Host :
               Among(RegionCut(found), Drop(a, b))
                 <=> ~(a \in {found, w} <=> b \in {found, w})
    BY <1>t, <2>4, RegionCutIs
  <2>6. partitioned = <<>>
    BY <1>x, <2>1, <2>2 DEF TimeInv, Early
  <2>7. \A a, b \in Host : ~Drops(a, b)'
    <3>1. \A a, b \in Host : ~Drops(a, b)
      BY <1>t, <1>u, <2>6, NoEntries
    <3> QED BY <2>1, <3>1 DEF Drops
  <2>8. \A a, b : Among(todo, Drop(a, b))' <=> Among(RegionCut(found), Drop(a, b))
    BY <2>4 DEF Among, Drop
  <2>9. PICK m \in Members : m = found
    BY <2>4
  <2>10. Region(m, w)'
    <3>1. (IndexIn(Members, m) = IndexIn(Workers, w))'
      BY <1>0, <2>5, <2>9 DEF IndexIn
    <3>2. \A a, b \in Host : (Drops(a, b)' \/ Among(todo, Drop(a, b))')
             <=> ~(a \in {m, w} <=> b \in {m, w})
      BY <2>5, <2>7, <2>8, <2>9
    <3> QED BY <1>0, <3>1, <3>2 DEF Region
  <2> QED BY <2>10
<1>2. CASE Moves
  <2>1. UNCHANGED <<next, rules, todo>>
    BY <1>2, MoveIs DEF netVars
  <2>2. SleepEnds
    BY <1>2, <2>1 DEF Moves, BootEnds, AskReturns, ApplyRaises, FaultStepRaises,
       FlowInv
  <2> QED BY <1>q, <2>1, <2>2 DEF SleepEnds
<1>3. CASE LoopMoves \/ ThreadStep
  <2>1. thread # "none"
    BY <1>3 DEF LoopMoves, LoopTest, CutDone, HoldEnds, HealDone, PauseEnds,
       ThreadStep
  <2> QED BY <1>x, <2>1 DEF FlowInv
<1>4. CASE BootNode \/ AskLeader \/ AskHost
  BY <1>4 DEF BootNode, AskLeader, AskHost, unasked
<1>7. CASE FaultStep
  <2>1. /\ exec = "fault" /\ todo # <<>> /\ Perform(Head(todo))
        /\ todo' = Tail(todo) /\ UNCHANGED <<next, exec>>
    BY <1>7 DEF FaultStep
  <2>2. next = 2
    BY <2>1
  <2>3. \A k \in 1..Len(todo) : IsDrop(todo[k])
    BY <1>x, <2>1, <2>2 DEF ListInv
  <2>4. IsDrop(Head(todo))
    BY <1>t, <2>1, <2>3, Rest
  <2>5. /\ InsertRule(Head(todo).host, Head(todo).remote)
        /\ Head(todo).host \in Host /\ Head(todo).remote \in Nat
    BY <1>u, <2>1, <2>4, PerformIs, DropIs
  <2>6. PICK l \in Members, w \in Workers : Region(l, w)
    BY <2>1, <2>2 DEF RegionInv, Region
  <2>7. ASSUME NEW a \in Host, NEW b \in Host
        PROVE  (Drops(a, b)' \/ Among(todo, Drop(a, b))') <=>
               (Drops(a, b) \/ Among(todo, Drop(a, b)))
    <3>1. Drops(a, b)' <=> Drops(a, b) \/ Head(todo) = Drop(a, b)
      <4>1. Drops(a, b)' <=>
              Drops(a, b) \/ (a = Head(todo).host /\ b = Head(todo).remote)
        BY <1>t, <2>5, InsertDrops
      <4> QED BY <2>4, <4>1, DropIs
    <3>2. Among(todo, Drop(a, b)) <=>
            Drop(a, b) = Head(todo) \/ Among(todo', Drop(a, b))
      BY <1>t, <2>1, AmongRest
    <3>3. Among(todo, Drop(a, b))' <=> Among(todo', Drop(a, b))
      BY DEF Among, Drop
    <3> QED BY <3>1, <3>2, <3>3
  <2>8. Region(l, w)'
    <3>1. (IndexIn(Members, l) = IndexIn(Workers, w))'
      BY <1>0, <2>6 DEF Region, IndexIn
    <3>2. \A a, b \in Host : (Drops(a, b)' \/ Among(todo, Drop(a, b))')
             <=> ~(a \in {l, w} <=> b \in {l, w})
      BY <2>6, <2>7 DEF Region
    <3> QED BY <1>0, <3>1, <3>2 DEF Region
  <2> QED BY <2>8
<1>8. CASE FaultEnds
  <2>1. /\ exec = "fault" /\ next' = next + 1 /\ exec' \in {"done", "sleep"}
        /\ UNCHANGED <<rules, todo>>
    BY <1>8 DEF FaultEnds, netVars
  <2>2. next = 2
    BY <1>t, <2>1
  <2> QED BY <1>q, <2>1, <2>2
<1>10. CASE Election
  BY <1>10, <1>q DEF Election
<1>11. CASE UNCHANGED vars
  BY <1>11, <1>q DEF vars
<1> QED BY <1>1, <1>2, <1>3, <1>4, <1>7, <1>8, <1>10, <1>11, Frames

-----------------------------------------------------------------------------
(***************************************************************************)
(* Servers that are down.                                                  *)
(***************************************************************************)

\* A raising command is one of kill-n.
LEMMA RaisesKillN ==
  ASSUME TypeInv, FlowInv, ListInv, DownInv, FaultStepRaises
  PROVE  failure = "kill-n" /\ next = 2
<1>1. exec = "fault" /\ todo # <<>> /\ Head(todo) = OutOfRange
  BY DEF FaultStepRaises
<1>2. failure \notin ByExecute \cup ByThread
  BY RaisesIs
<1>3. next \in 1..5 /\ failure \in AllFailureTypes
  BY SetUp DEF TypeInv, TypeControl
<1>4. next # 1 /\ failure \notin {"none", "stat"}
  BY <1>1 DEF DownInv, DownEarly
<1>5. \A h : OutOfRange # Stop(h) /\ OutOfRange # Record(h) /\ OutOfRange # Start(h)
  <2>1. /\ OutOfRange.op = "raise"
        /\ \A h : Stop(h).op = "stop" /\ Record(h).op = "record"
                  /\ Start(h).op = "start"
    BY DEF OutOfRange, Stop, Record, Start
  <2> QED BY <2>1
<1>6. failure # "leader"
  <2> SUFFICES ASSUME failure = "leader" PROVE FALSE
    OBVIOUS
  <2>1. next = 2
    BY <1>1, <1>3, <1>4 DEF DownInv, DownLeader
  <2>2. \E h : todo = <<Stop(h)>>
    BY <1>1, <2>1 DEF DownInv, DownLeader
  <2> QED BY <1>1, <1>5, <2>2
<1>7. failure # "leader-recovery"
  <2> SUFFICES ASSUME failure = "leader-recovery" PROVE FALSE
    OBVIOUS
  <2>1. next = 2 \/ next = 3
    BY <1>1, <1>3, <1>4 DEF DownInv, DownRecovery
  <2>2. \E h : todo = <<Stop(h), Record(h)>> \/ todo = <<Record(h)>>
               \/ todo = <<Start(h)>>
    BY <1>1, <2>1 DEF DownInv, DownRecovery
  <2>3. \E h : Head(todo) \in {Stop(h), Record(h), Start(h)}
    BY <2>2
  <2> QED BY <1>1, <1>5, <2>3
<1>8. failure = "kill-n"
  BY <1>2, <1>3, <1>4, <1>6, <1>7 DEF AllFailureTypes, ByExecute, ByThread
<1>9. next = 2
  BY <1>1, <1>3, <1>4, <1>8 DEF DownInv, DownKillN
<1> QED BY <1>8, <1>9

\* The commands of partitions leave the servers alone.
LEMMA NetCommands ==
  ASSUME TypeInv, FlowInv, ListInv
  PROVE  /\ FaultStep /\ failure \in ByExecute => UNCHANGED <<killed, serverVars>>
         /\ ThreadStep => UNCHANGED <<killed, serverVars>>
<1>t. /\ todo \in Seq(Command) /\ ttodo \in Seq(Command)
      /\ partitioned \in Seq(Host)
  BY DEF TypeInv, TypeLists, TypeNet
<1>1. ASSUME NEW c, Perform(c), IsDrop(c) \/ c = Clear \/ \E h : c = Undo(h)
      PROVE  UNCHANGED <<killed, serverVars>>
  BY <1>1, PerformIs DEF InsertRule, DeleteRule
<1>2. ASSUME NEW s \in Seq(Command), s # <<>>,
             Healing(s) \/ \A k \in 1..Len(s) : IsDrop(s[k])
      PROVE  IsDrop(Head(s)) \/ Head(s) = Clear \/ \E h : Head(s) = Undo(h)
  <2>1. CASE Healing(s)
    <3>1. Len(s) \in Nat
      BY <1>2
    <3>2. Len(s) > 1 => \E h : Head(s) = Undo(h)
      BY <1>t, <1>2, <2>1, RestHealing
    <3>3. Len(s) <= 1 => Head(s) = Clear
      BY <1>t, <1>2, <2>1, RestHealing
    <3> QED BY <3>1, <3>2, <3>3
  <2>2. CASE \A k \in 1..Len(s) : IsDrop(s[k])
    BY <1>2, <2>2, Rest
  <2> QED BY <1>2, <2>1, <2>2
<1>3. ASSUME FaultStep, failure \in ByExecute PROVE UNCHANGED <<killed, serverVars>>
  <2>1. todo # <<>> /\ Perform(Head(todo))
    BY <1>3 DEF FaultStep
  <2>2. Healing(todo) \/ \A k \in 1..Len(todo) : IsDrop(todo[k])
    BY <1>3, <2>1 DEF ListInv
  <2> QED BY <1>1, <1>2, <1>t, <2>1, <2>2
<1>4. ASSUME ThreadStep PROVE UNCHANGED <<killed, serverVars>>
  <2>1. thread \in {"cut", "heal"} /\ ttodo # <<>> /\ Perform(Head(ttodo))
    BY <1>4 DEF ThreadStep
  <2>2. Healing(ttodo) \/ \A k \in 1..Len(ttodo) : IsDrop(ttodo[k])
    BY <2>1 DEF ListInv
  <2> QED BY <1>1, <1>2, <1>t, <2>1, <2>2
<1> QED BY <1>3, <1>4

\* Which list a test without partitions begins with.
LEMMA KillingApplies ==
  ASSUME TypeInv, FlowInv, Applies
  PROVE  /\ next = 1 \/ failure \in {"none", "stat"} => todo' = <<>>
         /\ failure = "leader" =>
              \/ next = 2 /\ exec = "told" /\ todo' = <<Stop(found)>>
              \/ next \in {1, 3} /\ todo' = <<>>
         /\ failure = "leader-recovery" =>
              \/ next = 2 /\ exec = "told" /\ todo' = <<Stop(found), Record(found)>>
              \/ next = 3 /\ exec = "apply" /\ todo' = <<Start(killed)>>
              \/ next \in {1, 4} /\ todo' = <<>>
         /\ failure = "kill-n" =>
              \/ /\ next = 2
                 /\ todo' = [k \in 1..cluster.kills |->
                               IF k \in Host THEN Stop(k) ELSE OutOfRange]
              \/ next \in {1, 3} /\ todo' = <<>>
<1>1. /\ exec # "done" /\ next \in 1..Len(Schedule)
      /\ failure \in AllFailureTypes
      /\ failure \in ByThread => todo' = <<>>
      /\ failure \in ByExecute /\ next = 1 => todo' = <<>>
      /\ failure \notin ByExecute \cup ByThread =>
           ApplyNull \/ ApplyStat \/ KillLeader \/ Recover \/ KillN
  BY ApplyLists
<1>2. CASE failure \in ByExecute \cup ByThread
  BY <1>1, <1>2 DEF ByExecute, ByThread
<1>3. CASE ApplyNull
  <2>1. Fault = "null" /\ todo' = <<>>
    BY <1>3 DEF ApplyNull, Apply
  <2> QED BY <1>1, <2>1, Times
<1>4. CASE ApplyStat
  <2>1. Fault = "stat" /\ todo' = <<>>
    BY <1>4 DEF ApplyStat, Apply
  <2> QED BY <1>1, <2>1, Times
<1>5. CASE KillLeader
  <2>1. Fault = "kill_leader" /\ exec = "told"
        /\ todo' = IF failure = "leader-recovery"
                   THEN <<Stop(found), Record(found)>> ELSE <<Stop(found)>>
    BY <1>5 DEF KillLeader, Apply, AsksLeader
  <2>2. next = 2 /\ failure \in {"leader", "leader-recovery"}
    BY <1>1, <2>1, Times
  <2> QED BY <2>1, <2>2
<1>6. CASE Recover
  <2>1. Fault = "recover" /\ todo' = <<Start(killed)>> /\ exec \in {"apply", "told"}
    BY <1>6 DEF Recover, Apply
  <2>2. next = 3 /\ failure = "leader-recovery"
    BY <1>1, <2>1, Times
  <2>3. exec # "told"
    BY <2>2, Told
  <2> QED BY <2>1, <2>2, <2>3
<1>7. CASE KillN
  <2>1. /\ Fault = "kill_n"
        /\ todo' = [k \in 1..cluster.kills |->
                      IF k \in Host THEN Stop(k) ELSE OutOfRange]
    BY <1>7 DEF KillN, Apply
  <2>2. next = 2 /\ failure = "kill-n"
    BY <1>1, <2>1, Times
  <2> QED BY <2>1, <2>2
<1> QED BY <1>1, <1>2, <1>3, <1>4, <1>5, <1>6, <1>7

\* No server is down but for a killing fault.
LEMMA DownEarlyStep ==
  ASSUME TypeInv, FlowInv, ListInv, DownInv, [Next]_vars
  PROVE  DownEarly'
<1>0. UNCHANGED <<failure, cluster>> /\ Host' = Host
  BY Frames, SameSetUp
<1>n. next \in 1..5 /\ failure \in AllFailureTypes
  BY SetUp DEF TypeInv, TypeControl
<1>d. DownEarly
  BY DEF DownInv
<1>q. ASSUME UNCHANGED <<next, exec, todo, up>> PROVE DownEarly'
  BY <1>0, <1>d, <1>q DEF DownEarly, Early
<1>1. CASE Applies
  <2>1. UNCHANGED <<next, up>> /\ exec' = "fault" /\ exec \in {"apply", "told"}
    BY <1>1, ApplyIs DEF netVars, serverVars
  <2>2. next = 1 \/ failure \in {"none", "stat"} => todo' = <<>>
    BY <1>1, KillingApplies
  <2> QED BY <1>0, <1>d, <2>1, <2>2 DEF DownEarly, Early
<1>2. CASE Moves
  <2>1. UNCHANGED <<next, todo, up>>
    BY <1>2, MoveIs DEF netVars, serverVars
  <2>2. CASE BootEnds
    BY <1>0, <1>d, <2>1, <2>2 DEF BootEnds, DownEarly
  <2>3. CASE AskReturns
    BY <1>0, <1>d, <2>1, <2>3 DEF AskReturns, DownEarly, Early
  <2>4. CASE ApplyRaises
    <3>1. exec' = "raised" /\ exec \in {"apply", "told", "unanswered"}
          /\ (exec = "unanswered" \/ Fault \in {"create", "stat"})
      BY <2>4 DEF ApplyRaises
    <3>2. failure \in Killing => next = 2
      <4>1. CASE exec = "unanswered"
        BY <4>1 DEF FlowInv, Asking
      <4>2. CASE Fault \in {"create", "stat"}
        <5>1. exec # "done"
          BY <3>1
        <5> QED BY <4>2, <5>1, Now, Times DEF Killing, ByExecute, ByThread
      <4> QED BY <3>1, <4>1, <4>2
    <3> QED BY <1>0, <1>d, <2>1, <3>1, <3>2 DEF DownEarly
  <2>5. CASE FaultStepRaises
    <3>1. next = 2 /\ exec' = "raised" /\ exec = "fault"
      BY <2>5, RaisesKillN DEF FaultStepRaises
    <3> QED BY <1>0, <1>d, <2>1, <3>1 DEF DownEarly
  <2>6. CASE SleepEnds
    BY <1>0, <1>d, <2>1, <2>6 DEF SleepEnds, DownEarly, Early
  <2> QED BY <1>2, <2>2, <2>3, <2>4, <2>5, <2>6 DEF Moves
<1>3. CASE LoopMoves
  BY <1>3, <1>q, LoopMoveIs DEF otherThanThread, netVars, serverVars
<1>4. CASE BootNode
  <2>1. exec = "boot" /\ exec' = "boot" /\ UNCHANGED <<next, todo>>
    BY <1>4 DEF BootNode
  <2> QED BY <1>0, <1>d, <2>1 DEF DownEarly
<1>5. CASE AskLeader
  <2>1. /\ exec = "apply" /\ exec' = "ask" /\ UNCHANGED <<next, todo, up>>
    BY <1>5 DEF AskLeader, unasked, netVars, serverVars
  <2> QED BY <1>0, <1>d, <2>1 DEF DownEarly, Early
<1>6. CASE AskHost
  BY <1>6, <1>q DEF AskHost, unasked, netVars, serverVars
<1>7. CASE FaultStep
  <2>1. exec = "fault" /\ todo # <<>> /\ UNCHANGED <<next, exec>>
    BY <1>7 DEF FaultStep
  <2>2. next # 1 /\ failure \notin {"none", "stat"} /\ failure \notin ByThread
    BY <1>d, <2>1 DEF DownEarly, FlowInv
  <2>3. failure \notin Killing => failure \in ByExecute
    BY <1>n, <2>2 DEF AllFailureTypes, Killing, ByExecute, ByThread
  <2>4. failure \notin Killing => UNCHANGED up
    BY <1>7, <2>3, NetCommands DEF serverVars
  <2> QED BY <1>0, <1>d, <2>1, <2>2, <2>4 DEF DownEarly, Early
<1>8. CASE FaultEnds
  <2>1. /\ exec = "fault" /\ todo = <<>> /\ next' = next + 1
        /\ exec' \in {"done", "sleep"} /\ UNCHANGED <<todo, up>>
    BY <1>8 DEF FaultEnds, netVars, serverVars
  <2> QED BY <1>0, <1>d, <1>n, <2>1 DEF DownEarly, Early
<1>9. CASE ThreadStep
  BY <1>9, <1>q, NetCommands DEF ThreadStep, otherThanThread, serverVars
<1>10. CASE Election
  BY <1>10, <1>q DEF Election, Elect, StepDown
<1>11. CASE UNCHANGED vars
  BY <1>11, <1>q DEF vars, serverVars
<1> QED BY <1>1, <1>2, <1>3, <1>4, <1>5, <1>6, <1>7, <1>8, <1>9, <1>10,
           <1>11, Frames

\* The steps of a test without partitions that leave the servers alone.
Quiet ==
  \/ next = 1 /\ next' = 1
  \/ /\ UNCHANGED <<next, todo, up, killed>>
     /\ \/ UNCHANGED exec
        \/ exec # "fault" /\ exec' # "fault"
        \/ failure = "kill-n" /\ next = 2 /\ exec' # "fault"

\* What else can happen in a test without partitions.
LEMMA KillingFrames ==
  ASSUME TypeInv, FlowInv, ListInv, DownInv, [Next]_vars, failure \in Killing
  PROVE  Applies \/ FaultStep \/ FaultEnds \/ Quiet
<1>1. CASE Moves
  <2>1. UNCHANGED <<next, todo, up, killed>>
    BY <1>1, MoveIs DEF netVars, serverVars
  <2>2. CASE FaultStepRaises
    BY <2>1, <2>2, RaisesKillN DEF FaultStepRaises, Quiet
  <2>3. CASE ~FaultStepRaises
    BY <1>1, <2>1, <2>3 DEF Moves, BootEnds, AskReturns, ApplyRaises, SleepEnds,
       Quiet
  <2> QED BY <2>2, <2>3
<1>2. CASE LoopMoves
  BY <1>2, LoopMoveIs DEF otherThanThread, netVars, serverVars, Quiet
<1>3. CASE BootNode
  BY <1>3 DEF BootNode, FlowInv, Quiet
<1>4. CASE AskLeader
  BY <1>4 DEF AskLeader, unasked, netVars, serverVars, Quiet
<1>5. CASE AskHost
  BY <1>5 DEF AskHost, unasked, netVars, serverVars, Quiet
<1>6. CASE ThreadStep
  BY <1>6, NetCommands DEF ThreadStep, otherThanThread, serverVars, Quiet
<1>7. CASE Election
  BY <1>7 DEF Election, Elect, StepDown, Quiet
<1>8. CASE UNCHANGED vars
  BY <1>8 DEF vars, serverVars, Quiet
<1> QED BY <1>1, <1>2, <1>3, <1>4, <1>5, <1>6, <1>7, <1>8, Frames

\* The leader fault stops one server and no more.
LEMMA DownLeaderStep ==
  ASSUME TypeInv, FlowInv, ListInv, DownInv, [Next]_vars
  PROVE  DownLeader'
<1>0. UNCHANGED <<failure, cluster>> /\ Host' = Host
  BY Frames, SameSetUp
<1>n. next \in 1..5 /\ todo \in Seq(Command)
  BY DEF TypeInv, TypeControl, TypeLists
<1>d. DownLeader /\ DownEarly
  BY DEF DownInv
<1> SUFFICES ASSUME failure = "leader" PROVE DownLeader'
  BY <1>0 DEF DownLeader
<1>s. \A h : Stop(h)' = Stop(h)
  BY DEF Stop
<1>1. CASE Applies
  <2>1. UNCHANGED <<next, up>> /\ exec' = "fault" /\ exec \in {"apply", "told"}
    BY <1>1, ApplyIs DEF netVars, serverVars
  <2>2. CASE next = 2 /\ exec = "told" /\ todo' = <<Stop(found)>>
    <3>1. up = Host
      BY <1>d, <2>2 DEF DownEarly, Early
    <3>2. found \in Host
      BY <2>2, Told
    <3>3. \E h \in Host : todo' = <<Stop(h)>>
      BY <2>2, <3>2
    <3> QED BY <1>0, <1>s, <2>1, <2>2, <3>1, <3>3 DEF DownLeader
  <2>3. CASE next \in {1, 3} /\ todo' = <<>>
    BY <1>0, <1>d, <2>1, <2>3 DEF DownLeader
  <2> QED BY <1>1, <2>2, <2>3, KillingApplies
<1>2. CASE FaultStep
  <2>1. /\ exec = "fault" /\ todo # <<>> /\ Perform(Head(todo))
        /\ todo' = Tail(todo) /\ UNCHANGED <<next, exec>>
    BY <1>2 DEF FaultStep
  <2>2. next = 2
    BY <1>d, <1>n, <2>1 DEF DownLeader, DownEarly
  <2>3. PICK h \in Host : todo = <<Stop(h)>> /\ up = Host
    BY <1>d, <2>1, <2>2 DEF DownLeader
  <2>4. StopNode(h)
    BY <2>1, <2>3, PerformIs
  <2>5. todo' = <<>> /\ up' = Host \ {h}
    BY <2>1, <2>3, <2>4 DEF StopNode
  <2> QED BY <1>0, <2>1, <2>2, <2>5 DEF DownLeader
<1>3. CASE FaultEnds
  <2>1. /\ exec = "fault" /\ todo = <<>> /\ next' = next + 1
        /\ exec' \in {"done", "sleep"} /\ UNCHANGED <<todo, up>>
    BY <1>3 DEF FaultEnds, netVars, serverVars
  <2>2. next = 1 \/ \E h \in Host : up = Host \ {h}
    BY <1>d, <1>n, <2>1 DEF DownLeader
  <2> QED BY <1>0, <1>n, <2>1, <2>2 DEF DownLeader
<1>4. CASE Quiet
  BY <1>0, <1>d, <1>n, <1>s, <1>4 DEF DownLeader, Quiet
<1> QED BY <1>1, <1>2, <1>3, <1>4, KillingFrames DEF Killing

\* The server that is started again is the one that was stopped.
LEMMA DownRecoveryStep ==
  ASSUME TypeInv, FlowInv, ListInv, DownInv, [Next]_vars
  PROVE  DownRecovery'
<1>0. UNCHANGED <<failure, cluster>> /\ Host' = Host
  BY Frames, SameSetUp
<1>n. next \in 1..5 /\ todo \in Seq(Command)
  BY DEF TypeInv, TypeControl, TypeLists
<1>d. DownRecovery /\ DownEarly
  BY DEF DownInv
<1> SUFFICES ASSUME failure = "leader-recovery" PROVE DownRecovery'
  BY <1>0 DEF DownRecovery
<1>s. \A h : Stop(h)' = Stop(h) /\ Record(h)' = Record(h) /\ Start(h)' = Start(h)
  BY DEF Stop, Record, Start
<1>1. CASE Applies
  <2>1. UNCHANGED <<next, up, killed>> /\ exec' = "fault"
        /\ exec \in {"apply", "told"}
    BY <1>1, ApplyIs DEF netVars, serverVars
  <2>2. CASE next = 2 /\ exec = "told" /\ todo' = <<Stop(found), Record(found)>>
    <3>1. up = Host
      BY <1>d, <2>2 DEF DownEarly, Early
    <3>2. found \in Host
      BY <2>2, Told
    <3>3. \E h \in Host : todo' = <<Stop(h), Record(h)>>
      BY <2>2, <3>2
    <3> QED BY <1>0, <1>s, <2>1, <2>2, <3>1, <3>3 DEF DownRecovery
  <2>3. CASE next = 3 /\ exec = "apply" /\ todo' = <<Start(killed)>>
    <3>1. killed \in Host /\ up = Host \ {killed}
      BY <1>d, <2>3 DEF DownRecovery
    <3>2. todo' = <<Start(killed')>>
      BY <2>1, <2>3
    <3> QED BY <1>0, <2>1, <2>3, <3>1, <3>2 DEF DownRecovery, Start
  <2>4. CASE next \in {1, 4} /\ todo' = <<>>
    BY <1>0, <1>d, <2>1, <2>4 DEF DownRecovery
  <2> QED BY <1>1, <2>2, <2>3, <2>4, KillingApplies
<1>2. CASE FaultStep
  <2>1. /\ exec = "fault" /\ todo # <<>> /\ Perform(Head(todo))
        /\ todo' = Tail(todo) /\ UNCHANGED <<next, exec>>
    BY <1>2 DEF FaultStep
  <2>2. next = 2 \/ next = 3
    BY <1>d, <1>n, <2>1 DEF DownRecovery, DownEarly
  <2>3. ASSUME NEW h \in Host, todo = <<Stop(h), Record(h)>>, up = Host, next = 2
        PROVE  DownRecovery'
    <3>1. StopNode(h)
      BY <2>1, <2>3, PerformIs
    <3>2. todo' = <<Record(h)>> /\ up' = Host \ {h}
      BY <2>1, <2>3, <3>1 DEF StopNode
    <3> QED BY <1>0, <1>s, <2>1, <2>3, <3>2 DEF DownRecovery
  <2>4. ASSUME NEW h \in Host, todo = <<Record(h)>>, up = Host \ {h}, next = 2
        PROVE  DownRecovery'
    <3>1. killed' = h /\ UNCHANGED serverVars
      BY <2>1, <2>4, PerformIs
    <3>2. todo' = <<>> /\ killed' \in Host /\ up' = Host \ {killed'}
      BY <2>1, <2>4, <3>1 DEF serverVars
    <3> QED BY <1>0, <2>1, <2>4, <3>2 DEF DownRecovery
  <2>5. ASSUME killed \in Host, up = Host \ {killed}, todo = <<Start(killed)>>, next = 3
        PROVE  DownRecovery'
    <3>1. StartNode(killed)
      BY <2>1, <2>5, PerformIs
    <3>2. todo' = <<>> /\ up' = Host
      BY <2>1, <2>5, <3>1 DEF StartNode
    <3> QED BY <1>0, <2>1, <2>5, <3>2 DEF DownRecovery
  <2>6. CASE next = 2
    BY <1>d, <2>1, <2>3, <2>4, <2>6 DEF DownRecovery
  <2>7. CASE next = 3
    BY <1>d, <2>1, <2>5, <2>7 DEF DownRecovery
  <2> QED BY <2>2, <2>6, <2>7
<1>3. CASE FaultEnds
  <2>1. /\ exec = "fault" /\ todo = <<>> /\ next' = next + 1
        /\ exec' \in {"done", "sleep"} /\ UNCHANGED <<todo, up, killed>>
    BY <1>3 DEF FaultEnds, netVars, serverVars
  <2>2. CASE next = 1
    BY <1>0, <2>1, <2>2 DEF DownRecovery
  <2>3. CASE next = 2
    <3>1. killed \in Host /\ up = Host \ {killed}
      BY <1>d, <2>1, <2>3 DEF DownRecovery
    <3> QED BY <1>0, <2>1, <2>3, <3>1 DEF DownRecovery
  <2>4. CASE next > 2
    <3>1. up = Host
      <4>1. CASE next = 3
        <5>1. todo # <<Start(killed)>>
          BY <2>1
        <5> QED BY <1>d, <2>1, <4>1, <5>1 DEF DownRecovery
      <4> QED BY <1>d, <1>n, <2>4, <4>1 DEF DownRecovery
    <3> QED BY <1>0, <1>n, <2>1, <2>4, <3>1 DEF DownRecovery
  <2> QED BY <1>n, <2>2, <2>3, <2>4
<1>4. CASE Quiet
  BY <1>0, <1>d, <1>n, <1>s, <1>4 DEF DownRecovery, Quiet, Start
<1> QED BY <1>1, <1>2, <1>3, <1>4, KillingFrames DEF Killing

\* kill-n stops the servers in the order of the list.
LEMMA DownKillNStep ==
  ASSUME TypeInv, FlowInv, ListInv, DownInv, [Next]_vars
  PROVE  DownKillN'
<1>0. UNCHANGED <<failure, cluster>> /\ Host' = Host
  BY Frames, SameSetUp
<1>n. next \in 1..5 /\ todo \in Seq(Command) /\ cluster.kills \in Nat
      /\ Host = 1..cluster.hosts
  BY SetUp DEF TypeInv, TypeControl, TypeLists, Host
<1>d. DownKillN /\ DownEarly
  BY DEF DownInv
<1> SUFFICES ASSUME failure = "kill-n" PROVE DownKillN'
  BY <1>0 DEF DownKillN
<1>s. (\A h : Stop(h)' = Stop(h)) /\ OutOfRange' = OutOfRange
  BY DEF Stop, OutOfRange
<1>1. CASE Applies
  <2>1. UNCHANGED <<next, up>> /\ exec' = "fault" /\ exec \in {"apply", "told"}
    BY <1>1, ApplyIs DEF netVars, serverVars
  <2>2. CASE /\ next = 2
             /\ todo' = [k \in 1..cluster.kills |->
                           IF k \in Host THEN Stop(k) ELSE OutOfRange]
    <3>1. up = Host
      BY <1>d, <2>1, <2>2 DEF DownEarly, Early
    <3>2. Len(todo') = cluster.kills
      BY <1>n, <2>2
    <3>3. /\ 0 + Len(todo') = cluster.kills /\ 0 \in 0..cluster.kills
          /\ 1..0 \subseteq Host /\ up = Host \ (1..0)
          /\ \A k \in 1..Len(todo') :
               todo'[k] = IF 0 + k \in Host THEN Stop(0 + k) ELSE OutOfRange
      BY <1>n, <2>2, <3>1, <3>2
    <3>4. Stopped(0)'
      BY <1>0, <1>s, <2>1, <3>3 DEF Stopped
    <3> QED BY <1>0, <2>1, <2>2, <3>3, <3>4 DEF DownKillN
  <2>3. CASE next \in {1, 3} /\ todo' = <<>>
    BY <1>0, <1>d, <2>1, <2>3 DEF DownKillN
  <2> QED BY <1>1, <2>2, <2>3, KillingApplies
<1>2. CASE FaultStep
  <2>1. /\ exec = "fault" /\ todo # <<>> /\ Perform(Head(todo))
        /\ todo' = Tail(todo) /\ UNCHANGED <<next, exec>>
    BY <1>2 DEF FaultStep
  <2>2. next = 2
    BY <1>d, <1>n, <2>1 DEF DownKillN, DownEarly
  <2>3. PICK d \in 0..cluster.kills :
           /\ d + Len(todo) = cluster.kills
           /\ 1..d \subseteq Host /\ up = Host \ (1..d)
           /\ \A k \in 1..Len(todo) :
                todo[k] = IF d + k \in Host THEN Stop(d + k) ELSE OutOfRange
    BY <1>d, <2>1, <2>2 DEF DownKillN, Stopped
  <2>4. /\ Len(todo) \in Nat \ {0} /\ Head(todo) = todo[1]
        /\ Len(todo') = Len(todo) - 1 /\ 1 \in 1..Len(todo)
        /\ \A k \in 1..Len(todo') : todo'[k] = todo[k + 1] /\ k + 1 \in 1..Len(todo)
    BY <1>n, <2>1, Rest
  <2>5. d + 1 \in Host /\ Head(todo) = Stop(d + 1)
    <3>1. Head(todo) = IF d + 1 \in Host THEN Stop(d + 1) ELSE OutOfRange
      BY <2>3, <2>4
    <3>2. Head(todo) # OutOfRange
      BY <2>1, Words, PerformIs
    <3> QED BY <3>1, <3>2
  <2>6. up' = up \ {d + 1}
    BY <2>1, <2>5, PerformIs DEF StopNode
  <2>7. 1..(d + 1) \subseteq Host /\ up' = Host \ (1..(d + 1))
    <3>1. 1..(d + 1) = (1..d) \cup {d + 1}
      BY <2>3
    <3> QED BY <2>3, <2>5, <2>6, <3>1
  <2>8. ASSUME NEW k \in 1..Len(todo')
        PROVE  todo'[k] = IF (d + 1) + k \in Host THEN Stop((d + 1) + k) ELSE OutOfRange
    <3>1. todo'[k] = todo[k + 1] /\ k + 1 \in 1..Len(todo)
      BY <2>4
    <3>2. d + (k + 1) = (d + 1) + k
      BY <2>4
    <3> QED BY <2>3, <3>1, <3>2
  <2>9. (d + 1) + Len(todo') = cluster.kills /\ d + 1 \in 0..cluster.kills
    BY <1>n, <2>3, <2>4
  <2>10. PICK e \in 0..cluster.kills : e = d + 1
    BY <2>9
  <2>11. /\ e + Len(todo') = cluster.kills
         /\ 1..e \subseteq Host /\ up' = Host \ (1..e)
         /\ \A k \in 1..Len(todo') :
              todo'[k] = IF e + k \in Host THEN Stop(e + k) ELSE OutOfRange
    BY <2>7, <2>8, <2>9, <2>10
  <2>12. Stopped(e)'
    BY <1>0, <1>s, <2>11 DEF Stopped
  <2> QED BY <1>0, <2>1, <2>2, <2>12 DEF DownKillN
<1>3. CASE FaultEnds
  <2>1. /\ exec = "fault" /\ todo = <<>> /\ next' = next + 1
        /\ exec' \in {"done", "sleep"} /\ UNCHANGED <<todo, up>>
    BY <1>3 DEF FaultEnds, netVars, serverVars
  <2>2. CASE next = 1
    BY <1>0, <2>1, <2>2 DEF DownKillN
  <2>3. CASE next = 2
    <3>1. PICK d \in 0..cluster.kills :
             /\ d + Len(todo) = cluster.kills
             /\ 1..d \subseteq Host /\ up = Host \ (1..d)
      BY <1>d, <2>1, <2>3 DEF DownKillN, Stopped
    <3>2. d = cluster.kills
      BY <2>1, <3>1
    <3> QED BY <1>0, <2>1, <2>3, <3>1, <3>2 DEF DownKillN
  <2>4. CASE next > 2
    BY <1>0, <1>d, <1>n, <2>1, <2>4 DEF DownKillN
  <2> QED BY <1>n, <2>2, <2>3, <2>4
<1>4. CASE Quiet
  <2>1. CASE next = 1 /\ next' = 1
    BY <2>1 DEF DownKillN
  <2>2. CASE UNCHANGED <<next, todo, up, exec>>
    BY <1>0, <1>d, <1>s, <2>2 DEF DownKillN, Stopped
  <2>3. CASE UNCHANGED <<next, todo, up>> /\ exec' # "fault"
    BY <1>0, <1>d, <2>3 DEF DownKillN
  <2> QED BY <1>4, <2>1, <2>2, <2>3 DEF Quiet
<1> QED BY <1>1, <1>2, <1>3, <1>4, KillingFrames DEF Killing

\* A schedule that raises has stopped no server, or all of them.
LEMMA DownRaisedStep ==
  ASSUME TypeInv, FlowInv, ListInv, DownInv, [Next]_vars
  PROVE  DownRaised'
<1>0. UNCHANGED <<failure, cluster>> /\ Host' = Host
  BY Frames, SameSetUp
<1>n. next \in 1..5 /\ todo \in Seq(Command) /\ cluster.kills \in Nat
      /\ Host = 1..cluster.hosts /\ cluster.hosts \in Nat
      /\ failure \in AllFailureTypes
  BY SetUp DEF TypeInv, TypeControl, TypeLists, Host
<1>d. DownEarly /\ DownKillN /\ DownRaised
  BY DEF DownInv
<1>q. ASSUME UNCHANGED <<exec, up>> PROVE DownRaised'
  BY <1>0, <1>d, <1>q DEF DownRaised
<1>r. ASSUME exec' # "raised" PROVE DownRaised'
  BY <1>r DEF DownRaised
<1>1. CASE Applies
  BY <1>1, <1>r, ApplyIs
<1>2. CASE Moves
  <2>1. UNCHANGED <<next, todo, up>>
    BY <1>2, MoveIs DEF netVars, serverVars
  <2>2. CASE ApplyRaises
    <3>1. /\ exec \in {"apply", "told", "unanswered"}
          /\ exec = "unanswered" \/ Fault \in {"create", "stat"}
      BY <2>2 DEF ApplyRaises
    <3>2. failure # "kill-n" /\ (failure \in Killing => next = 2)
      <4>1. exec # "done"
        BY <3>1
      <4>2. CASE exec = "unanswered"
        BY <4>1, <4>2, Now, Times DEF FlowInv, Asking, AsksLeader, ByExecute,
           ByThread
      <4>3. CASE Fault \in {"create", "stat"}
        BY <4>1, <4>3, Now, Times DEF Killing, ByExecute, ByThread
      <4> QED BY <3>1, <4>2, <4>3
    <3>3. up = Host
      BY <1>d, <3>1, <3>2 DEF DownEarly, Early
    <3> QED BY <1>0, <2>1, <3>2, <3>3 DEF DownRaised
  <2>3. CASE FaultStepRaises
    <3>1. /\ exec = "fault" /\ todo # <<>> /\ Head(todo) = OutOfRange
          /\ failure = "kill-n" /\ next = 2
      BY <2>3, RaisesKillN DEF FaultStepRaises
    <3>2. PICK d \in 0..cluster.kills :
             /\ d + Len(todo) = cluster.kills
             /\ 1..d \subseteq Host /\ up = Host \ (1..d)
             /\ \A k \in 1..Len(todo) :
                  todo[k] = IF d + k \in Host THEN Stop(d + k) ELSE OutOfRange
      BY <1>d, <3>1 DEF DownKillN, Stopped
    <3>3. Len(todo) \in Nat \ {0} /\ Head(todo) = todo[1] /\ 1 \in 1..Len(todo)
      BY <1>n, <3>1
    <3>4. d + 1 \notin Host
      <4> SUFFICES ASSUME d + 1 \in Host PROVE FALSE
        OBVIOUS
      <4>1. Head(todo) = Stop(d + 1)
        BY <3>2, <3>3
      <4>2. Stop(d + 1).op = "stop" /\ OutOfRange.op = "raise"
        BY DEF Stop, OutOfRange
      <4> QED BY <3>1, <4>1, <4>2
    <3>5. cluster.hosts <= d
      BY <1>n, <3>2, <3>4
    <3>6. up = {} /\ Host \subseteq 1..cluster.kills
      BY <1>n, <3>2, <3>5
    <3> QED BY <1>0, <2>1, <3>1, <3>6 DEF DownRaised
  <2>4. CASE BootEnds \/ AskReturns \/ SleepEnds
    BY <1>r, <2>4 DEF BootEnds, AskReturns, SleepEnds
  <2> QED BY <1>2, <2>2, <2>3, <2>4 DEF Moves
<1>3. CASE LoopMoves
  BY <1>3, <1>q, LoopMoveIs DEF otherThanThread, netVars, serverVars
<1>4. CASE BootNode \/ AskLeader \/ AskHost
  BY <1>4, <1>r DEF BootNode, AskLeader, AskHost
<1>5. CASE FaultStep
  BY <1>5, <1>r DEF FaultStep
<1>6. CASE FaultEnds
  BY <1>6, <1>r DEF FaultEnds
<1>7. CASE ThreadStep
  BY <1>7, <1>q, NetCommands DEF ThreadStep, otherThanThread, serverVars
<1>8. CASE Election
  BY <1>8, <1>q DEF Election, Elect, StepDown
<1>9. CASE UNCHANGED vars
  BY <1>9, <1>q DEF vars, serverVars
<1> QED BY <1>1, <1>2, <1>3, <1>4, <1>5, <1>6, <1>7, <1>8, <1>9, Frames

\* Every step keeps the account of the servers that are down.
LEMMA DownStep ==
  ASSUME TypeInv, FlowInv, ListInv, DownInv, [Next]_vars
  PROVE  DownInv'
BY DownEarlyStep, DownLeaderStep, DownRecoveryStep, DownKillNStep,
   DownRaisedStep DEF DownInv

-----------------------------------------------------------------------------
(***************************************************************************)
(* Leaders.                                                                *)
(***************************************************************************)

\* Until the second fault is over servers are only stopped.
LEMMA OnlyStops ==
  ASSUME TypeInv, FlowInv, ListInv, DownInv, FaultStep, next <= 2
  PROVE  UNCHANGED serverVars \/ \E h \in Host : StopNode(h)
<1>1. /\ exec = "fault" /\ todo # <<>> /\ Perform(Head(todo))
      /\ todo \in Seq(Command)
  BY DEF FaultStep, TypeInv, TypeLists
<1>2. next \in 1..5 /\ failure \in AllFailureTypes
  BY SetUp DEF TypeInv, TypeControl
<1>3. next = 2 /\ failure \notin {"none", "stat"} /\ failure \notin ByThread
  BY <1>1, <1>2 DEF DownInv, DownEarly, FlowInv
<1>4. CASE failure \in ByExecute
  BY <1>4, NetCommands
<1>5. CASE failure = "leader"
  <2>1. PICK h \in Host : todo = <<Stop(h)>>
    BY <1>1, <1>3, <1>5 DEF DownInv, DownLeader
  <2> QED BY <1>1, <2>1, PerformIs
<1>6. CASE failure = "leader-recovery"
  <2>1. PICK h \in Host : todo = <<Stop(h), Record(h)>> \/ todo = <<Record(h)>>
    BY <1>1, <1>3, <1>6 DEF DownInv, DownRecovery
  <2>2. Head(todo) = Stop(h) \/ Head(todo) = Record(h)
    BY <2>1
  <2> QED BY <1>1, <2>2, PerformIs
<1>7. CASE failure = "kill-n"
  <2>1. PICK d \in 0..cluster.kills : Stopped(d)
    BY <1>1, <1>3, <1>7 DEF DownInv, DownKillN
  <2>2. Head(todo) = todo[1] /\ 1 \in 1..Len(todo)
    BY <1>1, Rest
  <2>3. Head(todo) = IF d + 1 \in Host THEN Stop(d + 1) ELSE OutOfRange
    BY <2>1, <2>2 DEF Stopped
  <2>4. Head(todo) # OutOfRange
    BY <1>1, Words, PerformIs
  <2>5. d + 1 \in Host /\ Head(todo) = Stop(d + 1)
    BY <2>3, <2>4
  <2> QED BY <1>1, <2>5, PerformIs
<1> QED BY <1>2, <1>3, <1>4, <1>5, <1>6, <1>7
        DEF AllFailureTypes, ByExecute, ByThread

\* What the logs of ocons say of leaders and terms.
Terms ==
  /\ \A h \in Host : logged[h] <= term
  /\ leader # NoHost => logged[leader] = term /\ term > 0
  /\ \A g, h \in Host :
       logged[g] = term /\ logged[h] = term /\ term > 0 => g = h
  /\ term > 0 => \E g \in Host : logged[g] = term

\* Every step keeps the newest term in the newest leader's log, while no
\* server has been restarted.
LEMMA TermStep ==
  ASSUME TypeInv, FlowInv, ListInv, DownInv, TermInv, [Next]_vars
  PROVE  TermInv'
<1>0. UNCHANGED <<failure, cluster>> /\ Host' = Host
  BY Frames, SameSetUp
<1>t. /\ term \in Nat /\ logged \in [Host -> Nat] /\ next \in 1..5
      /\ leader \in Host \cup {NoHost} /\ up \subseteq Host
      /\ NoHost \notin Host /\ Members \subseteq Host
  BY SetUp DEF TypeInv, TypeControl, TypeServers
<1> SUFFICES ASSUME next' <= 2, cluster.system = "ocons"
             PROVE  Terms' /\ (exec' = "boot" =>
                                 \A h \in Host \ up' : logged'[h] = 0)
  BY <1>0 DEF TermInv, Terms
<1>q. ASSUME next <= 2, UNCHANGED <<term, logged>>, leader' \in {leader, NoHost},
             exec' = "boot" => exec = "boot" /\ UNCHANGED up
      PROVE  Terms' /\ (exec' = "boot" => \A h \in Host \ up' : logged'[h] = 0)
  BY <1>0, <1>q DEF TermInv, Terms, NoHost
<1>1. CASE Applies
  BY <1>1, <1>q, ApplyIs DEF netVars, serverVars
<1>2. CASE Moves
  <2>1. UNCHANGED <<next, term, logged, leader, up>>
    BY <1>2, MoveIs DEF netVars, serverVars
  <2>2. exec' # "boot"
    BY <1>2 DEF Moves, BootEnds, AskReturns, ApplyRaises, FaultStepRaises, SleepEnds
  <2> QED BY <1>q, <2>1, <2>2
<1>3. CASE LoopMoves
  BY <1>3, <1>q, LoopMoveIs DEF otherThanThread, netVars, serverVars
<1>4. CASE BootNode
  <2>1. exec = "boot" /\ exec' = "boot" /\ UNCHANGED next
    BY <1>4 DEF BootNode
  <2>2. PICK h \in Host : h \notin up /\ StartNode(h)
    BY <1>4, BootIs
  <2>3. logged[h] = 0 /\ Terms /\ \A g \in Host \ up : logged[g] = 0
    BY <2>1, <2>2 DEF TermInv, Terms
  <2>4. logged' = logged /\ UNCHANGED <<leader, term>> /\ up' = up \cup {h}
    BY <1>t, <2>2, <2>3 DEF StartNode
  <2> QED BY <1>0, <2>3, <2>4 DEF Terms, NoHost
<1>5. CASE AskLeader
  BY <1>5, <1>q DEF AskLeader, unasked, netVars, serverVars
<1>6. CASE AskHost
  BY <1>6, <1>q DEF AskHost, unasked, netVars, serverVars
<1>7. CASE FaultStep
  <2>1. exec' = "fault" /\ UNCHANGED next
    BY <1>7 DEF FaultStep
  <2>2. UNCHANGED <<term, logged>> /\ leader' \in {leader, NoHost}
    BY <1>7, <2>1, OnlyStops DEF serverVars, StopNode
  <2> QED BY <1>q, <2>1, <2>2
<1>8. CASE FaultEnds
  <2>1. /\ next' = next + 1 /\ exec' \in {"done", "sleep"}
        /\ UNCHANGED <<term, logged, leader>>
    BY <1>8 DEF FaultEnds, netVars, serverVars
  <2> QED BY <1>q, <1>t, <2>1
<1>9. CASE ThreadStep
  BY <1>9, <1>q, NetCommands DEF ThreadStep, otherThanThread, serverVars
<1>10. CASE Election
  <2>1. UNCHANGED <<next, exec>> /\ \E h \in Members : Elect(h) \/ StepDown(h)
    BY <1>10 DEF Election
  <2>2. PICK h \in Host : Elect(h) \/ StepDown(h)
    BY <1>t, <2>1
  <2>3. CASE StepDown(h)
    BY <1>q, <2>1, <2>3 DEF StepDown
  <2>4. CASE Elect(h)
    <3>1. /\ leader' = h /\ term' = term + 1 /\ UNCHANGED up /\ h \in up
          /\ logged' = [logged EXCEPT ![h] = term + 1]
      BY <2>4 DEF Elect
    <3>2. Terms /\ (exec = "boot" => \A g \in Host \ up : logged[g] = 0)
      BY <2>1 DEF TermInv, Terms
    <3>3. /\ \A g \in Host : g # h => logged'[g] = logged[g] /\ logged'[g] \in Nat
                                     /\ logged'[g] <= term
          /\ logged'[h] = term + 1
      BY <1>t, <3>1, <3>2 DEF Terms
    <3>4. \A g \in Host : logged'[g] <= term'
      BY <1>t, <3>1, <3>3
    <3>5. \A g \in Host : logged'[g] = term' => g = h
      BY <1>t, <3>1, <3>3
    <3>6. Terms'
      BY <1>0, <1>t, <3>1, <3>3, <3>4, <3>5 DEF Terms
    <3>7. exec' = "boot" => \A g \in Host \ up' : logged'[g] = 0
      BY <2>1, <3>1, <3>2, <3>3
    <3> QED BY <3>6, <3>7
  <2> QED BY <2>2, <2>3, <2>4
<1>11. CASE UNCHANGED vars
  BY <1>11, <1>q DEF vars, serverVars
<1> QED BY <1>1, <1>2, <1>3, <1>4, <1>5, <1>6, <1>7, <1>8, <1>9, <1>10,
           <1>11, Frames

\* The steps that matter to a call of get_leader.
LEMMA AskFrames ==
  ASSUME TypeInv, FlowInv, ListInv, [Next]_vars
  PROVE  \/ AskLeader \/ AskHost \/ AskReturns \/ Election
         \/ exec' \notin {"ask", "told", "unanswered"}
         \/ UNCHANGED <<exec, serverVars, askVars>>
<1>1. CASE Applies
  BY <1>1, ApplyIs
<1>2. CASE Moves
  BY <1>2 DEF Moves, BootEnds, ApplyRaises, FaultStepRaises, SleepEnds
<1>3. CASE LoopMoves
  BY <1>3, LoopMoveIs DEF otherThanThread, netVars
<1>4. CASE BootNode \/ FaultStep \/ FaultEnds
  BY <1>4 DEF BootNode, FaultStep, FaultEnds
<1>5. CASE ThreadStep
  BY <1>5, NetCommands DEF ThreadStep, otherThanThread
<1>6. CASE UNCHANGED vars
  BY <1>6 DEF vars
<1> QED BY <1>1, <1>2, <1>3, <1>4, <1>5, <1>6, Frames

\* Every step keeps the answer of get_leader among those who claimed to
\* lead, or behind the newest term of the time it was called.
LEMMA ClaimStep ==
  ASSUME TypeInv, FlowInv, ListInv, DownInv, TermInv, ClaimInv, [Next]_vars
  PROVE  ClaimInv'
<1>0. UNCHANGED <<failure, cluster>> /\ Host' = Host
  BY Frames, SameSetUp
<1>t. /\ term \in Nat /\ logged \in [Host -> Nat] /\ best \in Nat
      /\ asked \in 0..cluster.hosts /\ asked \in Nat /\ cluster.hosts \in Nat
      /\ found \in Host \cup {NoHost} /\ claimed \subseteq Host
      /\ NoHost \notin Host /\ Members \subseteq Host /\ Host = 1..cluster.hosts
      /\ up \subseteq Host /\ cluster.system \in Systems
  BY SetUp DEF TypeInv, TypeControl, TypeServers, TypeAsk, Host
<1> DEFINE Seen == found \in claimed \cup {NoHost}
           Shown == cluster.system \in {"etcd", "zookeeper", "kubernetes"}
           Ocons == cluster.system = "ocons"
<1>c. /\ exec = "ask" => Claims \subseteq claimed
      /\ Asking /\ Shown => Seen
      /\ exec = "ask" /\ Ocons => \E M \in 0..term : NewestAtCall(M)
  BY DEF ClaimInv
<1>n. Asking => next = 2
  BY DEF FlowInv
<1>m. Asking /\ Ocons => Terms
  BY <1>n DEF TermInv, Terms
<1>p. ASSUME exec' = "ask", Claims' \subseteq claimed', Shown => Seen',
             Ocons => \E M \in 0..term' : NewestAtCall(M)'
      PROVE  ClaimInv'
  BY <1>0, <1>p DEF ClaimInv, TargetHasLed
<1>1. CASE AskLeader
  <2>1. /\ exec = "apply" /\ exec' = "ask" /\ BeginAsk /\ AsksLeader
        /\ UNCHANGED <<next, serverVars>>
    BY <1>1 DEF AskLeader, unasked, netVars
  <2>2. /\ asked' = 0 /\ found' = NoHost /\ best' = 0
        /\ claimed' = Claims \cup (IF Ocons THEN Newest ELSE {})
    BY <2>1 DEF BeginAsk
  <2>3. Claims' = Claims /\ UNCHANGED <<term, logged>>
    BY <2>1 DEF Claims, serverVars
  <2>4. next = 2
    BY <2>1, Now, Times DEF AsksLeader
  <2>5. ASSUME Ocons PROVE NewestAtCall(term)'
    <3>1. Terms
      BY <2>4, <2>5 DEF TermInv, Terms
    <3>2. Newest \subseteq claimed'
      BY <2>2, <2>5
    <3>3. \A h \in Host \ claimed' : logged[h] < term \/ logged[h] = 0
      <4> SUFFICES ASSUME NEW h \in Host, h \notin claimed', logged[h] # 0
                   PROVE  logged[h] < term
        OBVIOUS
      <4>1. h \notin Newest
        BY <3>2
      <4>2. PICK g \in Host : ~(logged[g] <= logged[h])
        BY <4>1 DEF Newest
      <4>3. logged[g] \in Nat /\ logged[h] \in Nat /\ logged[g] <= term
        BY <1>t, <3>1 DEF Terms
      <4> QED BY <1>t, <4>2, <4>3
    <3>4. term = 0 \/ \E g \in claimed' : logged[g] >= term /\ g \in Nat \ {0}
      <4> SUFFICES ASSUME term # 0
                   PROVE  \E g \in claimed' : logged[g] >= term /\ g \in Nat \ {0}
        OBVIOUS
      <4>1. PICK g \in Host : logged[g] = term
        BY <1>t, <3>1 DEF Terms
      <4>2. g \in Newest
        BY <3>1, <4>1 DEF Newest, Terms
      <4> QED BY <1>t, <3>2, <4>1, <4>2
    <3>5. term = 0 \/ \E g \in claimed' : logged[g] >= term /\ ~(g <= 0)
      BY <3>4
    <3> QED BY <1>0, <2>2, <2>3, <3>3, <3>5 DEF NewestAtCall
  <2>6. ASSUME Ocons PROVE \E M \in 0..term' : NewestAtCall(M)'
    <3>1. PICK M \in 0..term : M = term
      BY <1>t
    <3>2. NewestAtCall(M)'
      BY <2>3, <2>5, <2>6, <3>1 DEF NewestAtCall
    <3> QED BY <2>3, <3>2
  <2> QED BY <1>p, <2>1, <2>2, <2>3, <2>6
<1>2. CASE AskHost
  <2>1. exec = "ask" /\ exec' = "ask" /\ AskNext /\ UNCHANGED serverVars
    BY <1>2 DEF AskHost, unasked, netVars
  <2>2. /\ asked' = asked + 1 /\ asked + 1 \in Host /\ claimed' = claimed
        /\ Shown => found' \in {found} \cup Claims
    BY <2>1, AskIs
  <2>3. Claims' = Claims /\ UNCHANGED <<term, logged>>
    BY <2>1 DEF Claims, serverVars
  <2>4. Claims' \subseteq claimed' /\ (Shown => Seen')
    BY <1>c, <2>1, <2>2, <2>3 DEF Asking
  <2>5. ASSUME Ocons PROVE \E M \in 0..term' : NewestAtCall(M)'
    <3>1. PICK M \in 0..term : NewestAtCall(M)
      BY <1>c, <2>1, <2>5
    <3>2. AskOcons(asked + 1)
      BY <2>1, <2>5 DEF AskNext, AskEtcd, AskZookeeper, AskConspire, AskKubernetes
    <3> DEFINE a == asked + 1
    <3>3. /\ a \in Host /\ a \in Nat /\ logged[a] \in Nat /\ M \in Nat
          /\ \A g \in claimed : g \in Nat /\ logged[g] \in Nat
      BY <1>t, <2>2
    <3>4. \/ logged[a] > best /\ found' = a /\ best' = logged[a]
          \/ logged[a] <= best /\ UNCHANGED <<found, best>>
      BY <1>t, <3>2, <3>3 DEF AskOcons
    <3>5. M = 0 \/ \E g \in claimed :
                     logged[g] >= M /\ (g <= asked + 1 => best' >= M)
      <4> SUFFICES ASSUME M # 0
                   PROVE  \E g \in claimed :
                            logged[g] >= M /\ (g <= asked + 1 => best' >= M)
        OBVIOUS
      <4>1. PICK g \in claimed : logged[g] >= M /\ (g <= asked => best >= M)
        BY <3>1 DEF NewestAtCall
      <4>2. CASE g = a
        BY <1>t, <3>3, <3>4, <4>1, <4>2
      <4>3. CASE g # a
        <5>1. g <= asked + 1 => g <= asked
          BY <1>t, <3>3, <4>3
        <5>2. best' >= best
          BY <1>t, <3>3, <3>4
        <5>3. best' \in Nat
          BY <1>t, <3>3, <3>4
        <5> QED BY <1>t, <3>3, <4>1, <5>1, <5>2, <5>3
      <4> QED BY <4>2, <4>3
    <3>6. \/ found' \in claimed
          \/ best' < M
          \/ found' = NoHost /\ best' = 0
      <4>1. CASE logged[a] <= best /\ UNCHANGED <<found, best>>
        BY <3>1, <4>1 DEF NewestAtCall
      <4>2. CASE logged[a] > best /\ found' = a /\ best' = logged[a]
        <5>1. a \in claimed \/ logged[a] < M \/ logged[a] = 0
          BY <3>1, <3>3 DEF NewestAtCall
        <5>2. logged[a] # 0
          BY <1>t, <3>3, <4>2
        <5> QED BY <4>2, <5>1, <5>2
      <4> QED BY <3>4, <4>1, <4>2
    <3>7. NewestAtCall(M)'
      BY <1>0, <2>2, <2>3, <3>1, <3>5, <3>6 DEF NewestAtCall
    <3> QED BY <2>3, <3>7
  <2> QED BY <1>p, <2>1, <2>4, <2>5
<1>3. CASE AskReturns
  <2>1. /\ exec = "ask" /\ AskOver /\ UNCHANGED <<found, claimed>>
        /\ exec' = IF found = NoHost THEN "unanswered" ELSE "told"
    BY <1>3 DEF AskReturns, askVars
  <2>2. ASSUME Ocons, found # NoHost PROVE found \in claimed
    <3>1. PICK M \in 0..term : NewestAtCall(M)
      BY <1>c, <2>1, <2>2
    <3>2. asked = cluster.hosts
      BY <2>1, <2>2 DEF AskOver
    <3>3. M = 0 \/ best >= M
      <4>1. \A g \in claimed : g <= asked
        BY <1>t, <3>2
      <4> QED BY <3>1, <4>1 DEF NewestAtCall
    <3>4. ~(best < M)
      BY <1>t, <3>3
    <3> QED BY <2>2, <3>1, <3>4 DEF NewestAtCall
  <2>3. Shown => Seen
    BY <1>c, <2>1 DEF Asking
  <2>4. TargetHasLed'
    <3> SUFFICES ASSUME exec' = "told", cluster.system # "conspire"
                 PROVE  found' \in claimed'
      BY <1>0 DEF TargetHasLed
    <3>1. Shown \/ Ocons
      BY <1>t DEF Systems
    <3> QED BY <2>1, <2>2, <2>3, <3>1
  <2> QED BY <1>0, <2>1, <2>3, <2>4 DEF ClaimInv
<1>4. CASE Election
  <2>1. /\ UNCHANGED exec /\ \E h \in Members : Elect(h) \/ StepDown(h)
        /\ IF exec = "ask"
           THEN Witness /\ UNCHANGED <<asked, found, best>>
           ELSE UNCHANGED askVars
    BY <1>4 DEF Election
  <2>2. CASE exec # "ask"
    <3>1. UNCHANGED <<found, claimed>>
      BY <2>1, <2>2 DEF askVars
    <3> QED BY <1>0, <2>1, <2>2, <3>1 DEF ClaimInv, TargetHasLed, Asking
  <2>3. CASE exec = "ask"
    <3>1. claimed' = claimed \cup Claims' /\ UNCHANGED <<asked, found, best>>
      BY <2>1, <2>3 DEF Witness
    <3>2. Claims' \subseteq claimed' /\ (Shown => Seen')
      BY <1>c, <2>3, <3>1 DEF Asking
    <3>3. ASSUME Ocons PROVE \E M \in 0..term' : NewestAtCall(M)'
      <4>1. PICK M \in 0..term : NewestAtCall(M)
        BY <1>c, <2>3, <3>3
      <4>2. PICK h \in Host : Elect(h) \/ StepDown(h)
        BY <1>t, <2>1
      <4>3. /\ term' \in Nat /\ term' >= term
            /\ \A g \in Host : logged'[g] >= logged[g] /\ logged'[g] \in Nat
            /\ \A g \in Host \ claimed' : logged'[g] = logged[g]
        <5>1. CASE StepDown(h)
          BY <1>t, <5>1 DEF StepDown
        <5>2. CASE Elect(h)
          <6>1. /\ leader' = h /\ term' = term + 1 /\ UNCHANGED up /\ h \in up
                /\ logged' = [logged EXCEPT ![h] = term + 1]
            BY <3>3, <5>2 DEF Elect
          <6>2. h \in claimed'
            BY <1>t, <3>1, <6>1 DEF Claims
          <6>3. logged[h] <= term
            BY <1>m, <2>3, <3>3 DEF Asking, Terms
          <6> QED BY <1>t, <6>1, <6>2, <6>3
        <5> QED BY <4>2, <5>1, <5>2
      <4>4. M = 0 \/ \E g \in claimed' :
                       logged'[g] >= M /\ (g <= asked => best >= M)
        <5> SUFFICES ASSUME M # 0
                     PROVE  \E g \in claimed' :
                              logged'[g] >= M /\ (g <= asked => best >= M)
          OBVIOUS
        <5>1. PICK g \in claimed : logged[g] >= M /\ (g <= asked => best >= M)
          BY <4>1 DEF NewestAtCall
        <5>2. g \in Host /\ g \in claimed' /\ logged[g] \in Nat /\ M \in Nat
              /\ logged'[g] \in Nat /\ logged'[g] >= logged[g]
          BY <1>t, <3>1, <4>3
        <5>3. logged'[g] >= M
          BY <5>1, <5>2
        <5> QED BY <5>1, <5>2, <5>3
      <4>5. \A g \in Host \ claimed' : logged'[g] < M \/ logged'[g] = 0
        BY <3>1, <4>1, <4>3 DEF NewestAtCall
      <4>6. NewestAtCall(M)'
        BY <1>0, <3>1, <4>1, <4>4, <4>5 DEF NewestAtCall
      <4>7. M \in 0..term'
        BY <1>t, <4>3
      <4> QED BY <4>6, <4>7
    <3> QED BY <1>p, <2>1, <2>3, <3>2, <3>3
  <2> QED BY <2>2, <2>3
<1>5. CASE exec' \notin {"ask", "told", "unanswered"}
  BY <1>5 DEF ClaimInv, Asking, TargetHasLed
<1>6. CASE UNCHANGED <<exec, serverVars, askVars>>
  <2>1. UNCHANGED <<exec, up, leader, stale, term, logged, asked, found, best,
                    claimed>>
    BY <1>6 DEF serverVars, askVars
  <2> QED BY <1>0, <2>1 DEF ClaimInv, Asking, TargetHasLed, NewestAtCall, Claims
<1> QED BY <1>1, <1>2, <1>3, <1>4, <1>5, <1>6, AskFrames

\* What is known of a call during which one host led all along.
Led ==
  /\ leader # NoHost /\ Claims = {leader} /\ claimed = {leader}
  /\ cluster.system \in {"etcd", "zookeeper"} /\ asked >= leader =>
       found = leader
  /\ cluster.system = "kubernetes" /\ 2 \in Members /\ asked >= 2 =>
       found = leader
  /\ cluster.system = "ocons" =>
       IF asked >= leader THEN found = leader /\ best = term
                          ELSE best < term

\* Every step of a call, elections included, keeps its answer to the one
\* host that leads all along.
LEMMA SteadyStep ==
  ASSUME TypeInv, FlowInv, ListInv, DownInv, TermInv, ClaimInv, SteadyInv,
         [Next]_vars
  PROVE  SteadyInv'
<1>0. UNCHANGED <<failure, cluster>> /\ Host' = Host /\ Members' = Members
  BY Frames, SameSetUp
<1>t. /\ term \in Nat /\ logged \in [Host -> Nat] /\ best \in Nat
      /\ asked \in 0..cluster.hosts /\ asked \in Nat /\ cluster.hosts \in Nat
      /\ cluster.hosts >= 2
      /\ found \in Host \cup {NoHost} /\ claimed \subseteq Host
      /\ NoHost \notin Host /\ Members \subseteq Host /\ Host = 1..cluster.hosts
      /\ up \subseteq Host /\ cluster.system \in Systems
      /\ leader \in Host \cup {NoHost} /\ Host \subseteq Nat
  BY SetUp DEF TypeInv, TypeControl, TypeServers, TypeAsk, Host
<1>s. exec = "ask" /\ steady => Led
  BY DEF SteadyInv, Led
<1>p. ASSUME exec' = "ask", steady' => Led' PROVE SteadyInv'
  BY <1>0, <1>p DEF SteadyInv, SteadyLeaderFound, Led
<1>1. CASE AskLeader
  <2>1. /\ exec = "apply" /\ exec' = "ask" /\ BeginAsk /\ AsksLeader
        /\ UNCHANGED <<next, serverVars>>
    BY <1>1 DEF AskLeader, unasked, netVars
  <2>2. /\ asked' = 0 /\ found' = NoHost /\ best' = 0
        /\ claimed' = Claims \cup (IF cluster.system = "ocons" THEN Newest ELSE {})
        /\ steady' <=> Claims = {leader}
    BY <2>1 DEF BeginAsk
  <2>3. Claims' = Claims /\ UNCHANGED <<term, logged, leader>>
    BY <2>1 DEF Claims, serverVars
  <2>4. next = 2
    BY <2>1, Now, Times DEF AsksLeader
  <2>5. ASSUME Claims = {leader} PROVE Led'
    <3>1. leader # NoHost /\ leader \in Host
      <4>1. leader \in Claims
        BY <2>5
      <4> QED BY <1>t, <4>1 DEF Claims
    <3>2. cluster.system = "ocons" => Newest = {leader} /\ 0 < term
      <4> SUFFICES ASSUME cluster.system = "ocons"
                   PROVE  Newest = {leader} /\ 0 < term
        OBVIOUS
      <4>1. Terms
        BY <2>4 DEF TermInv, Terms
      <4>2. logged[leader] = term /\ term > 0
        BY <3>1, <4>1 DEF Terms
      <4>3. leader \in Newest
        BY <1>t, <3>1, <4>1, <4>2 DEF Newest, Terms
      <4>4. ASSUME NEW h \in Newest PROVE h = leader
        <5>1. h \in Host /\ logged[leader] <= logged[h] /\ logged[h] <= term
          BY <3>1, <4>1 DEF Newest, Terms
        <5>2. logged[h] = term
          BY <1>t, <4>2, <5>1
        <5> QED BY <3>1, <4>1, <4>2, <5>1, <5>2 DEF Terms
      <4> QED BY <4>2, <4>3, <4>4
    <3>3. claimed' = {leader}
      BY <2>2, <2>5, <3>2
    <3>4. ~(0 >= leader)
      BY <1>t, <3>1
    <3> QED BY <1>0, <2>2, <2>3, <2>5, <3>1, <3>2, <3>3, <3>4 DEF Led, NoHost
  <2> QED BY <1>p, <2>1, <2>2, <2>5
<1>2. CASE AskHost
  <2>1. exec = "ask" /\ exec' = "ask" /\ AskNext /\ UNCHANGED serverVars
    BY <1>2 DEF AskHost, unasked, netVars
  <2>2. /\ asked' = asked + 1 /\ asked + 1 \in Host /\ UNCHANGED <<claimed, steady>>
    BY <2>1, AskIs DEF AskNext
  <2>3. Claims' = Claims /\ UNCHANGED <<term, logged, leader>>
    BY <2>1 DEF Claims, serverVars
  <2>4. next = 2 /\ up = Host
    BY <2>1 DEF FlowInv, Asking, DownInv, DownEarly, Early
  <2>5. ASSUME steady PROVE Led'
    <3>1. Led
      BY <1>s, <2>1, <2>5
    <3>2. leader \in Host /\ leader # NoHost /\ Claims = {leader} /\ claimed = {leader}
      BY <1>t, <3>1 DEF Led
    <3>3. asked + 1 >= leader => asked >= leader \/ asked + 1 = leader
      BY <1>t, <3>2
    <3>4. CASE cluster.system = "etcd"
      <4>1. AskEtcd(asked + 1)
        BY <2>1, <3>4 DEF AskNext, AskZookeeper, AskOcons, AskConspire,
           AskKubernetes
      <4>2. found' = leader
        BY <2>2, <2>4, <3>2, <4>1 DEF AskEtcd
      <4> QED BY <1>0, <2>2, <2>3, <3>2, <3>4, <4>2 DEF Led, NoHost
    <3>5. CASE cluster.system = "zookeeper"
      <4>1. AskZookeeper(asked + 1)
        BY <2>1, <3>5 DEF AskNext, AskEtcd, AskOcons, AskConspire, AskKubernetes
      <4>2. found \in {leader, NoHost}
        BY <2>1, <3>2, <3>5 DEF ClaimInv, Asking
      <4>3. asked + 1 >= leader => found' = leader
        BY <3>1, <3>2, <3>3, <3>5, <4>1, <4>2 DEF AskZookeeper, Led
      <4> QED BY <1>0, <2>2, <2>3, <3>2, <3>5, <4>3 DEF Led, NoHost
    <3>6. CASE cluster.system = "kubernetes"
      <4>1. AskKubernetes(asked + 1)
        BY <2>1, <3>6 DEF AskNext, AskEtcd, AskOcons, AskConspire, AskZookeeper
      <4>2. ASSUME 2 \in Members, asked + 1 >= 2 PROVE found' = leader
        <5>1. CASE asked >= 2
          <6>1. asked + 1 # 2 /\ found = leader
            BY <1>t, <3>1, <3>6, <4>2, <5>1 DEF Led
          <6> QED BY <4>1, <6>1 DEF AskKubernetes
        <5>2. CASE asked + 1 = 2
          <6>1. 2 \in Members \cap up /\ Claims # {}
            BY <1>t, <2>4, <3>2, <4>2
          <6> QED BY <3>2, <4>1, <5>2, <6>1 DEF AskKubernetes
        <5> QED BY <1>t, <4>2, <5>1, <5>2
      <4> QED BY <1>0, <2>2, <2>3, <3>2, <3>6, <4>2 DEF Led, NoHost
    <3>7. CASE cluster.system = "ocons"
      <4>1. AskOcons(asked + 1)
        BY <2>1, <3>7 DEF AskNext, AskEtcd, AskKubernetes, AskConspire, AskZookeeper
      <4>2. Terms
        BY <2>4, <3>7 DEF TermInv, Terms
      <4> DEFINE a == asked + 1
      <4>3. /\ a \in Host /\ logged[a] \in Nat /\ logged[a] <= term
            /\ logged[leader] = term
            /\ a # leader => logged[a] # term
        <5>1. logged[leader] = term /\ term > 0
          BY <3>2, <4>2 DEF Terms
        <5>2. a \in Host /\ logged[a] \in Nat /\ logged[a] <= term
          BY <1>t, <2>2, <4>2 DEF Terms
        <5>3. a # leader => logged[a] # term
          BY <3>2, <4>2, <5>1, <5>2 DEF Terms
        <5> QED BY <5>1, <5>2, <5>3
      <4>4. \/ logged[a] > best /\ found' = a /\ best' = logged[a]
            \/ logged[a] <= best /\ UNCHANGED <<found, best>>
        BY <1>t, <4>1, <4>3 DEF AskOcons
      <4>5. CASE asked >= leader
        <5>1. found = leader /\ best = term
          BY <3>1, <3>7, <4>5 DEF Led
        <5>2. UNCHANGED <<found, best>>
          BY <1>t, <4>3, <4>4, <5>1
        <5>3. a >= leader
          BY <1>t, <3>2, <4>5
        <5> QED BY <1>0, <2>2, <2>3, <3>2, <3>7, <5>1, <5>2, <5>3 DEF Led, NoHost
      <4>6. CASE a = leader
        <5>1. ~(asked >= leader)
          BY <1>t, <4>6
        <5>2. best < term
          BY <3>1, <3>7, <5>1 DEF Led
        <5>3. found' = leader /\ best' = term
          BY <1>t, <4>3, <4>4, <4>6, <5>2
        <5>4. a >= leader
          BY <1>t, <4>6
        <5> QED BY <1>0, <2>2, <2>3, <3>2, <3>7, <5>3, <5>4 DEF Led, NoHost
      <4>7. CASE a # leader /\ ~(asked >= leader)
        <5>1. ~(a >= leader)
          BY <3>3, <4>7
        <5>2. best < term
          BY <3>1, <3>7, <4>7 DEF Led
        <5>3. best' < term
          BY <1>t, <4>3, <4>4, <4>7, <5>2
        <5> QED BY <1>0, <2>2, <2>3, <3>2, <3>7, <5>1, <5>3 DEF Led, NoHost
      <4> QED BY <4>5, <4>6, <4>7
    <3>8. CASE cluster.system = "conspire"
      BY <1>0, <2>2, <2>3, <3>2, <3>8 DEF Led, NoHost
    <3> QED BY <1>t, <3>4, <3>5, <3>6, <3>7, <3>8 DEF Systems
  <2> QED BY <1>p, <2>1, <2>2, <2>5
<1>3. CASE AskReturns
  <2>1. /\ exec = "ask" /\ AskOver /\ UNCHANGED <<found, claimed, steady>>
        /\ exec' = IF found = NoHost THEN "unanswered" ELSE "told"
    BY <1>3 DEF AskReturns, askVars
  <2> SUFFICES ASSUME steady, cluster.system # "conspire",
                      cluster.system = "kubernetes" => 2 \in Members
               PROVE  found \in claimed /\ Cardinality(claimed) = 1
    BY <1>0, <2>1 DEF SteadyInv, SteadyLeaderFound
  <2>2. Led
    BY <1>s, <2>1
  <2>3. claimed = {leader} /\ leader \in Host
    BY <1>t, <2>2 DEF Led
  <2>4. Cardinality(claimed) = 1
    BY <2>3, FS_Singleton
  <2>5. found \in claimed
    <3>1. CASE asked = cluster.hosts
      <4>1. asked >= leader /\ asked >= 2
        BY <1>t, <2>3, <3>1
      <4> QED BY <1>t, <2>2, <2>3, <4>1 DEF Led, Systems
    <3>2. CASE cluster.system = "kubernetes" /\ asked = 2
      BY <2>2, <2>3, <3>2 DEF Led
    <3>3. CASE cluster.system = "etcd" /\ found # NoHost
      BY <2>1, <3>3 DEF ClaimInv, Asking
    <3> QED BY <2>1, <3>1, <3>2, <3>3 DEF AskOver
  <2> QED BY <2>4, <2>5
<1>4. CASE Election
  <2>1. /\ UNCHANGED exec /\ \E h \in Members : Elect(h) \/ StepDown(h)
        /\ IF exec = "ask"
           THEN Witness /\ UNCHANGED <<asked, found, best>>
           ELSE UNCHANGED askVars
    BY <1>4 DEF Election
  <2>2. CASE exec # "ask"
    <3>1. UNCHANGED <<found, claimed, steady>>
      BY <2>1, <2>2 DEF askVars
    <3> QED BY <1>0, <2>1, <2>2, <3>1 DEF SteadyInv, SteadyLeaderFound
  <2>3. CASE exec = "ask"
    <3> SUFFICES ASSUME steady' PROVE FALSE
      BY <1>p, <2>1, <2>3
    <3>1. steady /\ Claims' = Claims
      BY <2>1, <2>3 DEF Witness
    <3>2. Claims = {leader} /\ leader # NoHost
      BY <1>s, <2>3, <3>1 DEF Led
    <3>3. PICK h \in Host : Elect(h) \/ StepDown(h)
      BY <1>t, <2>1
    <3>4. CASE Elect(h)
      <4>1. leader' = h /\ h # leader /\ h \in up /\ UNCHANGED up
        BY <3>4 DEF Elect
      <4>2. h \in Claims'
        BY <1>t, <4>1 DEF Claims
      <4> QED BY <3>1, <3>2, <4>1, <4>2
    <3>5. CASE StepDown(h)
      <4>1. h = leader /\ leader' = NoHost /\ stale' = stale \ {leader}
        BY <3>2, <3>5 DEF StepDown
      <4>2. leader \notin Claims'
        BY <3>2, <4>1 DEF Claims, NoHost
      <4> QED BY <3>1, <3>2, <4>2
    <3> QED BY <3>3, <3>4, <3>5
  <2> QED BY <2>2, <2>3
<1>5. CASE exec' \notin {"ask", "told", "unanswered"}
  BY <1>5 DEF SteadyInv, SteadyLeaderFound
<1>6. CASE UNCHANGED <<exec, serverVars, askVars>>
  <2>1. UNCHANGED <<exec, up, leader, stale, term, logged, asked, found, best,
                    claimed, steady>>
    BY <1>6 DEF serverVars, askVars
  <2> QED BY <1>0, <2>1 DEF SteadyInv, SteadyLeaderFound, Claims
<1> QED BY <1>1, <1>2, <1>3, <1>4, <1>5, <1>6, AskFrames

-----------------------------------------------------------------------------
(***************************************************************************)
(* The invariant, and what follows from it.                                *)
(***************************************************************************)

\* Before the servers are started.
LEMMA InitInv == Init => Inv
<1> SUFFICES ASSUME Init PROVE Inv
  OBVIOUS
<1>i. /\ cluster \in Clusters /\ failure \in cluster.failures
      /\ up = {} /\ leader = NoHost /\ stale = {} /\ term = 0
      /\ logged = [h \in Host |-> 0]
      /\ asked = 0 /\ found = NoHost /\ best = 0 /\ claimed = {} /\ steady = FALSE
      /\ next = 1 /\ exec = "boot" /\ todo = <<>>
      /\ thread = "none" /\ tloop = <<>> /\ ttodo = <<>>
      /\ rules = BaseRules /\ partitioned = <<>> /\ killed = NoHost
  BY DEF Init, ServersInit, BaseRules
<1>s. /\ cluster.hosts \in Nat \ {0, 1} /\ NoHost \notin Host
      /\ failure \in AllFailureTypes /\ Host = 1..cluster.hosts
  BY <1>i, SetUp DEF Host
<1>1. TypeInv
  <2>1. BaseRules \in [Host -> Seq(Nat)]
    BY DEF BaseRules
  <2>2. <<>> \in Seq(Command) /\ <<>> \in Seq(Host)
    OBVIOUS
  <2>3. TypeControl
    BY <1>i DEF TypeControl, ExecPoints, ThreadPoints
  <2>4. TypeLists /\ TypeNet
    BY <1>i, <2>1, <2>2 DEF TypeLists, TypeNet
  <2>5. TypeServers
    BY <1>i DEF TypeServers
  <2>6. TypeAsk
    <3>1. asked \in 0..cluster.hosts
      BY <1>i, <1>s
    <3>2. steady \in BOOLEAN
      BY <1>i
    <3> QED BY <1>i, <3>1, <3>2 DEF TypeAsk
  <2> QED BY <2>3, <2>4, <2>5, <2>6 DEF TypeInv
<1>2. FlowInv
  <2>1. 1 \in 1..Len(Schedule)
    BY DEF Schedule
  <2> QED BY <1>i, <2>1 DEF FlowInv, Asking
<1>3. ListInv
  BY <1>i DEF ListInv
<1>4. ChainInv
  <2> SUFFICES ASSUME NEW h \in Host PROVE Chain(h)
    BY DEF ChainInv, Chain
  <2>1. Pending(h) = {}
    BY <1>i DEF Pending
  <2>2. Cardinality(Pending(h)) = 0
    BY <2>1, FS_EmptySet
  <2>3. rules[h] = BaseRules[h]
    BY <1>i
  <2>4. CASE h \in cluster.firewalled
    <3>1. rules[h] = <<0>> /\ Len(BaseRules[h]) = 1
      BY <2>3, <2>4, BaseIs
    <3> QED BY <2>2, <3>1 DEF Chain
  <2>5. CASE h \notin cluster.firewalled
    <3>1. rules[h] = <<>> /\ Len(BaseRules[h]) = 0
      BY <2>3, <2>5, BaseIs
    <3> QED BY <2>2, <2>5, <3>1 DEF Chain
  <2> QED BY <2>4, <2>5
<1>5. TimeInv
  BY <1>i DEF TimeInv
<1>6. PairInv
  <2>1. \A x, y \in Host : ~Drops(x, y)
    <3>1. TypeNet
      BY <1>1 DEF TypeInv
    <3> QED BY <1>4, <1>i, <1>s, <3>1, NoEntries
  <2>2. \A c : ~Among(<<>>, c)
    BY DEF Among
  <2>3. 1 \in Host /\ 2 \in Host
    BY <1>s
  <2>4. \A x, y \in Host :
           ~(\/ Drops(x, y) \/ Among(todo, Drop(x, y))
             \/ Among(ttodo, Drop(x, y)) \/ Among(tloop, Drop(x, y)))
    BY <1>i, <2>1, <2>2
  <2> QED BY <2>3, <2>4 DEF PairInv
<1>7. RegionInv
  BY <1>i DEF RegionInv
<1>8. DownInv
  BY <1>i DEF DownInv, DownEarly, DownLeader, DownRecovery, DownKillN,
     DownRaised, Early
<1>9. TermInv
  BY <1>i DEF TermInv
<1>10. ClaimInv /\ SteadyInv
  BY <1>i DEF ClaimInv, SteadyInv, TargetHasLed, SteadyLeaderFound, Asking
<1> QED BY <1>1, <1>2, <1>3, <1>4, <1>5, <1>6, <1>7, <1>8, <1>9, <1>10 DEF Inv

\* Every step of either thread, and every election, keeps the invariant.
THEOREM Invariant == Spec => []Inv
<1>1. Inv /\ [Next]_vars => Inv'
  <2> SUFFICES ASSUME Inv, [Next]_vars PROVE Inv'
    OBVIOUS
  <2>0. /\ TypeInv /\ FlowInv /\ ListInv /\ ChainInv /\ TimeInv /\ PairInv
        /\ RegionInv /\ DownInv /\ TermInv /\ ClaimInv /\ SteadyInv
    BY DEF Inv
  <2>1. TypeInv' /\ FlowInv' /\ ListInv' /\ TimeInv'
    BY <2>0, TypeStep, FlowStep, ListStep, TimeStep
  <2>2. ChainInv' /\ PairInv' /\ RegionInv'
    BY <2>0, ChainStep, PairStep, RegionStep
  <2>3. DownInv' /\ TermInv' /\ ClaimInv' /\ SteadyInv'
    BY <2>0, DownStep, TermStep, ClaimStep, SteadyStep
  <2> QED BY <2>1, <2>2, <2>3 DEF Inv
<1> QED BY <1>1, InitInv, PTL DEF Spec

\* Both threads, the chains and the servers have their types in every test.
THEOREM TypeCorrect == Spec => []TypeInv
<1>1. Inv => TypeInv
  BY DEF Inv
<1> QED BY <1>1, Invariant, PTL

\* Removal by rule number gives every host its own rules back, whatever
\* hosts the partitions were about and whatever rules the hosts began with.
THEOREM Restored == Spec => []ChainsRestored
<1>1. Inv => ChainsRestored
  <2> SUFFICES ASSUME Inv, partitioned = <<>> PROVE rules = BaseRules
    BY DEF ChainsRestored
  <2>1. TypeNet /\ ChainInv /\ NoHost \notin Host
    BY SetUp DEF Inv, TypeInv, TypeControl
  <2>2. \A h \in Host : rules[h] = BaseRules[h]
    BY <2>1, NoEntries
  <2>3. rules \in [Host -> Seq(Nat)] /\ BaseRules = [h \in Host |-> BaseRules[h]]
    BY <2>1 DEF TypeNet, BaseRules
  <2> QED BY <2>2, <2>3
<1> QED BY <1>1, Invariant, PTL

\* After the third fault of a test that removes its partition nothing is cut.
THEOREM Removed == Spec => []RemovedInTime
<1>1. Inv => RemovedInTime
  <2> SUFFICES ASSUME Inv, failure \in ByExecute, next > 3 PROVE ~Cut
    BY DEF RemovedInTime, ByExecute
  <2>1. TypeNet /\ ChainInv /\ NoHost \notin Host /\ TimeInv
    BY SetUp DEF Inv, TypeInv, TypeControl
  <2>2. partitioned = <<>>
    BY <2>1 DEF TimeInv
  <2> QED BY <2>1, <2>2, NoEntries DEF Cut
<1> QED BY <1>1, Invariant, PTL

\* Except in a cluster of two, every leader reaches a majority while the
\* partial partitions come and go.  (Of two members each is half.)
THEOREM MajorityKept ==
  Spec => [](Cardinality(Members) # 2 => LeaderKeepsMajority)
<1>1. Inv => (Cardinality(Members) # 2 => LeaderKeepsMajority)
  <2> SUFFICES ASSUME Inv, Cardinality(Members) # 2, failure \in Partial,
                      leader # NoHost
               PROVE  2 * Cardinality({m \in Members : Reaches(leader, m)})
                        > Cardinality(Members)
    BY DEF LeaderKeepsMajority, Partial
  <2>1. /\ leader \in Members /\ Members \subseteq Host /\ IsFiniteSet(Host)
    BY SetUp DEF Inv, TypeInv, TypeControl, TypeServers
  <2>2. PICK a \in Host, b \in Host :
          \A x, y \in Host : Drops(x, y) =>
            (x = a /\ y = b) \/ (x = b /\ y = a)
    BY DEF Inv, PairInv
  <2> DEFINE R == {m \in Members : Reaches(leader, m)}
             p == IF leader = a THEN b ELSE a
  <2>3. \A m \in Members : m # p => m \in R
    BY <2>1, <2>2 DEF Reaches
  <2>4. leader \in R /\ R \in SUBSET Members
    BY <2>1 DEF Reaches
  <2>5. IsFiniteSet(Members)
    BY <2>1, FS_Subset
  <2>6. /\ IsFiniteSet(R) /\ Cardinality(R) \in Nat
        /\ Cardinality(Members) \in Nat
    <3> HIDE DEF R
    <3> QED BY <2>4, <2>5, FS_Subset, FS_CardinalityType
  <2>7. Cardinality(R) # 0
    <3> HIDE DEF R
    <3> QED BY <2>4, <2>6, FS_EmptySet
  <2>8. Cardinality(Members) <= Cardinality(R) + 1
    <3>1. CASE p \in R
      <4>1. R = Members
        BY <2>3, <2>4, <3>1
      <4> HIDE DEF R
      <4> QED BY <2>6, <4>1
    <3>2. CASE p \notin R
      <4>1. Members \subseteq R \cup {p}
        BY <2>3
      <4> HIDE DEF R, p
      <4>2. Cardinality(R \cup {p}) = Cardinality(R) + 1 /\ IsFiniteSet(R \cup {p})
        BY <2>6, <3>2, FS_AddElement
      <4>3. Cardinality(Members) <= Cardinality(R \cup {p})
        BY <4>1, <4>2, FS_Subset
      <4> QED BY <4>2, <4>3
    <3> QED BY <3>1, <3>2
  <2> HIDE DEF R
  <2>9. 2 * Cardinality(R) > Cardinality(Members)
    BY <2>6, <2>7, <2>8
  <2> QED BY <2>9 DEF R
<1> QED BY <1>1, Invariant, PTL

\* The region of a leader is cut off as a whole, and from everyone else.
THEOREM Isolated == Spec => []RegionIsolated
<1>1. Inv => RegionIsolated
  <2> SUFFICES ASSUME Inv, failure = "k8s_leadreg_offline", next = 3, exec = "sleep"
               PROVE  \E l \in Members, w \in Workers :
                        /\ IndexIn(Members, l) = IndexIn(Workers, w)
                        /\ \A a, b \in Host :
                             Reaches(a, b) <=> (a \in {l, w} <=> b \in {l, w})
    BY DEF RegionIsolated
  <2>1. todo = <<>>
    BY DEF Inv, FlowInv
  <2>2. PICK l \in Members, w \in Workers : Region(l, w)
    BY DEF Inv, RegionInv, Region
  <2>3. \A a, b \in Host : Drops(a, b) <=> ~(a \in {l, w} <=> b \in {l, w})
    BY <2>1, <2>2 DEF Region, Among
  <2>4. \A a, b \in Host : Reaches(a, b) <=> (a \in {l, w} <=> b \in {l, w})
    BY <2>3 DEF Reaches
  <2> QED BY <2>2, <2>4 DEF Region
<1> QED BY <1>1, Invariant, PTL

\* Whoever leads by then, kill-n leaves the first n servers down, leader one
\* at most and the other types none, also when the schedule raised halfway.
THEOREM DownRight == Spec => []DownAsAsked
<1>1. Inv => DownAsAsked
  <2> SUFFICES ASSUME Inv, exec \in {"done", "raised"} PROVE DownAsAsked
    BY DEF DownAsAsked
  <2>0. DownEarly /\ DownLeader /\ DownRecovery /\ DownKillN /\ DownRaised
    BY DEF Inv, DownInv
  <2>1. exec = "done" => next > Len(Schedule) /\ next \in 1..5
    BY DEF Inv, FlowInv, TypeInv, TypeControl
  <2>h. Host \subseteq Nat
    BY SetUp DEF Host, Inv, TypeInv, TypeControl
  <2>r. CASE exec = "raised"
    <3>1. CASE failure = "kill-n"
      <4>1. \A h \in Host : h <= cluster.kills
        BY <2>0, <2>r, <2>h, <3>1 DEF DownRaised
      <4>2. Host \ up = {h \in Host : h <= cluster.kills}
        BY <2>0, <2>r, <3>1, <4>1 DEF DownRaised
      <4> QED BY <3>1, <4>2 DEF DownAsAsked
    <3>2. CASE failure # "kill-n"
      <4>1. up = Host /\ Host \ up = {}
        BY <2>0, <2>r, <3>2 DEF DownRaised
      <4>2. Cardinality(Host \ up) = 0
        BY <4>1, FS_EmptySet
      <4> QED BY <3>2, <4>1, <4>2 DEF DownAsAsked
    <3> QED BY <3>1, <3>2
  <2>2. CASE exec = "done" /\ failure = "leader"
    <3>1. next > 2
      <4>1. Len(Schedule) = 3
        BY <2>2 DEF Schedule
      <4> QED BY <2>1, <2>2, <4>1
    <3>2. PICK h \in Host : up = Host \ {h}
      BY <2>0, <2>2, <3>1 DEF DownLeader
    <3>3. Host \ up = {h}
      BY <3>2
    <3>4. Cardinality(Host \ up) <= 1
      BY <3>3, FS_Singleton
    <3> QED BY <2>2, <3>4 DEF DownAsAsked
  <2>3. CASE exec = "done" /\ failure = "kill-n"
    <3>1. next > 2
      <4>1. Len(Schedule) = 3
        BY <2>3 DEF Schedule
      <4> QED BY <2>1, <2>3, <4>1
    <3>2. up = Host \ (1..cluster.kills) /\ 1..cluster.kills \subseteq Host
      BY <2>0, <2>3, <3>1 DEF DownKillN
    <3>3. cluster.kills \in Nat /\ Host = 1..cluster.hosts
      BY SetUp DEF Host, Inv, TypeInv, TypeControl
    <3>4. Host \ up = {h \in Host : h <= cluster.kills}
      BY <3>2, <3>3
    <3> QED BY <2>3, <3>4 DEF DownAsAsked
  <2>4. CASE exec = "done" /\ failure = "leader-recovery"
    <3>1. next > 3
      <4>1. Len(Schedule) = 4
        BY <2>4 DEF Schedule
      <4> QED BY <2>1, <2>4, <4>1
    <3>2. up = Host
      BY <2>0, <2>4, <3>1 DEF DownRecovery
    <3> QED BY <2>4, <3>2 DEF DownAsAsked
  <2>5. CASE exec = "done" /\ failure \notin Killing
    BY <2>0, <2>5 DEF DownEarly, DownAsAsked, Killing
  <2> QED BY <2>r, <2>2, <2>3, <2>4, <2>5 DEF Killing
<1> QED BY <1>1, Invariant, PTL

\* get_leader never answers with a host that did not lead during the call.
THEOREM TargetLed == Spec => []TargetHasLed
<1>1. Inv => TargetHasLed
  BY DEF Inv, ClaimInv
<1> QED BY <1>1, Invariant, PTL

\* get_leader finds a leader that leads throughout the call.
THEOREM SteadyFound == Spec => []SteadyLeaderFound
<1>1. Inv => SteadyLeaderFound
  BY DEF Inv, SteadyInv
<1> QED BY <1>1, Invariant, PTL

=============================================================================
