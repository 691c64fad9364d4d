-------------------------- MODULE K8sClientProofs --------------------------
(***************************************************************************)
(* Proofs about K8sClient, for any number of processes, deployments, timed *)
(* operations and attempts: type correctness, NamespaceFirst,              *)
(* WarmMapIsSafe, ConflictMeansContention, and the whole of                *)
(* ImplementsStore, which has no fairness; then that the replicas of a     *)
(* deployment are the sum of the scalings that took effect.  The last      *)
(* section is about the operations that reach the client: it proves        *)
(* ScalingIsBalanced and OnlyReadsAfterDelete of Workload, and how long    *)
(* its tables last, for every rate and duration.                           *)
(***************************************************************************)
EXTENDS K8sClient, Workload, FiniteSetTheorems, TLAPS

-----------------------------------------------------------------------------
(* The inductive invariant.                                                *)

Kinds == {"namespace", "create", "read", "up", "down", "delete"}
Points == {"todo", "lookup", "inserting", "get", "put", "call", "answer",
           "done"}
Outcomes == {"none", "ok", "exists", "no namespace", "not found", "conflict",
             "error"}

TypeOK ==
  /\ kind \in [Op -> Kinds] /\ key \in [Op -> Key]
  /\ nclients \in Process /\ ncpr \in BOOLEAN
  /\ pc \in [Op -> Points]
  /\ got \in [Op -> [replicas : Nat, version : Nat]]
  /\ base \in [Op -> Nat] /\ tries \in [Op -> Nat]
  /\ result \in [Op -> Outcomes]
  /\ cached \subseteq Nat \X {"pod", "dep"}
  /\ dead \in [Process -> {"no", "pod", "dep"}]
  /\ ns \in BOOLEAN
  /\ replicas \in [Key -> Nat] /\ version \in [Key -> Nat]
  /\ doomed \subseteq Key /\ nstatus \in Nat

\* The prerequisites are the namespace and the deployments, and no timed
\* operation is of those kinds.
Loaded ==
  /\ kind[1] = "namespace"
  /\ \A o \in Prereq \ {1} : kind[o] = "create"
  /\ \A o \in Timed : kind[o] \in {"read", "up", "down", "delete"}

\* Only an Update gets and puts, only the others call, and the namespace is
\* created without an interface; an error is the end of an operation.
RightPoint(o) ==
  /\ \/ pc[o] \in {"get", "put"}
     \/ pc[o] = "answer" /\ result[o] = "conflict"
     => kind[o] \in {"up", "down"}
  /\ pc[o] = "call" => kind[o] \notin {"up", "down"}
  /\ pc[o] \in {"lookup", "inserting"} => kind[o] # "namespace"
  /\ result[o] = "error" => pc[o] = "done"
RightPoints == \A o \in Op : RightPoint(o)

TypeInv == TypeOK /\ Loaded /\ RightPoints

\* A copy that is to be put back is of the present version only if the
\* deployment has not been changed since, but for its removal.
CopyOf(o) ==
  pc[o] = "put" =>
    /\ got[o].replicas > 0
    /\ got[o].version <= version[key[o]]
    /\ got[o].version = version[key[o]]
         => replicas[key[o]] \in {0, got[o].replicas}

\* Each attempt that ended in a conflict is a write since the first copy.
Writes(o) ==
  /\ pc[o] \in {"todo", "lookup", "inserting"} => tries[o] = 0
  /\ pc[o] = "get" /\ tries[o] > 0 => version[key[o]] >= base[o] + tries[o]
  /\ pc[o] = "put" => got[o].version >= base[o] + tries[o]
  /\ pc[o] = "answer" /\ result[o] = "conflict"
       => version[key[o]] >= base[o] + tries[o] + 1

StoreInv ==
  /\ \A o \in Op : CopyOf(o) /\ Writes(o)
  /\ \A k \in doomed : replicas[k] > 0

\* The prerequisites of a process are performed in order, and all of them
\* before any timed operation.
Waits(o) ==
  pc[o] # "todo" =>
    \A p \in Prereq : o \in Timed \/ (p < o /\ Owner(p) = Owner(o))
                        => pc[p] = "done"
InOrder == \A o \in Op : Waits(o)

\* The namespace exists once its creation has been handled.
NamespaceMade ==
  pc[1] = "answer" \/ (pc[1] = "done" /\ result[1] # "error") => ns

\* A prerequisite past its look-up has warmed the map of its process.
Warm(o) ==
  o \in Prereq \ {1} /\ pc[o] \in {"call", "answer", "done"}
    => <<Owner(o), "dep">> \in cached

\* No timed operation of a process with a warm map is writing it.
Cold(o) ==
  o \in Timed /\ ~ncpr /\ pc[o] = "inserting" /\ kind[o] # "read"
    => \A p \in Prereq \ {1} : Owner(p) # Owner(o)
MapInv == \A o \in Op : Warm(o) /\ Cold(o)

Inv ==
  /\ TypeInv
  /\ StoreInv
  /\ InOrder
  /\ NamespaceMade
  /\ NamespaceFirst
  /\ MapInv
  /\ WarmMapIsSafe

-----------------------------------------------------------------------------
(* The constants and the operators.                                        *)

\* The counts are numbers, and there is always a prerequisite.
LEMMA Numbers ==
  /\ MaxClients \in Nat \ {0} /\ MaxKey \in Nat \ {0} /\ Steps \in Nat \ {0}
  /\ InitReplicas \in Nat \ {0}
  /\ NumTimed \in Nat /\ Up \in Nat /\ Down \in Nat
  /\ NumPrereqs \in Nat \ {0}
BY CountAssumption DEF NumPrereqs

\* Prerequisites and timed operations are told apart by their numbers.
LEMMA OpNumbers ==
  /\ Op \subseteq Nat /\ 1 \in Prereq /\ Prereq \subseteq Op
  /\ Timed \subseteq Op /\ \A o \in Op : o \in Prereq <=> o \notin Timed
BY Numbers DEF Op, Prereq, Timed

\* A remainder is less than its divisor.
LEMMA RemainderInRange ==
  ASSUME NEW a \in Nat, NEW n \in Nat \ {0}
  PROVE  a % n \in 0..(n - 1)
OBVIOUS

\* Every operation belongs to a process.
LEMMA OwnerInProcess ==
  ASSUME nclients \in Process, NEW o \in Op
  PROVE  Owner(o) \in Process
<1>1. nclients \in Nat \ {0} /\ nclients <= MaxClients
  BY Numbers DEF Process
<1>2. CASE o \in Prereq
  <2>1. o - 1 \in Nat
    BY <1>2, Numbers DEF Prereq
  <2>2. (o - 1) % nclients \in 0..(nclients - 1)
    BY <1>1, <2>1, RemainderInRange
  <2>3. QED
    BY <1>1, <1>2, <2>2, Numbers DEF Owner, Process
<1>3. CASE o \notin Prereq
  <2>1. o - NumPrereqs - 1 \in Nat
    BY <1>3, Numbers DEF Op, Prereq, Timed
  <2>2. (o - NumPrereqs - 1) % nclients \in 0..(nclients - 1)
    BY <1>1, <2>1, RemainderInRange
  <2>3. QED
    BY <1>1, <1>3, <2>2, Numbers DEF Owner, Process
<1>4. QED
  BY <1>2, <1>3

\* The maps of a client made for one request are its own.
LEMMA HolderIs ==
  ASSUME nclients \in Process, NEW o \in Op
  PROVE  /\ Holder(o) \in Nat
         /\ ncpr /\ o \in Timed => Holder(o) = MaxClients + o
         /\ ~(ncpr /\ o \in Timed) => Holder(o) = Owner(o)
         /\ Owner(o) \in 1..MaxClients
BY OwnerInProcess, OpNumbers, Numbers DEF Holder, Process

-----------------------------------------------------------------------------
(* Types.                                                                  *)

\* The first states have their types.
LEMMA InitType ==
  ASSUME Init
  PROVE  TypeInv
<1>1. PICK w \in Workloads :
        kind = [o \in Op |-> IF o \in Prereq THEN PrereqKind(o)
                             ELSE w[o - NumPrereqs]]
  BY DEF Init
<1>2. PICK rand \in [Timed -> Key] :
        key = [o \in Op |-> IF o \in Timed THEN rand[o]
                            ELSE IF o = 1 THEN 1 ELSE o - 1]
  BY DEF Init
<1>3. \A o \in Timed : /\ o - NumPrereqs \in 1..NumTimed
                       /\ w[o - NumPrereqs]
                            \in {"read", "up", "down", "delete"}
  <2>1. w \in [1..NumTimed -> {"read", "up", "down", "delete"}]
    BY WorkloadAssumption
  <2>2. \A o \in Timed : o - NumPrereqs \in 1..NumTimed
    BY Numbers DEF Timed
  <2>3. QED
    BY <2>1, <2>2
<1>4. /\ kind[1] = "namespace"
      /\ \A o \in Prereq \ {1} : kind[o] = "create"
      /\ \A o \in Timed : kind[o] \in {"read", "up", "down", "delete"}
  BY <1>1, <1>3, OpNumbers DEF PrereqKind
<1>5. kind \in [Op -> Kinds]
  <2>1. \A o \in Op : kind[o] \in Kinds
    BY <1>4, OpNumbers DEF Kinds
  <2>2. QED
    BY <1>1, <2>1
<1>6. key \in [Op -> Key]
  <2>1. \A o \in Prereq \ {1} : o - 1 \in Key
    BY Numbers DEF Prereq, NumPrereqs, Key
  <2>2. 1 \in Key
    BY Numbers DEF Key
  <2>3. \A o \in Op : key[o] \in Key
    BY <1>2, <2>1, <2>2, OpNumbers
  <2>4. QED
    BY <1>2, <2>3
<1>7. TypeOK
  BY <1>5, <1>6 DEF Init, TypeOK, Points, Outcomes, NoCopy
<1>8. RightPoints
  BY DEF Init, RightPoints, RightPoint
<1>9. QED
  BY <1>4, <1>7, <1>8 DEF TypeInv, Loaded

\* Where one operation stands: only its own step changes that.
Others(c) ==
  /\ UNCHANGED fixed
  /\ \A o \in Op \ {c} :
       /\ pc'[o] = pc[o] /\ got'[o] = got[o] /\ base'[o] = base[o]
       /\ tries'[o] = tries[o] /\ result'[o] = result[o]

\* A step of operation c leaves the others where they are, and takes c to a
\* point that is right for it.
LEMMA OwnStep ==
  ASSUME TypeInv, NEW c \in Op, ClientStep(c) \/ Call(c)
  PROVE  Others(c) /\ RightPoint(c)'
<1> USE DEF TypeInv, TypeOK, Others, fixed, opVars, mapVars, serverVars, GoTo,
            Finish, Answer, RightPoint
<1>0. RightPoint(c)
  BY DEF RightPoints
<1>1. CASE Begin(c)
  BY <1>0, <1>1 DEF Begin
<1>2. CASE Lookup(c)
  BY <1>0, <1>2 DEF Lookup, FirstCall
<1>3. CASE InsertEnd(c)
  BY <1>0, <1>3 DEF InsertEnd, FirstCall
<1>4. CASE MapRace(c)
  BY <1>0, <1>4 DEF MapRace
<1>5. CASE RetryOnConflict(c) \/ Return(c) \/ CallFails(c)
  BY <1>0, <1>5 DEF RetryOnConflict, Retries, Return, CallFails
<1>6. CASE CreateNamespace(c) \/ Create(c) \/ List(c) \/ Delete(c)
  BY <1>0, <1>6 DEF CreateNamespace, Create, List, Delete
<1>7. CASE Get(c) \/ Put(c)
  BY <1>0, <1>7 DEF Get, Put
<1>8. QED
  BY <1>1, <1>2, <1>3, <1>4, <1>5, <1>6, <1>7 DEF ClientStep, Call


\* Every step keeps the types.
LEMMA TypeStep ==
  ASSUME TypeInv, [Next]_vars
  PROVE  TypeInv'
<1> USE DEF TypeInv, TypeOK, fixed, opVars, mapVars, serverVars, GoTo, Finish,
            Answer, Touch
<1>1. ASSUME NEW c \in Op, ClientStep(c) \/ Call(c)
      PROVE  TypeInv'
  <2>1. RightPoints'
    BY <1>1, OwnStep DEF RightPoints, RightPoint, Others
  <2>2. Loaded'
    BY <1>1, OwnStep DEF Loaded, Others
  <2>3. key[c] \in Key /\ version[key[c]] + 1 \in Nat
    OBVIOUS
  <2>a. CASE Begin(c)
    BY <2>1, <2>2, <2>a DEF Begin, Points
  <2>b. CASE Lookup(c)
    BY <2>1, <2>2, <2>b DEF Lookup, FirstCall, Points
  <2>c. CASE InsertEnd(c)
    <3>1. <<Holder(c), IntfMap(c)>> \in Nat \X {"pod", "dep"}
      BY HolderIs DEF IntfMap
    <3>2. QED
      BY <2>1, <2>2, <2>c, <3>1 DEF InsertEnd, FirstCall, Points
  <2>d. CASE MapRace(c)
    BY <2>1, <2>2, <2>d, OwnerInProcess DEF MapRace, IntfMap
  <2>e. CASE RetryOnConflict(c)
    BY <2>1, <2>2, <2>e DEF RetryOnConflict, Points
  <2>f. CASE Return(c) \/ CallFails(c)
    <3>1. PICK r \in Outcomes :
            Finish(c, r) /\ UNCHANGED <<fixed, mapVars, serverVars>>
      BY <2>f DEF Return, CallFails, Outcomes
    <3>2. got' \in [Op -> [replicas : Nat, version : Nat]]
      BY <3>1 DEF NoCopy
    <3>3. QED
      BY <2>1, <2>2, <3>1, <3>2 DEF Points
  <2>g. CASE CreateNamespace(c)
    BY <2>1, <2>2, <2>g DEF CreateNamespace, Points, Outcomes
  <2>h. CASE Create(c)
    <3>1. /\ replicas' \in [Key -> Nat] /\ version' \in [Key -> Nat]
          /\ pc' \in [Op -> Points] /\ result' \in [Op -> Outcomes]
      <4>1. CASE UNCHANGED <<replicas, version>>
        BY <2>h, <4>1 DEF Create, Points, Outcomes
      <4>2. CASE /\ replicas' = [replicas EXCEPT ![key[c]] = InitReplicas]
                 /\ Touch(key[c]) /\ Answer(c, "ok")
        BY <2>3, <4>2, Numbers DEF Points, Outcomes
      <4>3. QED
        BY <2>h, <4>1, <4>2 DEF Create
    <3>2. QED
      BY <2>1, <2>2, <2>h, <3>1 DEF Create
  <2>i. CASE List(c)
    BY <2>1, <2>2, <2>i DEF List, Points, Outcomes
  <2>j. CASE Delete(c)
    BY <2>1, <2>2, <2>3, <2>j, ZenonT(40) DEF Delete, Points, Outcomes
  <2>k. CASE Get(c)
    <3>1. /\ got' \in [Op -> [replicas : Nat, version : Nat]]
          /\ base' \in [Op -> Nat]
          /\ pc' \in [Op -> Points] /\ result' \in [Op -> Outcomes]
      <4>1. CASE Answer(c, "not found") /\ UNCHANGED <<got, base>>
        BY <4>1 DEF Points, Outcomes
      <4>2. CASE UNCHANGED result /\ GoTo(c, "put")
        <5>1. [replicas |-> replicas[key[c]], version |-> version[key[c]]]
                \in [replicas : Nat, version : Nat]
          BY <2>3
        <5>2. QED
          BY <2>3, <2>k, <4>2, <5>1, ZenonT(40) DEF Get, Points
      <4>3. QED
        BY <2>k, <4>1, <4>2 DEF Get
    <3>2. QED
      BY <2>1, <2>2, <2>k, <3>1 DEF Get
  <2>l. CASE Put(c)
    <3>1. kind[c] \in {"up", "down"}
      BY <2>l DEF Put, RightPoints, RightPoint
    <3>2. got[c].replicas \in Nat /\ Delta[kind[c]] \in Int
      BY <3>1, Numbers DEF Delta
    <3>3. NewReplicas(c) \in Nat
      BY <3>2 DEF NewReplicas
    <3>4. QED
      <4>1. /\ replicas' \in [Key -> Nat] /\ version' \in [Key -> Nat]
            /\ pc' \in [Op -> Points] /\ result' \in [Op -> Outcomes]
        <5>1. CASE UNCHANGED <<replicas, version>>
          BY <2>l, <5>1 DEF Put, Points, Outcomes
        <5>2. CASE /\ replicas' = [replicas EXCEPT ![key[c]] = NewReplicas(c)]
                   /\ Touch(key[c]) /\ Answer(c, "ok")
          BY <2>3, <3>3, <5>2 DEF Points, Outcomes
        <5>3. QED
          BY <2>l, <5>1, <5>2 DEF Put
      <4>2. QED
        BY <2>1, <2>2, <2>l, <4>1 DEF Put
  <2>m. QED
    BY <1>1, <2>a, <2>b, <2>c, <2>d, <2>e, <2>f, <2>g, <2>h, <2>i, <2>j,
       <2>k, <2>l DEF ClientStep, Call
<1>2. ASSUME NEW k \in Key, StatusUpdate(k) \/ Collect(k)
      PROVE  TypeInv'
  <2>1. UNCHANGED <<fixed, opVars>>
    BY <1>2 DEF StatusUpdate, Collect
  <2>2. Loaded' /\ RightPoints'
    BY <2>1 DEF Loaded, RightPoints, RightPoint
  <2>3. QED
    BY <1>2, <2>1, <2>2 DEF StatusUpdate, Collect
<1>3. CASE UNCHANGED vars
  BY <1>3 DEF vars, Loaded, RightPoints, RightPoint
<1>4. QED
  BY <1>1, <1>2, <1>3 DEF Next

-----------------------------------------------------------------------------
(* Copies and versions.                                                    *)

\* Versions only grow, and replicas change with a new version or by a
\* removal.
Versions ==
  \A k \in Key :
    /\ version'[k] >= version[k]
    /\ version'[k] = version[k] => replicas'[k] \in {0, replicas[k]}

\* Every step of a call only adds versions.
LEMMA VersionsGrow ==
  ASSUME TypeInv, Next
  PROVE  Versions
<1> USE DEF TypeInv, TypeOK, fixed, opVars, mapVars, serverVars, Touch,
            Versions
<1>1. ASSUME NEW c \in Op, ClientStep(c)
      PROVE  Versions
  BY <1>1 DEF ClientStep, Begin, Lookup, InsertEnd, MapRace, RetryOnConflict,
     Return, CallFails
<1>2. ASSUME NEW c \in Op, Call(c)
      PROVE  Versions
  <2>1. key[c] \in Key /\ \A k \in Key : version[k] \in Nat
    BY <1>2
  <2>2. CASE UNCHANGED <<version, replicas>>
    BY <2>1, <2>2
  <2>3. CASE Touch(key[c])
                /\ (UNCHANGED replicas
                      \/ \E n : replicas' = [replicas EXCEPT ![key[c]] = n])
    <3>1. version'[key[c]] = version[key[c]] + 1
      BY <2>1, <2>3
    <3>2. \A k \in Key \ {key[c]} : /\ version'[k] = version[k]
                                    /\ replicas'[k] = replicas[k]
      BY <2>3
    <3>3. QED
      BY <2>1, <3>1, <3>2
  <2>4. CASE CreateNamespace(c) \/ List(c) \/ Get(c)
    BY <2>2, <2>4 DEF CreateNamespace, List, Get
  <2>5. CASE Create(c)
    BY <2>2, <2>3, <2>5 DEF Create
  <2>6. CASE Delete(c)
    BY <2>2, <2>3, <2>6 DEF Delete
  <2>7. CASE Put(c)
    BY <2>2, <2>3, <2>7 DEF Put
  <2>8. QED
    BY <1>2, <2>4, <2>5, <2>6, <2>7 DEF Call
<1>3. ASSUME NEW k \in Key, StatusUpdate(k) \/ Collect(k)
      PROVE  Versions
  BY <1>3 DEF StatusUpdate, Collect
<1>4. QED
  BY <1>1, <1>2, <1>3 DEF Next

\* Deployments that are being deleted exist.
LEMMA DoomedStep ==
  ASSUME TypeInv, StoreInv, [Next]_vars
  PROVE  \A k \in doomed' : replicas'[k] > 0
<1> USE DEF TypeInv, TypeOK, StoreInv, fixed, opVars, mapVars, serverVars
<1>1. ASSUME NEW c \in Op, ClientStep(c)
      PROVE  UNCHANGED <<doomed, replicas>>
  BY <1>1 DEF ClientStep, Begin, Lookup, InsertEnd, MapRace, RetryOnConflict,
     Return, CallFails
<1>2. ASSUME NEW c \in Op, Call(c)
      PROVE  \A k \in doomed' : replicas'[k] > 0
  <2>1. CASE CreateNamespace(c) \/ List(c) \/ Delete(c) \/ Get(c)
    BY <1>2, <2>1 DEF CreateNamespace, List, Delete, Get, Exists
  <2>2. CASE Create(c)
    <3>1. CASE UNCHANGED <<replicas, doomed>>
      BY <3>1
    <3>2. CASE /\ replicas' = [replicas EXCEPT ![key[c]] = InitReplicas]
               /\ UNCHANGED doomed
      BY <3>2, Numbers
    <3>3. QED
      BY <2>2, <3>1, <3>2 DEF Create
  <2>3. CASE Put(c)
    <3>1. kind[c] \in {"up", "down"}
      BY <2>3 DEF Put, RightPoints, RightPoint
    <3>2. got[c].replicas \in Nat /\ Delta[kind[c]] \in Int
      BY <3>1, Numbers DEF Delta
    <3>3. NewReplicas(c) \in Nat /\ NewReplicas(c) > 0
      BY <3>2 DEF NewReplicas
    <3>4. QED
      BY <1>2, <2>3, <3>3 DEF Put
  <2>4. QED
    BY <1>2, <2>1, <2>2, <2>3 DEF Call
<1>3. ASSUME NEW k \in Key, StatusUpdate(k) \/ Collect(k)
      PROVE  \A j \in doomed' : replicas'[j] > 0
  BY <1>3 DEF StatusUpdate, Collect
<1>4. QED
  BY <1>1, <1>2, <1>3 DEF Next, vars

\* What is known of an operation that does not move stays true.
LEMMA StandsStill ==
  ASSUME TypeInv, TypeInv', Versions, NEW o \in Op, UNCHANGED key,
         UNCHANGED <<pc[o], got[o], base[o], tries[o], result[o]>>,
         CopyOf(o), Writes(o)
  PROVE  CopyOf(o)' /\ Writes(o)'
<1>1. /\ key[o] \in Key /\ key'[o] = key[o]
      /\ version[key[o]] \in Nat /\ version'[key[o]] \in Nat
      /\ version'[key[o]] >= version[key[o]]
      /\ base[o] \in Nat /\ tries[o] \in Nat
      /\ got[o].version \in Nat /\ got[o].replicas \in Nat
  BY DEF TypeInv, TypeOK, Versions
<1>2. CopyOf(o)'
  BY <1>1 DEF CopyOf, Versions
<1>3. Writes(o)'
  BY <1>1 DEF Writes
<1>4. QED
  BY <1>2, <1>3

\* A version that is not the one read is a newer one.
LEMMA OneMore ==
  ASSUME NEW v \in Nat, NEW g \in Nat, NEW b \in Nat, NEW t \in Nat,
         g <= v, g >= b + t, v # g
  PROVE  v >= b + t + 1
OBVIOUS

\* Every step keeps the copies within the history of the store.
LEMMA StoreStep ==
  ASSUME TypeInv, TypeInv', StoreInv, [Next]_vars
  PROVE  StoreInv'
<1>1. ASSUME NEW c \in Op, ClientStep(c) \/ Call(c)
      PROVE  CopyOf(c)' /\ Writes(c)'
  <2>1. /\ key[c] \in Key /\ UNCHANGED key /\ CopyOf(c) /\ Writes(c)
        /\ version[key[c]] \in Nat /\ base[c] \in Nat /\ tries[c] \in Nat
        /\ replicas[key[c]] \in Nat
        /\ got[c].version \in Nat /\ got[c].replicas \in Nat
    BY <1>1, OwnStep DEF TypeInv, TypeOK, StoreInv, Others, fixed
  <2> USE DEF TypeInv, TypeOK, fixed, opVars, mapVars, serverVars, GoTo,
              Finish, Answer, CopyOf, Writes
  <2>2. CASE Begin(c) \/ Lookup(c) \/ InsertEnd(c)
    <3>1. /\ pc[c] \in {"todo", "lookup", "inserting"}
          /\ pc'[c] \in {"call", "lookup", "inserting", "get"}
          /\ UNCHANGED <<got, base, tries, version, replicas>>
      BY <2>2 DEF Begin, Lookup, InsertEnd, FirstCall
    <3>2. QED
      BY <2>1, <3>1
  <2>3. CASE MapRace(c)
    BY <2>1, <2>3 DEF MapRace
  <2>4. CASE RetryOnConflict(c)
    BY <2>1, <2>4 DEF RetryOnConflict, Retries
  <2>5. CASE Return(c) \/ CallFails(c)
    BY <2>1, <2>5 DEF Return, CallFails
  <2>6. CASE CreateNamespace(c) \/ Create(c) \/ List(c) \/ Delete(c)
    BY <2>1, <2>6 DEF CreateNamespace, Create, List, Delete
  <2>7. CASE Get(c)
    <3>1. CASE ~Exists(key[c])
      <4>1. pc'[c] = "answer" /\ result'[c] = "not found"
        BY <2>7, <3>1 DEF Get
      <4>2. QED
        BY <4>1
    <3>2. CASE Exists(key[c])
      <4>1. /\ pc'[c] = "put" /\ UNCHANGED <<tries, version, replicas>>
            /\ replicas[key[c]] > 0 /\ pc[c] = "get"
        BY <2>7, <3>2 DEF Get, Exists
      <4>2. /\ got'[c].replicas = replicas[key[c]]
            /\ got'[c].version = version[key[c]]
        BY <2>7, <3>2 DEF Get
      <4>3. base'[c] = IF tries[c] = 0 THEN version[key[c]] ELSE base[c]
        BY <2>7, <3>2 DEF Get
      <4>4. CopyOf(c)'
        BY <2>1, <4>1, <4>2
      <4>5. got'[c].version >= base'[c] + tries'[c]
        BY <2>1, <4>1, <4>2, <4>3
      <4>6. QED
        BY <4>1, <4>4, <4>5
    <3>3. QED
      BY <3>1, <3>2
  <2>8. CASE Put(c)
    <3>1. /\ pc[c] = "put" /\ pc'[c] = "answer"
          /\ UNCHANGED <<got, base, tries>>
      BY <2>8 DEF Put
    <3>2. result'[c] = "conflict" => /\ version[key[c]] # got[c].version
                                     /\ UNCHANGED version
      BY <2>8 DEF Put
    <3>3. result'[c] = "conflict"
            => version'[key'[c]] >= base'[c] + tries'[c] + 1
      <4>1. /\ got[c].version <= version[key[c]]
            /\ got[c].version >= base[c] + tries[c]
        BY <2>1, <3>1
      <4>2. ASSUME result'[c] = "conflict"
            PROVE  /\ version'[key'[c]] = version[key[c]]
                   /\ version[key[c]] # got[c].version
                   /\ base'[c] = base[c] /\ tries'[c] = tries[c]
        BY <2>1, <3>1, <3>2, <4>2
      <4>3. version[key[c]] # got[c].version
              => version[key[c]] >= base[c] + tries[c] + 1
        BY <2>1, <4>1, OneMore
      <4>4. QED
        BY <4>2, <4>3
    <3>4. QED
      BY <3>1, <3>3
  <2>9. QED
    BY <1>1, <2>2, <2>3, <2>4, <2>5, <2>6, <2>7, <2>8 DEF ClientStep, Call
<1>2. ASSUME NEW c \in Op, ClientStep(c) \/ Call(c)
      PROVE  StoreInv'
  <2>1. ASSUME NEW o \in Op \ {c}
        PROVE  CopyOf(o)' /\ Writes(o)'
    <3>1. Versions
      BY <1>2, VersionsGrow DEF Next
    <3>2. /\ UNCHANGED key
          /\ UNCHANGED <<pc[o], got[o], base[o], tries[o], result[o]>>
      BY <1>2, <2>1, OwnStep DEF Others, fixed
    <3>3. QED
      BY <2>1, <3>1, <3>2, StandsStill DEF StoreInv
  <2>2. QED
    BY <1>1, <1>2, <2>1, DoomedStep DEF StoreInv
<1>3. ASSUME NEW k \in Key, StatusUpdate(k) \/ Collect(k)
      PROVE  StoreInv'
  <2>1. Versions
    BY <1>3, VersionsGrow DEF Next
  <2>2. UNCHANGED <<key, pc, got, base, tries, result>>
    BY <1>3 DEF StatusUpdate, Collect, fixed, opVars
  <2>3. \A o \in Op : CopyOf(o)' /\ Writes(o)'
    BY <2>1, <2>2, StandsStill DEF StoreInv
  <2>4. QED
    BY <2>3, DoomedStep DEF StoreInv
<1>4. CASE UNCHANGED vars
  BY <1>4 DEF vars, fixed, opVars, mapVars, serverVars, StoreInv, CopyOf,
     Writes
<1>5. QED
  BY <1>2, <1>3, <1>4 DEF Next


-----------------------------------------------------------------------------
(* The order of the prerequisites.                                         *)

\* What the step of one operation means for the order.
LEMMA OrderStep ==
  ASSUME TypeInv, InOrder, [Next]_vars
  PROVE  InOrder'
<1> USE OpNumbers
<1>1. ASSUME NEW c \in Op, ClientStep(c) \/ Call(c)
      PROVE  InOrder'
  <2>1. /\ Others(c) /\ UNCHANGED nclients
        /\ pc[c] # "todo" => pc'[c] # "todo"
        /\ pc[c] = "done" => pc'[c] = "done"
        /\ pc[c] = "todo" => Begin(c)
    <3> USE DEF TypeInv, TypeOK, GoTo, Finish, Answer
    <3>0. Others(c)
      BY <1>1, OwnStep
    <3>1. CASE ClientStep(c)
      BY <3>0, <3>1 DEF Others, fixed, opVars, ClientStep, Begin, Lookup,
         FirstCall, InsertEnd, MapRace, RetryOnConflict, Return, CallFails
    <3>2. CASE Call(c)
      BY <3>0, <3>2 DEF Others, fixed, opVars, Call, CreateNamespace, Create,
         List, Delete, Get, Put
    <3>3. QED
      BY <1>1, <3>1, <3>2
  <2>2. \A p \in Op : pc[p] = "done" => pc'[p] = "done"
    BY <2>1 DEF Others
  <2>3. \A p \in Op : Owner(p)' = Owner(p)
    BY <2>1 DEF Owner
  <2>4. ASSUME NEW o \in Op, pc'[o] # "todo", NEW p \in Prereq,
               o \in Timed \/ (p < o /\ Owner(p) = Owner(o))
        PROVE  pc'[p] = "done"
    <3>1. CASE pc[o] # "todo"
      BY <2>2, <2>4, <3>1 DEF InOrder, Waits
    <3>2. CASE pc[o] = "todo"
      <4>1. o = c /\ Begin(c)
        BY <2>1, <2>4, <3>2 DEF Others
      <4>2. QED
        BY <2>2, <2>4, <4>1 DEF Begin
    <3>3. QED
      BY <3>1, <3>2
  <2>5. QED
    BY <2>3, <2>4 DEF InOrder, Waits
<1>2. ASSUME NEW k \in Key, StatusUpdate(k) \/ Collect(k)
      PROVE  InOrder'
  BY <1>2 DEF StatusUpdate, Collect, fixed, opVars, InOrder, Waits, Owner
<1>3. CASE UNCHANGED vars
  BY <1>3 DEF vars, fixed, opVars, InOrder, Waits, Owner
<1>4. QED
  BY <1>1, <1>2, <1>3 DEF Next

\* The namespace stays once it exists, and a prerequisite finds it missing
\* only where NamespaceFirst says so.
LEMMA NamespaceStep ==
  ASSUME TypeInv, InOrder, NamespaceMade, NamespaceFirst, [Next]_vars
  PROVE  NamespaceMade' /\ NamespaceFirst'
<1> USE OpNumbers
<1>1. ASSUME NEW c \in Op, ClientStep(c) \/ Call(c)
      PROVE  NamespaceMade' /\ NamespaceFirst'
  <2> USE DEF TypeInv, TypeOK, Loaded, RightPoints, RightPoint, GoTo, Finish,
              Answer, fixed, opVars, mapVars, serverVars
  <2>0. Others(c) /\ UNCHANGED nclients
    BY <1>1, OwnStep DEF Others
  <2>1. ns => ns'
    BY <1>1 DEF ClientStep, Begin, Lookup, InsertEnd, MapRace,
       RetryOnConflict, Return, CallFails, Call, CreateNamespace, Create,
       List, Delete, Get, Put
  <2>2. /\ pc'[c] = "answer" => \/ pc[c] = "answer" /\ result'[c] = result[c]
                                \/ kind[c] = "namespace" /\ ns'
                                \/ kind[c] # "namespace"
        /\ pc'[c] = "done" => \/ pc[c] = "done" /\ result'[c] = result[c]
                              \/ pc[c] = "answer"
                              \/ result'[c] = "error"
        /\ result'[c] = "no namespace" =>
             \/ result[c] = "no namespace"
             \/ kind[c] = "create" /\ pc[c] = "call" /\ ~ns
        /\ result[c] = "error" => result'[c] = "error"
    <3>0. RightPoint(c)
      OBVIOUS
    <3>1. CASE Begin(c) \/ Lookup(c) \/ InsertEnd(c) \/ MapRace(c)
      BY <3>0, <3>1 DEF Begin, Lookup, InsertEnd, MapRace, FirstCall
    <3>2. CASE RetryOnConflict(c) \/ Return(c) \/ CallFails(c)
      BY <3>0, <3>2 DEF RetryOnConflict, Return, CallFails
    <3>3. CASE CreateNamespace(c)
      BY <3>0, <3>3 DEF CreateNamespace
    <3>4. CASE Create(c)
      BY <3>0, <3>4 DEF Create
    <3>5. CASE List(c) \/ Delete(c) \/ Get(c) \/ Put(c)
      BY <3>0, <3>5, ZenonT(40) DEF List, Delete, Get, Put
    <3>6. QED
      BY <1>1, <3>1, <3>2, <3>3, <3>4, <3>5 DEF ClientStep, Call
  <2>3. NamespaceMade'
    <3>1. CASE c = 1
      BY <2>1, <2>2, <3>1 DEF NamespaceMade
    <3>2. CASE c # 1
      BY <2>0, <2>1, <3>2 DEF NamespaceMade, Others
    <3>3. QED
      BY <3>1, <3>2
  <2>4. result[1] = "error" => result'[1] = "error"
    BY <2>0, <2>2 DEF Others
  <2>5. ASSUME NEW o \in Prereq, result'[o] = "no namespace"
        PROVE  Owner(o) # Owner(1) \/ result'[1] = "error"
    <3>1. CASE result[o] = "no namespace"
      BY <2>4, <2>5, <3>1 DEF NamespaceFirst
    <3>2. CASE result[o] # "no namespace"
      <4>1. o = c /\ kind[c] = "create" /\ pc[c] = "call" /\ ~ns
        BY <2>0, <2>2, <2>5, <3>2 DEF Others
      <4>2. 1 < c
        <5>1. c # 1
          BY <4>1
        <5>2. c \in 1..NumPrereqs
          BY <2>5, <4>1 DEF Prereq
        <5>3. QED
          BY <5>1, <5>2, Numbers
      <4>3. CASE Owner(o) = Owner(1)
        <5>1. pc[1] = "done"
          BY <4>1, <4>2, <4>3 DEF InOrder, Waits
        <5>2. result[1] = "error"
          BY <4>1, <5>1 DEF NamespaceMade
        <5>3. QED
          BY <2>4, <5>2
      <4>4. QED
        BY <4>3
    <3>3. QED
      BY <3>1, <3>2
  <2>7. NamespaceFirst'
    <3>2. SUFFICES ASSUME NEW o \in Prereq, result'[o] = "no namespace"
                   PROVE  Owner(o)' # Owner(1)' \/ result'[1] = "error"
      BY DEF NamespaceFirst
    <3>3. Owner(o) # Owner(1) \/ result'[1] = "error"
      BY <2>5, <3>2
    <3>4. QED
      BY <2>0, <3>3 DEF Owner
  <2>8. QED
    BY <2>3, <2>7
<1>2. ASSUME NEW k \in Key, StatusUpdate(k) \/ Collect(k)
      PROVE  NamespaceMade' /\ NamespaceFirst'
  BY <1>2 DEF StatusUpdate, Collect, fixed, opVars, NamespaceMade,
     NamespaceFirst, Owner
<1>3. CASE UNCHANGED vars
  BY <1>3 DEF vars, fixed, opVars, serverVars, NamespaceMade, NamespaceFirst,
     Owner
<1>4. QED
  BY <1>1, <1>2, <1>3 DEF Next


-----------------------------------------------------------------------------
(* The maps.                                                               *)

\* Only timed operations of one process can race for a map, and only when
\* they share its maps.
LEMMA RaceIs ==
  ASSUME TypeInv, InOrder, NEW c \in Op, pc[c] \in {"lookup", "inserting"},
         Racing(c)
  PROVE  /\ c \in Timed /\ ~ncpr
         /\ \E p \in Timed : /\ pc[p] = "inserting" /\ IntfMap(p) = IntfMap(c)
                             /\ Owner(p) = Owner(c)
<1>1. PICK p \in Op \ {c} : /\ pc[p] = "inserting" /\ IntfMap(p) = IntfMap(c)
                            /\ Holder(p) = Holder(c)
  BY DEF Racing
<1>2. nclients \in Process /\ ncpr \in BOOLEAN
  BY DEF TypeInv, TypeOK
<1>3. CASE c \in Prereq
  <2>1. p \in Prereq
    BY <1>1, <1>3, OpNumbers DEF InOrder, Waits
  <2>2. Owner(p) = Owner(c)
    BY <1>1, <1>2, <1>3, <2>1, HolderIs, OpNumbers
  <2>3. p < c \/ c < p
    BY <1>1, OpNumbers
  <2>4. QED
    BY <1>1, <1>3, <2>1, <2>2, <2>3, OpNumbers DEF InOrder, Waits
<1>4. CASE c \in Timed
  <2>1. p \in Timed
    BY <1>1, <1>4, OpNumbers DEF InOrder, Waits
  <2>2. ~ncpr
    <3>1. ncpr => MaxClients + p = MaxClients + c
      BY <1>1, <1>2, <1>4, <2>1, HolderIs
    <3>2. QED
      BY <1>1, <3>1, OpNumbers, Numbers
  <2>3. Owner(p) = Owner(c)
    BY <1>1, <1>2, <2>2, HolderIs
  <2>4. QED
    BY <1>1, <1>4, <2>1, <2>2, <2>3
<1>5. QED
  BY <1>3, <1>4, OpNumbers

\* Every step keeps the maps of clients as their readers expect them.
LEMMA MapStep ==
  ASSUME TypeInv, InOrder, MapInv, [Next]_vars
  PROVE  MapInv'
<1> USE OpNumbers
<1>1. ASSUME NEW c \in Op, ClientStep(c) \/ Call(c)
      PROVE  MapInv'
  <2>0. /\ Others(c) /\ UNCHANGED <<nclients, ncpr, kind>>
    BY <1>1, OwnStep DEF Others, fixed
  <2>1. cached \subseteq cached'
    BY <1>1 DEF ClientStep, Begin, Lookup, InsertEnd, MapRace,
       RetryOnConflict, Return, CallFails, Call, CreateNamespace, Create,
       List, Delete, Get, Put, mapVars
  <2>2. /\ nclients \in Process /\ pc[c] \in Points /\ RightPoint(c)
        /\ c \in Prereq \ {1} => kind[c] = "create"
        /\ c \in DOMAIN pc
    BY DEF TypeInv, TypeOK, RightPoints, Loaded
  <2>3. ASSUME c \in Prereq \ {1}, pc'[c] \in {"call", "answer", "done"}
        PROVE  <<Owner(c), "dep">> \in cached'
    <3>1. CASE pc[c] \in {"call", "answer", "done"}
      BY <2>1, <2>3, <3>1 DEF MapInv, Warm
    <3>2. CASE pc[c] = "todo"
      <4>1. Begin(c)
        BY <1>1, <3>2 DEF ClientStep, Begin, Lookup, InsertEnd, MapRace,
           RetryOnConflict, Return, CallFails, Call, CreateNamespace, Create,
           List, Delete, Get, Put
      <4>2. QED
        BY <2>2, <2>3, <4>1 DEF Begin, GoTo
    <3>3. CASE pc[c] = "lookup"
      <4>1. Lookup(c) \/ MapRace(c)
        BY <1>1, <3>3 DEF ClientStep, Begin, Lookup, InsertEnd, MapRace,
           RetryOnConflict, Return, CallFails, Call, CreateNamespace, Create,
           List, Delete, Get, Put
      <4>2. Lookup(c)
        BY <2>3, <3>3, <4>1 DEF MapRace, opVars
      <4>3. <<Holder(c), IntfMap(c)>> \in cached
        BY <2>2, <2>3, <4>2 DEF Lookup, GoTo, Found
      <4>4. Holder(c) = Owner(c) /\ IntfMap(c) = "dep"
        BY <2>2, <2>3, HolderIs DEF IntfMap
      <4>5. QED
        BY <2>1, <4>3, <4>4
    <3>4. CASE pc[c] = "inserting"
      <4>1. InsertEnd(c) \/ MapRace(c)
        BY <1>1, <3>4 DEF ClientStep, Begin, Lookup, InsertEnd, MapRace,
           RetryOnConflict, Return, CallFails, Call, CreateNamespace, Create,
           List, Delete, Get, Put
      <4>2. ~Racing(c)
        BY <2>3, <3>4, RaceIs
      <4>3. cached' = cached \union {<<Holder(c), IntfMap(c)>>}
        BY <4>1, <4>2 DEF InsertEnd, MapRace
      <4>4. Holder(c) = Owner(c) /\ IntfMap(c) = "dep"
        BY <2>2, <2>3, HolderIs DEF IntfMap
      <4>5. QED
        BY <4>3, <4>4
    <3>5. QED
      BY <2>2, <2>3, <3>1, <3>2, <3>3, <3>4 DEF Points, RightPoint
  <2>4. ASSUME c \in Timed, ~ncpr, pc'[c] = "inserting", kind[c] # "read",
               NEW p \in Prereq \ {1}
        PROVE  Owner(p) # Owner(c)
    <3>1. CASE pc[c] = "inserting"
      BY <2>4, <3>1 DEF MapInv, Cold
    <3>2. CASE pc[c] # "inserting"
      <4>1. Lookup(c)
        BY <1>1, <2>2, <2>4, <3>2 DEF ClientStep, Begin, Lookup, InsertEnd,
           MapRace, RetryOnConflict, Return, CallFails, Call, CreateNamespace,
           Create, List, Delete, Get, Put, GoTo, Finish, Answer, FirstCall,
           opVars
      <4>2. <<Holder(c), IntfMap(c)>> \notin cached
        BY <2>2, <2>4, <4>1 DEF Lookup, GoTo, Found, FirstCall
      <4>3. Holder(c) = Owner(c) /\ IntfMap(c) = "dep"
        BY <2>2, <2>4, HolderIs DEF IntfMap
      <4>4. pc[p] = "done"
        BY <2>4, <4>1 DEF InOrder, Waits, Lookup
      <4>5. <<Owner(p), "dep">> \in cached
        BY <2>4, <4>4 DEF MapInv, Warm
      <4>6. QED
        BY <4>2, <4>3, <4>5
    <3>3. QED
      BY <3>1, <3>2
  <2>5. ASSUME NEW o \in Op
        PROVE  /\ o \in Prereq \ {1} /\ pc'[o] \in {"call", "answer", "done"}
                    => <<Owner(o), "dep">> \in cached'
               /\ o \in Timed /\ ~ncpr /\ pc'[o] = "inserting"
                    /\ kind[o] # "read"
                    => \A p \in Prereq \ {1} : Owner(p) # Owner(o)
    <3>1. CASE o = c
      BY <2>3, <2>4, <3>1
    <3>2. CASE o # c
      <4>1. pc'[o] = pc[o]
        BY <2>0, <3>2 DEF Others
      <4>2. QED
        BY <2>1, <4>1 DEF MapInv, Warm, Cold
    <3>3. QED
      BY <3>1, <3>2
  <2>6. \A o : Owner(o)' = Owner(o)
    BY <2>0 DEF Owner
  <2>7. QED
    BY <2>0, <2>5, <2>6 DEF MapInv, Warm, Cold
<1>2. ASSUME NEW k \in Key, StatusUpdate(k) \/ Collect(k)
      PROVE  MapInv'
  BY <1>2 DEF StatusUpdate, Collect, fixed, opVars, mapVars, MapInv, Warm,
     Cold, Owner
<1>3. CASE UNCHANGED vars
  BY <1>3 DEF vars, fixed, opVars, mapVars, MapInv, Warm, Cold, Owner
<1>4. QED
  BY <1>1, <1>2, <1>3 DEF Next

\* A process ends in a race for a map only where WarmMapIsSafe says so.
LEMMA DeathStep ==
  ASSUME TypeInv, InOrder, MapInv, WarmMapIsSafe, [Next]_vars
  PROVE  WarmMapIsSafe'
<1> USE OpNumbers
<1>1. ASSUME UNCHANGED <<dead, fixed>>
      PROVE  WarmMapIsSafe'
  BY <1>1 DEF WarmMapIsSafe, fixed, Owner
<1>2. ASSUME NEW c \in Op, MapRace(c)
      PROVE  WarmMapIsSafe'
  <2>1. /\ pc[c] \in {"lookup", "inserting"} /\ Racing(c)
        /\ dead' = [dead EXCEPT ![Owner(c)] = IntfMap(c)]
        /\ UNCHANGED fixed
    BY <1>2 DEF MapRace
  <2>2. PICK p \in Timed : /\ pc[p] = "inserting" /\ IntfMap(p) = IntfMap(c)
                           /\ Owner(p) = Owner(c)
    BY <1>2, <2>1, RaceIs
  <2>3. ~ncpr
    BY <1>2, <2>1, RaceIs
  <2>4. IntfMap(c) = "dep" => \A o \in Prereq \ {1} : Owner(o) # Owner(c)
    BY <2>2, <2>3 DEF MapInv, Cold, IntfMap
  <2>5. \A o \in Prereq : kind[o] = "create" => o # 1
    BY DEF TypeInv, Loaded
  <2>6. \A q \in Process :
          dead'[q] = IF q = Owner(c) THEN IntfMap(c) ELSE dead[q]
    BY <2>1 DEF TypeInv, TypeOK
  <2>7. ASSUME NEW q \in Process
        PROVE  /\ dead'[q] = "dep"
                    => \A o \in Prereq : kind[o] = "create" => Owner(o) # q
               /\ dead'[q] # "no" => ~ncpr
    BY <2>3, <2>4, <2>5, <2>6 DEF WarmMapIsSafe
  <2>8. QED
    BY <2>1, <2>7 DEF WarmMapIsSafe, fixed, Owner
<1>3. ASSUME NEW c \in Op, ClientStep(c) \/ Call(c), ~MapRace(c)
      PROVE  UNCHANGED <<dead, fixed>>
  BY <1>3 DEF ClientStep, Begin, Lookup, InsertEnd, RetryOnConflict, Return,
     CallFails, Call, CreateNamespace, Create, List, Delete, Get, Put, mapVars
<1>4. ASSUME NEW k \in Key, StatusUpdate(k) \/ Collect(k)
      PROVE  UNCHANGED <<dead, fixed>>
  BY <1>4 DEF StatusUpdate, Collect, mapVars
<1>5. QED
  BY <1>1, <1>2, <1>3, <1>4 DEF Next, vars, mapVars


-----------------------------------------------------------------------------
\* The first states satisfy the invariant.
LEMMA InitInv ==
  ASSUME Init
  PROVE  Inv
<1>1. TypeInv
  BY InitType
<1>2. StoreInv
  BY OpNumbers DEF Init, StoreInv, CopyOf, Writes
<1>3. InOrder
  BY DEF Init, InOrder, Waits
<1>4. NamespaceMade /\ NamespaceFirst
  BY OpNumbers DEF Init, NamespaceMade, NamespaceFirst
<1>5. MapInv
  BY DEF Init, MapInv, Warm, Cold
<1>6. WarmMapIsSafe
  BY DEF Init, WarmMapIsSafe
<1>7. QED
  BY <1>1, <1>2, <1>3, <1>4, <1>5, <1>6 DEF Inv

\* Every step keeps the invariant.
LEMMA NextInv ==
  ASSUME Inv, [Next]_vars
  PROVE  Inv'
<1> USE DEF Inv
<1>1. TypeInv'
  BY TypeStep
<1>2. StoreInv'
  BY <1>1, StoreStep
<1>3. InOrder'
  BY OrderStep
<1>4. NamespaceMade' /\ NamespaceFirst'
  BY NamespaceStep
<1>5. MapInv'
  BY MapStep
<1>6. WarmMapIsSafe'
  BY DeathStep
<1>7. QED
  BY <1>1, <1>2, <1>3, <1>4, <1>5, <1>6

\* The invariant holds throughout.
LEMMA Invariance == Spec => []Inv
<1>1. Init => Inv
  BY InitInv
<1>2. Inv /\ [Next]_vars => Inv'
  BY NextInv
<1>3. QED
  BY <1>1, <1>2, PTL DEF Spec

\* The variables keep their types, and an operation only stands where its
\* kind has something to do.
THEOREM TypeCorrect == Spec => []TypeInv
<1>1. Inv => TypeInv
  BY DEF Inv
<1>2. QED
  BY <1>1, Invariance, PTL

\* A prerequisite finds its namespace missing only if another process was
\* to create it or its creation failed, however many processes share the
\* prerequisites.
THEOREM NamespaceComesFirst == Spec => []NamespaceFirst
<1>1. Inv => NamespaceFirst
  BY DEF Inv
<1>2. QED
  BY <1>1, Invariance, PTL

\* The maps without a lock end a process only by concurrent first Reads, or
\* concurrent first writes in a process that created no deployment.
THEOREM RacesAreConfined == Spec => []WarmMapIsSafe
<1>1. Inv => WarmMapIsSafe
  BY DEF Inv
<1>2. QED
  BY <1>1, Invariance, PTL

\* An Update that gives up with a conflict was overtaken by at least Steps
\* writes since it first read the deployment.
THEOREM ConflictsAreEarned == Spec => ConflictMeansContention
<1>1. ASSUME Inv, [Next]_vars, NEW o \in Op,
             pc[o] = "answer", pc'[o] = "done", result'[o] = "conflict"
      PROVE  version[key[o]] >= base[o] + Steps
  <2>1. PICK c \in Op : ClientStep(c) \/ Call(c)
    BY <1>1 DEF Next, vars, opVars, StatusUpdate, Collect
  <2>2. o = c
    BY <1>1, <2>1, OwnStep DEF Inv, Others
  <2>3. o \in DOMAIN result /\ o \in DOMAIN pc
    BY <1>1 DEF Inv, TypeInv, TypeOK
  <2>4. Return(o)
    <3>1. ~CallFails(o)
      BY <1>1, <2>3 DEF CallFails, Finish
    <3>2. ~Call(o)
      BY <1>1, <2>3 DEF Call, CreateNamespace, Create, List, Delete, Get, Put,
         Answer, GoTo
    <3>3. ~(Begin(o) \/ Lookup(o) \/ InsertEnd(o) \/ MapRace(o))
      BY <1>1 DEF Begin, Lookup, InsertEnd, MapRace
    <3>4. ~RetryOnConflict(o)
      BY <1>1, <2>3 DEF RetryOnConflict, GoTo
    <3>5. QED
      BY <2>1, <2>2, <3>1, <3>2, <3>3, <3>4 DEF ClientStep
  <2>5. result[o] = "conflict" /\ tries[o] + 1 >= Steps
    <3>1. result[o] = "conflict" /\ ~(tries[o] + 1 < Steps)
      BY <1>1, <2>3, <2>4 DEF Return, Finish, Retries
    <3>2. QED
      BY <1>1, <3>1, Numbers DEF Inv, TypeInv, TypeOK
  <2>6. version[key[o]] >= base[o] + tries[o] + 1
    BY <1>1, <2>5 DEF Inv, StoreInv, Writes
  <2>7. /\ version[key[o]] \in Nat /\ base[o] \in Nat /\ tries[o] \in Nat
    BY <1>1 DEF Inv, TypeInv, TypeOK
  <2>8. QED
    BY <2>5, <2>6, <2>7, Numbers
<1>2. Inv /\ [Next]_vars =>
        [\A o \in Op : pc[o] = "answer" /\ pc'[o] = "done"
                         /\ result'[o] = "conflict"
                         => version[key[o]] >= base[o] + Steps]_vars
  BY <1>1
<1>3. QED
  BY <1>2, Invariance, PTL DEF Spec, ConflictMeansContention

-----------------------------------------------------------------------------
(* The refinement.                                                         *)

\* The phases of all operations, as ScaleStore sees them.
Phases == [o \in Op |-> Phase(o)]

\* A step of operation c moves the phase of c alone.
LEMMA PhaseMoves ==
  ASSUME TypeInv, NEW c \in Op, ClientStep(c) \/ Call(c)
  PROVE  Phases' = [Phases EXCEPT ![c] = Phase(c)']
<1>1. ASSUME NEW o \in Op \ {c}
      PROVE  Phase(o)' = Phase(o)
  BY <1>1, OwnStep DEF Others, Phase
<1>2. QED
  BY <1>1 DEF Phases

\* Every step of the client is one of the abstract store, or none.
LEMMA StoreMove ==
  ASSUME Inv, [Next]_vars
  PROVE  [Store!Next]_(Store!vars)
<1> USE DEF Phases
<1>0. ASSUME NEW c \in Op, ClientStep(c) \/ Call(c)
      PROVE  /\ Phases' = [Phases EXCEPT ![c] = Phase(c)']
             /\ Phases[c] = Phase(c)
             /\ UNCHANGED <<kind, key>>
             /\ c \in DOMAIN pc /\ c \in DOMAIN result
             /\ Phase(c)' = Phase(c) => Phases' = Phases
  BY <1>0, PhaseMoves, OwnStep DEF Inv, TypeInv, TypeOK, Others, fixed
<1>1. ASSUME NEW c \in Op, ClientStep(c)
      PROVE  [Store!Next]_(Store!vars)
  <2>0. UNCHANGED <<ns, replicas, doomed>>
    BY <1>1 DEF ClientStep, Begin, Lookup, InsertEnd, MapRace,
       RetryOnConflict, Return, CallFails, serverVars
  <2>1. ASSUME Phase(c)' = Phase(c)
        PROVE  [Store!Next]_(Store!vars)
    BY <1>0, <1>1, <2>0, <2>1 DEF Store!vars
  <2>2. CASE Begin(c)
    <3>1. Phase(c) = "waiting" /\ Phase(c)' = "pending"
      BY <1>0, <1>1, <2>2 DEF Begin, GoTo, Phase
    <3>2. Store!Invoke(c)
      BY <1>0, <1>1, <2>0, <3>1 DEF Store!Invoke, Store!Move
    <3>3. QED
      BY <3>2 DEF Store!Next
  <2>3. CASE Lookup(c) \/ InsertEnd(c) \/ MapRace(c)
    <3>1. Phase(c) = "pending" /\ Phase(c)' = "pending"
      BY <1>0, <1>1, <2>3 DEF Lookup, InsertEnd, MapRace, FirstCall, GoTo,
         Phase, opVars
    <3>2. QED
      BY <2>1, <3>1
  <2>4. CASE RetryOnConflict(c)
    <3>1. Phase(c) = "pending" /\ Phase(c)' = "pending"
      BY <1>0, <1>1, <2>4 DEF RetryOnConflict, Retries, GoTo, Phase
    <3>2. QED
      BY <2>1, <3>1
  <2>5. CASE Return(c)
    <3>1. pc[c] = "answer" /\ pc'[c] = "done" /\ result'[c] = result[c]
      BY <1>0, <1>1, <2>5 DEF Return, Finish, GoTo
    <3>2. CASE result[c] = "ok"
      <4>1. Phase(c) = "applied" /\ Phase(c)' = "success"
        BY <3>1, <3>2 DEF Phase
      <4>2. Store!Succeed(c)
        BY <1>0, <1>1, <2>0, <4>1 DEF Store!Succeed, Store!Move
      <4>3. QED
        BY <4>2 DEF Store!Next
    <3>3. CASE result[c] # "ok"
      <4>1. Phase(c) = "pending" /\ Phase(c)' = "failed"
        BY <3>1, <3>3 DEF Phase
      <4>2. Store!Fail(c)
        BY <1>0, <1>1, <2>0, <4>1 DEF Store!Fail, Store!Move
      <4>3. QED
        BY <4>2 DEF Store!Next
    <3>4. QED
      BY <3>2, <3>3
  <2>6. CASE CallFails(c)
    <3>1. /\ pc[c] \in {"call", "get", "put", "answer"}
          /\ pc'[c] = "done" /\ result'[c] = "error"
      BY <1>0, <1>1, <2>6 DEF CallFails, Finish, GoTo
    <3>2. Phase(c) \in {"pending", "applied"} /\ Phase(c)' = "failed"
      BY <3>1 DEF Phase
    <3>3. Store!Fail(c)
      BY <1>0, <1>1, <2>0, <3>2 DEF Store!Fail, Store!Move
    <3>4. QED
      BY <3>3 DEF Store!Next
  <2>7. QED
    BY <1>1, <2>2, <2>3, <2>4, <2>5, <2>6 DEF ClientStep
<1>2. ASSUME NEW c \in Op, Call(c)
      PROVE  [Store!Next]_(Store!vars)
  <2>0. /\ key[c] \in Key /\ kind[c] \in Kinds /\ RightPoint(c)
        /\ replicas \in [Key -> Nat] /\ got[c].replicas \in Nat
        /\ ns \in BOOLEAN
    BY DEF Inv, TypeInv, TypeOK, RightPoints
  <2>1. ASSUME pc[c] \in {"call", "get", "put"},
               \/ pc'[c] = "put"
               \/ pc'[c] = "answer" /\ result'[c] # "ok",
               UNCHANGED <<ns, replicas, doomed>>
        PROVE  [Store!Next]_(Store!vars)
    <3>1. Phase(c) = "pending" /\ Phase(c)' = "pending"
      BY <2>1 DEF Phase
    <3>2. QED
      BY <1>0, <1>2, <2>1, <3>1 DEF Store!vars
  <2>2. ASSUME pc[c] \in {"call", "get", "put"}, pc'[c] = "answer",
               result'[c] = "ok", Store!Effect(c)
        PROVE  [Store!Next]_(Store!vars)
    <3>1. Phase(c) = "pending" /\ Phase(c)' = "applied"
      BY <2>2 DEF Phase
    <3>2. Store!Apply(c)
      BY <1>0, <1>2, <2>2, <3>1 DEF Store!Apply, Store!Move
    <3>3. QED
      BY <3>2 DEF Store!Next
  <2>3. CASE CreateNamespace(c)
    <3>1. /\ pc[c] = "call" /\ pc'[c] = "answer"
          /\ result'[c] = IF ns THEN "exists" ELSE "ok"
          /\ ns' = TRUE /\ UNCHANGED <<replicas, doomed>>
          /\ kind[c] = "namespace"
      BY <1>0, <1>2, <2>3 DEF CreateNamespace, Answer, GoTo
    <3>2. CASE ns
      BY <2>0, <2>1, <3>1, <3>2
    <3>3. CASE ~ns
      BY <2>2, <3>1, <3>3 DEF Store!Effect
    <3>4. QED
      BY <3>2, <3>3
  <2>4. CASE Create(c)
    <3>1. pc[c] = "call" /\ pc'[c] = "answer" /\ kind[c] = "create"
          /\ UNCHANGED <<ns, doomed>>
      BY <1>0, <1>2, <2>4 DEF Create, Answer, GoTo
    <3>2. CASE UNCHANGED replicas /\ result'[c] # "ok"
      BY <2>1, <3>1, <3>2
    <3>3. CASE /\ ns /\ ~Exists(key[c]) /\ result'[c] = "ok"
               /\ replicas' = [replicas EXCEPT ![key[c]] = InitReplicas]
      <4>1. Store!Effect(c)
        BY <3>1, <3>3 DEF Store!Effect, Store!Exists, Exists
      <4>2. QED
        BY <2>2, <3>1, <3>3, <4>1
    <3>4. QED
      BY <1>0, <1>2, <2>4, <3>2, <3>3 DEF Create, Answer
  <2>5. CASE List(c)
    <3>1. /\ pc[c] = "call" /\ pc'[c] = "answer" /\ kind[c] = "read"
          /\ result'[c] = "ok" /\ UNCHANGED <<ns, replicas, doomed>>
      BY <1>0, <1>2, <2>5 DEF List, Answer, GoTo, serverVars
    <3>2. Store!Effect(c)
      BY <3>1 DEF Store!Effect
    <3>3. QED
      BY <2>2, <3>1, <3>2
  <2>6. CASE Delete(c)
    <3>1. pc[c] = "call" /\ pc'[c] = "answer" /\ kind[c] = "delete"
          /\ UNCHANGED <<ns, replicas>>
      BY <1>0, <1>2, <2>6 DEF Delete, Answer, GoTo
    <3>2. CASE UNCHANGED doomed /\ result'[c] # "ok"
      BY <2>1, <3>1, <3>2
    <3>3. CASE /\ Exists(key[c]) /\ result'[c] = "ok"
               /\ doomed' = doomed \union {key[c]}
      <4>1. Store!Effect(c)
        BY <3>1, <3>3 DEF Store!Effect, Store!Exists, Exists
      <4>2. QED
        BY <2>2, <3>1, <3>3, <4>1
    <3>4. QED
      BY <1>0, <1>2, <2>6, <3>2, <3>3 DEF Delete, Answer
  <2>7. CASE Get(c)
    <3>1. /\ pc[c] = "get" /\ UNCHANGED <<ns, replicas, doomed>>
          /\ \/ pc'[c] = "put"
             \/ pc'[c] = "answer" /\ result'[c] = "not found"
      BY <1>0, <1>2, <2>7 DEF Get, Answer, GoTo, serverVars
    <3>2. QED
      BY <2>1, <3>1
  <2>8. CASE Put(c)
    <3>1. pc[c] = "put" /\ pc'[c] = "answer" /\ kind[c] \in {"up", "down"}
          /\ UNCHANGED <<ns, doomed>>
      BY <1>0, <1>2, <2>0, <2>8 DEF Put, Answer, GoTo, RightPoint
    <3>2. CASE UNCHANGED replicas /\ result'[c] # "ok"
      BY <2>1, <3>1, <3>2
    <3>3. CASE /\ Exists(key[c]) /\ result'[c] = "ok"
               /\ version[key[c]] = got[c].version
               /\ replicas' = [replicas EXCEPT ![key[c]] = NewReplicas(c)]
      <4>1. replicas[key[c]] = got[c].replicas
        BY <2>0, <3>1, <3>3 DEF Inv, StoreInv, CopyOf, Exists
      <4>2. Delta[kind[c]] \in Int
        BY <3>1, Numbers DEF Delta
      <4>3. NewReplicas(c) = Store!Larger(1, replicas[key[c]] + Delta[kind[c]])
        BY <2>0, <4>1, <4>2 DEF NewReplicas, Store!Larger
      <4>4. replicas' = Store!Scaled(key[c], Delta[kind[c]])
        BY <3>3, <4>3 DEF Store!Scaled
      <4>5. Store!Effect(c)
        BY <3>1, <3>3, <4>4 DEF Store!Effect, Store!Exists, Exists
      <4>6. QED
        BY <2>2, <3>1, <3>3, <4>5
    <3>4. QED
      BY <1>0, <1>2, <2>8, <3>2, <3>3 DEF Put, Answer
  <2>9. QED
    BY <1>2, <2>3, <2>4, <2>5, <2>6, <2>7, <2>8 DEF Call
<1>3. ASSUME NEW k \in Key, StatusUpdate(k)
      PROVE  [Store!Next]_(Store!vars)
  BY <1>3 DEF StatusUpdate, Store!vars, Phase, fixed, opVars
<1>4. ASSUME NEW k \in Key, Collect(k)
      PROVE  [Store!Next]_(Store!vars)
  <2>1. Store!Collect(k)
    BY <1>4 DEF Collect, Inv, StoreInv, Store!Collect, Store!Exists, Phase,
       fixed, opVars
  <2>2. QED
    BY <2>1 DEF Store!Next
<1>5. CASE UNCHANGED vars
  BY <1>5 DEF vars, fixed, opVars, serverVars, Store!vars, Phase
<1>6. QED
  BY <1>1, <1>2, <1>3, <1>4, <1>5 DEF Next

\* Every operation takes effect at most once, as a whole, between its
\* invocation and its answer, and exactly once if it reports success, for
\* any workload, number of processes and number of attempts.
THEOREM StoreRefinement == Spec => ImplementsStore
<1>1. Init => Store!Init
  <2> SUFFICES ASSUME Init PROVE Store!Init
    OBVIOUS
  <2>1. TypeInv
    BY InitType
  <2>2. QED
    BY <2>1 DEF Init, TypeInv, TypeOK, Kinds, Store!Init, Phase
<1>2. Inv /\ [Next]_vars => [Store!Next]_(Store!vars)
  BY StoreMove
<1>3. QED
  BY <1>1, <1>2, Invariance, PTL DEF Spec, ImplementsStore, Store!Spec

-----------------------------------------------------------------------------
(***************************************************************************)
(* What the refinement is worth to who reads the results: the replicas of  *)
(* a deployment, from the answers to the scalings of it.                   *)
(***************************************************************************)

Scalings(x, k) == {o \in Op : kind[o] = x /\ key[o] = k}

\* Those that took effect, and those that may have: an operation that gets
\* no answer is the only one of which nothing is known.
Took(x, k) ==
  {o \in Scalings(x, k) : pc[o] \in {"answer", "done"} /\ result[o] = "ok"}
MayHave(x, k) ==
  Took(x, k) \union {o \in Scalings(x, k) : result[o] = "error"}

Least(k) == InitReplicas + Up * Cardinality(Took("up", k))
                         - Down * Cardinality(MayHave("down", k))
Most(k) == InitReplicas + Up * Cardinality(MayHave("up", k))
                        - Down * Cardinality(Took("down", k))

\* The scale-downs alone do not reach the one replica that always stays.
NeverAtOne(k) == InitReplicas > Down * Cardinality(Scalings("down", k))

\* A deployment has the replicas it was created with, and one more (Up) or
\* less (Down) for every scaling that took effect.
ReplicasAddUp ==
  \A k \in Key : Exists(k) =>
    /\ Least(k) <= replicas[k]
    /\ NeverAtOne(k) => replicas[k] <= Most(k)

\* A factor keeps the order.
LEMMA TimesOrder ==
  ASSUME NEW a \in Nat, NEW b \in Nat, NEW c \in Nat, a <= b
  PROVE  c * a \in Nat /\ c * b \in Nat /\ c * a <= c * b
<1>1. PICK d \in Nat : b = a + d
  <2>1. b - a \in Nat /\ b = a + (b - a)
    OBVIOUS
  <2> QED BY <2>1
<1>2. c * b = c * a + c * d /\ c * d \in Nat /\ c * a \in Nat
  BY <1>1
<1> QED BY <1>2

\* The sets of scalings can be counted.
LEMMA ScalingsCount ==
  ASSUME NEW S, S \subseteq Op
  PROVE  IsFiniteSet(S) /\ Cardinality(S) \in Nat
<1>1. IsFiniteSet(Op)
  <2>1. IsFiniteSet(Prereq) /\ IsFiniteSet(Timed)
    BY Numbers, FS_Interval DEF Prereq, Timed
  <2> QED BY <2>1, FS_Union DEF Op
<1> QED BY <1>1, FS_Subset, FS_CardinalityType

\* One scaling more.
LEMMA OneMoreScaling ==
  ASSUME NEW S, S \subseteq Op, NEW c \in Op, c \notin S, NEW n \in Nat
  PROVE  /\ Cardinality(S \union {c}) = Cardinality(S) + 1
         /\ n * Cardinality(S \union {c}) = n * Cardinality(S) + n
         /\ n * Cardinality(S) \in Nat
<1>1. IsFiniteSet(S) /\ Cardinality(S) \in Nat
  BY ScalingsCount
<1>2. Cardinality(S \union {c}) = Cardinality(S) + 1
  BY <1>1, FS_AddElement
<1> QED BY <1>1, <1>2

\* Fewer took effect for sure, more may have.
LEMMA SubsetCount ==
  ASSUME NEW S, NEW T, S \subseteq T, T \subseteq Op, NEW n \in Nat
  PROVE  /\ n * Cardinality(S) \in Nat /\ n * Cardinality(T) \in Nat
         /\ n * Cardinality(S) <= n * Cardinality(T)
<1>1. IsFiniteSet(T) /\ Cardinality(T) \in Nat /\ Cardinality(S) \in Nat
  BY ScalingsCount
<1>2. Cardinality(S) <= Cardinality(T)
  BY <1>1, FS_Subset
<1> QED BY <1>1, <1>2, TimesOrder

\* The bounds hold on when the replicas stay, and less is known.
LEMMA LessKnown ==
  ASSUME TypeInv, TypeInv', ReplicasAddUp, UNCHANGED <<kind, key>>,
         NEW k \in Key, Exists(k)', replicas'[k] = replicas[k],
         \A x \in {"up", "down"} : /\ Took(x, k)' \subseteq Took(x, k)
                                   /\ MayHave(x, k) \subseteq MayHave(x, k)'
  PROVE  /\ Least(k)' <= replicas'[k]
         /\ NeverAtOne(k)' => replicas'[k] <= Most(k)'
<1>1. Exists(k)
  BY DEF Exists
<1>2. /\ Least(k) <= replicas[k]
      /\ NeverAtOne(k) => replicas[k] <= Most(k)
  BY <1>1 DEF ReplicasAddUp
<1>3. NeverAtOne(k)' = NeverAtOne(k)
  BY DEF NeverAtOne, Scalings
<1>4. /\ Up \in Nat /\ Down \in Nat /\ InitReplicas \in Nat
      /\ replicas[k] \in Nat
  BY Numbers DEF TypeInv, TypeOK
<1>5. /\ Took("up", k) \subseteq Op /\ MayHave("up", k)' \subseteq Op
      /\ Took("down", k) \subseteq Op /\ MayHave("down", k)' \subseteq Op
  BY DEF Took, MayHave, Scalings
<1>6. /\ Took("up", k)' \subseteq Took("up", k)
      /\ Took("down", k)' \subseteq Took("down", k)
      /\ MayHave("up", k) \subseteq MayHave("up", k)'
      /\ MayHave("down", k) \subseteq MayHave("down", k)'
  OBVIOUS
<1>7. /\ Up * Cardinality(Took("up", k)') \in Nat
      /\ Up * Cardinality(Took("up", k)) \in Nat
      /\ Up * Cardinality(Took("up", k)') <= Up * Cardinality(Took("up", k))
  BY <1>4, <1>5, <1>6, SubsetCount
<1>8. /\ Down * Cardinality(Took("down", k)') \in Nat
      /\ Down * Cardinality(Took("down", k)) \in Nat
      /\ Down * Cardinality(Took("down", k)')
           <= Down * Cardinality(Took("down", k))
  BY <1>4, <1>5, <1>6, SubsetCount
<1>9. /\ Up * Cardinality(MayHave("up", k)') \in Nat
      /\ Up * Cardinality(MayHave("up", k)) \in Nat
      /\ Up * Cardinality(MayHave("up", k))
           <= Up * Cardinality(MayHave("up", k)')
  BY <1>4, <1>5, <1>6, SubsetCount
<1>10. /\ Down * Cardinality(MayHave("down", k)') \in Nat
       /\ Down * Cardinality(MayHave("down", k)) \in Nat
       /\ Down * Cardinality(MayHave("down", k))
            <= Down * Cardinality(MayHave("down", k)')
  BY <1>4, <1>5, <1>6, SubsetCount
<1>11. Least(k)' <= replicas'[k]
  BY <1>2, <1>4, <1>7, <1>10 DEF Least
<1>12. NeverAtOne(k)' => replicas'[k] <= Most(k)'
  BY <1>2, <1>3, <1>4, <1>8, <1>9 DEF Most
<1> QED BY <1>11, <1>12

\* Where the answer to c alone may change, what took effect for the others
\* is as known as it was.
LEMMA KnownOfOthers ==
  ASSUME TypeInv, NEW c \in Op, Others(c), NEW x, NEW k \in Key
  PROVE  /\ kind' = kind /\ key' = key
         /\ Took(x, k)' \ {c} = Took(x, k) \ {c}
         /\ MayHave(x, k)' \ {c} = MayHave(x, k) \ {c}
<1>1. kind' = kind /\ key' = key
  BY DEF Others, fixed
<1>2. \A o \in Op \ {c} : pc'[o] = pc[o] /\ result'[o] = result[o]
  BY DEF Others
<1>3. Scalings(x, k)' = Scalings(x, k)
  BY <1>1 DEF Scalings
<1>4. Took(x, k)' \ {c} = Took(x, k) \ {c}
  BY <1>2, <1>3 DEF Took, Scalings
<1>5. MayHave(x, k)' \ {c} = MayHave(x, k) \ {c}
  BY <1>2, <1>3, <1>4 DEF MayHave, Scalings
<1> QED BY <1>1, <1>4, <1>5

\* A step of the client writes no deployment, and makes nothing better known.
LEMMA ClientKnows ==
  ASSUME Inv, Inv', NEW c \in Op, ClientStep(c), NEW k \in Key,
         NEW x \in {"up", "down"}
  PROVE  /\ Took(x, k)' \subseteq Took(x, k)
         /\ MayHave(x, k) \subseteq MayHave(x, k)'
<1>0. TypeInv /\ Others(c)
  BY OwnStep DEF Inv
<1>1. /\ c \in Took(x, k)' => c \in Took(x, k)
      /\ c \in MayHave(x, k) => c \in MayHave(x, k)'
  <2>0. /\ kind' = kind /\ key' = key
        /\ result[c] = "error" => pc[c] = "done"
        /\ pc \in [Op -> Points] /\ result \in [Op -> Outcomes]
    BY <1>0 DEF Others, fixed, TypeInv, TypeOK, RightPoints, RightPoint
  <2>1. \/ /\ pc[c] \in {"todo", "lookup", "inserting"}
           /\ pc'[c] \notin {"answer", "done"} /\ result'[c] = result[c]
        \/ UNCHANGED <<pc, result>>
        \/ /\ pc[c] = "answer" /\ result'[c] = result[c] /\ pc'[c] = "done"
        \/ /\ pc[c] = "answer" /\ result[c] = "conflict" /\ result' = result
           /\ pc'[c] = "get"
        \/ pc[c] # "done" /\ result'[c] = "error"
    BY <2>0 DEF ClientStep, Begin, Lookup, InsertEnd, MapRace, FirstCall,
       RetryOnConflict, Retries, Return, CallFails, GoTo, Finish, opVars
  <2> QED BY <2>0, <2>1 DEF Took, MayHave, Scalings
<1> QED BY <1>0, <1>1, KnownOfOthers

\* Nor does a call that is not a Put make a scaling take effect.
LEMMA CallKnows ==
  ASSUME Inv, Inv', NEW c \in Op, NEW k \in Key, NEW x \in {"up", "down"},
         \/ CreateNamespace(c) \/ Create(c) \/ List(c) \/ Delete(c) \/ Get(c)
         \/ Put(c) /\ UNCHANGED replicas /\ result'[c] # "ok"
  PROVE  /\ Took(x, k)' \subseteq Took(x, k)
         /\ MayHave(x, k) \subseteq MayHave(x, k)'
<1>0. TypeInv /\ Others(c)
  BY OwnStep DEF Inv, Call
<1>1. /\ c \in Took(x, k)' => c \in Took(x, k)
      /\ c \in MayHave(x, k) => c \in MayHave(x, k)'
  <2>0. /\ kind' = kind /\ key' = key
        /\ result[c] = "error" => pc[c] = "done"
        /\ pc \in [Op -> Points] /\ result \in [Op -> Outcomes]
    BY <1>0 DEF Others, fixed, TypeInv, TypeOK, RightPoints, RightPoint
  <2>1. /\ pc[c] \in {"call", "get", "put"}
        /\ pc'[c] = "put" \/ result'[c] # "ok" \/ kind[c] \notin {"up", "down"}
    BY <2>0, <1>0 DEF CreateNamespace, Create, List, Delete, Get, Put, Answer, GoTo
  <2>2. kind[c] \notin {"up", "down"} => c \notin MayHave(x, k) /\ c \notin Took(x, k)'
    BY <2>0 DEF Took, MayHave, Scalings
  <2>3. c \notin MayHave(x, k)
    BY <2>0, <2>1 DEF Took, MayHave, Scalings
  <2>4. c \notin Took(x, k)'
    BY <2>0, <2>1, <2>2 DEF Took, Scalings
  <2> QED BY <2>3, <2>4
<1> QED BY <1>0, <1>1, KnownOfOthers

\* A scaling that takes effect is counted, on both sides.
LEMMA PutCounts ==
  ASSUME Inv, Inv', NEW c \in Op, Put(c), result'[c] = "ok"
  PROVE  /\ kind[c] \in {"up", "down"} /\ kind' = kind /\ key' = key
         /\ Exists(key[c]) /\ replicas[key[c]] \in Nat
         /\ replicas'[key[c]] =
              LET r == replicas[key[c]] + Delta[kind[c]] IN IF r < 1 THEN 1 ELSE r
         /\ \A k \in Key \ {key[c]} : replicas'[k] = replicas[k]
         /\ \A x \in {"up", "down"}, k \in Key :
              /\ c \notin Took(x, k) /\ c \notin MayHave(x, k)
              /\ Took(x, k)' =
                   IF x = kind[c] /\ k = key[c] THEN Took(x, k) \union {c}
                   ELSE Took(x, k)
              /\ MayHave(x, k)' =
                   IF x = kind[c] /\ k = key[c] THEN MayHave(x, k) \union {c}
                   ELSE MayHave(x, k)
<1>0. /\ TypeInv /\ Others(c) /\ StoreInv
      /\ kind' = kind /\ key' = key
      /\ pc \in [Op -> Points] /\ result \in [Op -> Outcomes]
      /\ replicas \in [Key -> Nat] /\ key[c] \in Key
  BY OwnStep DEF Inv, Call, Others, fixed, TypeInv, TypeOK
<1>1. /\ pc[c] = "put" /\ result[c] # "error" /\ kind[c] \in {"up", "down"}
      /\ pc'[c] = "answer"
  BY <1>0 DEF Put, TypeInv, RightPoints, RightPoint, Answer, GoTo
<1>2. /\ Exists(key[c]) /\ version[key[c]] = got[c].version
      /\ replicas' = [replicas EXCEPT ![key[c]] = NewReplicas(c)]
  BY <1>0 DEF Put, Answer
<1>3. got[c].replicas = replicas[key[c]]
  BY <1>0, <1>1, <1>2 DEF StoreInv, CopyOf, Exists
<1>4. ASSUME NEW x \in {"up", "down"}, NEW k \in Key
      PROVE  /\ c \notin Took(x, k) /\ c \notin MayHave(x, k)
             /\ Took(x, k)' =
                  IF x = kind[c] /\ k = key[c] THEN Took(x, k) \union {c}
                  ELSE Took(x, k)
             /\ MayHave(x, k)' =
                  IF x = kind[c] /\ k = key[c] THEN MayHave(x, k) \union {c}
                  ELSE MayHave(x, k)
  <2>1. c \notin Took(x, k) /\ c \notin MayHave(x, k)
    BY <1>1 DEF Took, MayHave
  <2>2. /\ Took(x, k)' \ {c} = Took(x, k) \ {c}
        /\ MayHave(x, k)' \ {c} = MayHave(x, k) \ {c}
    BY <1>0, KnownOfOthers
  <2>3. /\ c \in Took(x, k)' <=> x = kind[c] /\ k = key[c]
        /\ c \in MayHave(x, k)' <=> x = kind[c] /\ k = key[c]
    BY <1>0, <1>1 DEF Took, MayHave, Scalings
  <2> QED BY <2>1, <2>2, <2>3
<1>5. /\ replicas[key[c]] \in Nat
      /\ replicas'[key[c]] = NewReplicas(c)
      /\ \A k \in Key \ {key[c]} : replicas'[k] = replicas[k]
  BY <1>0, <1>2
<1> QED BY <1>0, <1>1, <1>2, <1>3, <1>4, <1>5 DEF NewReplicas

\* The bounds move with the replicas.
LEMMA PutAddsUp ==
  ASSUME Inv, Inv', ReplicasAddUp, NEW c \in Op, Put(c), result'[c] = "ok",
         NEW k \in Key, Exists(k)'
  PROVE  /\ Least(k)' <= replicas'[k]
         /\ NeverAtOne(k)' => replicas'[k] <= Most(k)'
<1>0. TypeInv /\ TypeInv'
  BY DEF Inv
<1>1. CASE k # key[c]
  <2>1. /\ replicas'[k] = replicas[k] /\ UNCHANGED <<kind, key>>
        /\ \A x \in {"up", "down"} : /\ Took(x, k)' = Took(x, k)
                                     /\ MayHave(x, k)' = MayHave(x, k)
    BY <1>1, PutCounts
  <2> QED BY <1>0, <2>1, LessKnown
<1>2. CASE k = key[c]
  <2>1. /\ Exists(k) /\ kind[c] \in {"up", "down"} /\ UNCHANGED <<kind, key>>
        /\ replicas[k] \in Nat /\ replicas[k] > 0
        /\ replicas'[k] =
             LET r == replicas[k] + Delta[kind[c]] IN IF r < 1 THEN 1 ELSE r
    BY <1>2, PutCounts DEF Exists
  <2>2. /\ Up \in Nat /\ Down \in Nat /\ InitReplicas \in Nat \ {0}
    BY Numbers
  <2>3. /\ Least(k) <= replicas[k]
        /\ NeverAtOne(k) => replicas[k] <= Most(k)
        /\ NeverAtOne(k)' = NeverAtOne(k)
    BY <2>1 DEF ReplicasAddUp, NeverAtOne, Scalings
  <2>4. /\ Took("up", k) \subseteq Op /\ MayHave("up", k) \subseteq Op
        /\ Took("down", k) \subseteq Op /\ MayHave("down", k) \subseteq Op
        /\ Scalings("down", k) \subseteq Op
    BY DEF Took, MayHave, Scalings
  <2>5. /\ Up * Cardinality(Took("up", k)) \in Nat
        /\ Up * Cardinality(MayHave("up", k)) \in Nat
        /\ Down * Cardinality(Took("down", k)) \in Nat
        /\ Down * Cardinality(MayHave("down", k)) \in Nat
        /\ Down * Cardinality(Scalings("down", k)) \in Nat
    <3>1. \A S \in SUBSET Op : Cardinality(S) \in Nat
      BY ScalingsCount
    <3> QED BY <2>2, <2>4, <3>1
  <2>6. CASE kind[c] = "up"
    <3>1. /\ Took("up", k)' = Took("up", k) \union {c}
          /\ MayHave("up", k)' = MayHave("up", k) \union {c}
          /\ Took("down", k)' = Took("down", k)
          /\ MayHave("down", k)' = MayHave("down", k)
          /\ c \notin Took("up", k) /\ c \notin MayHave("up", k)
      BY <1>2, <2>6, PutCounts
    <3>2. /\ Up * Cardinality(Took("up", k)')
               = Up * Cardinality(Took("up", k)) + Up
          /\ Up * Cardinality(MayHave("up", k)')
               = Up * Cardinality(MayHave("up", k)) + Up
      BY <2>2, <2>4, <3>1, OneMoreScaling
    <3>3. replicas'[k] = replicas[k] + Up
      BY <2>1, <2>2, <2>6 DEF Delta
    <3>4. Least(k)' <= replicas'[k]
      BY <2>1, <2>2, <2>3, <2>5, <3>1, <3>2, <3>3 DEF Least
    <3>5. NeverAtOne(k)' => replicas'[k] <= Most(k)'
      BY <2>1, <2>2, <2>3, <2>5, <3>1, <3>2, <3>3 DEF Most
    <3> QED BY <3>4, <3>5
  <2>7. CASE kind[c] = "down"
    <3>1. /\ Took("down", k)' = Took("down", k) \union {c}
          /\ MayHave("down", k)' = MayHave("down", k) \union {c}
          /\ Took("up", k)' = Took("up", k)
          /\ MayHave("up", k)' = MayHave("up", k)
          /\ c \notin Took("down", k) /\ c \notin MayHave("down", k)
      BY <1>2, <2>7, PutCounts
    <3>2. /\ Down * Cardinality(Took("down", k)')
               = Down * Cardinality(Took("down", k)) + Down
          /\ Down * Cardinality(MayHave("down", k)')
               = Down * Cardinality(MayHave("down", k)) + Down
      BY <2>2, <2>4, <3>1, OneMoreScaling
    <3>3. replicas'[k] = IF replicas[k] - Down < 1 THEN 1
                         ELSE replicas[k] - Down
      BY <2>1, <2>2, <2>7 DEF Delta
    <3>4. Least(k)' <= replicas'[k]
      BY <2>1, <2>2, <2>3, <2>5, <3>1, <3>2, <3>3 DEF Least
    <3>5. Down * Cardinality(Took("down", k)')
            <= Down * Cardinality(Scalings("down", k))
      <4>1. Took("down", k)' \subseteq Scalings("down", k)
        BY <2>1 DEF Took, Scalings
      <4> QED BY <2>2, <2>4, <4>1, SubsetCount
    <3>6. NeverAtOne(k)' => replicas'[k] <= Most(k)'
      <4> SUFFICES ASSUME NeverAtOne(k) PROVE replicas'[k] <= Most(k)'
        BY <2>3
      <4>1. /\ replicas[k] <= Most(k)
            /\ InitReplicas > Down * Cardinality(Scalings("down", k))
        BY <2>3 DEF NeverAtOne
      <4>2. Most(k)' = Most(k) - Down
        BY <2>2, <2>5, <3>1, <3>2 DEF Most
      <4>3. Most(k)' >= 1
        BY <2>2, <2>5, <3>1, <3>2, <3>5, <4>1 DEF Most
      <4>4. Most(k) \in Int
        BY <2>2, <2>5 DEF Most
      <4> QED BY <2>1, <2>2, <3>3, <4>1, <4>2, <4>3, <4>4
    <3> QED BY <3>4, <3>6
  <2> QED BY <2>1, <2>6, <2>7
<1> QED BY <1>1, <1>2

\* A deployment is created before any scaling of it is begun.
LEMMA CreateAddsUp ==
  ASSUME Inv, Inv', ReplicasAddUp, NEW c \in Op, Create(c),
         NEW k \in Key, Exists(k)'
  PROVE  /\ Least(k)' <= replicas'[k]
         /\ NeverAtOne(k)' => replicas'[k] <= Most(k)'
<1>0. /\ TypeInv /\ TypeInv' /\ Others(c) /\ kind' = kind /\ key' = key
      /\ replicas \in [Key -> Nat]
  BY OwnStep DEF Inv, Call, Others, fixed, TypeInv, TypeOK
<1>1. CASE replicas'[k] = replicas[k]
  <2>1. \A x \in {"up", "down"} : /\ Took(x, k)' \subseteq Took(x, k)
                                  /\ MayHave(x, k) \subseteq MayHave(x, k)'
    BY CallKnows
  <2> QED BY <1>0, <1>1, <2>1, LessKnown
<1>2. CASE replicas'[k] # replicas[k]
  <2>1. /\ kind[c] = "create" /\ pc[c] = "call"
        /\ replicas' = [replicas EXCEPT ![key[c]] = InitReplicas]
    BY <1>2 DEF Create
  <2>2. replicas'[k] = InitReplicas
    BY <1>0, <1>2, <2>1
  <2>3. c \in Prereq
    BY <1>0, <2>1, OpNumbers DEF TypeInv, Loaded
  <2>4. \A o \in Timed : pc[o] = "todo"
    BY <2>1, <2>3, OpNumbers DEF Inv, InOrder, Waits
  <2>5. ASSUME NEW x \in {"up", "down"}
        PROVE  Took(x, k)' = {} /\ MayHave(x, k)' = {}
    <3>1. \A o \in Op : kind[o] = x => o \in Timed /\ o # c
      BY <1>0, <2>1, OpNumbers DEF TypeInv, Loaded
    <3>2. \A o \in Op : kind[o] = x => pc'[o] = "todo" /\ result'[o] # "error"
      BY <1>0, <2>4, <3>1 DEF Others, TypeInv, RightPoints, RightPoint
    <3> QED BY <1>0, <3>2 DEF Took, MayHave, Scalings
  <2>6. /\ Took("up", k)' = {} /\ MayHave("up", k)' = {}
        /\ Took("down", k)' = {} /\ MayHave("down", k)' = {}
    BY <2>5
  <2>7. /\ Up * Cardinality(Took("up", k)') = 0
        /\ Up * Cardinality(MayHave("up", k)') = 0
        /\ Down * Cardinality(Took("down", k)') = 0
        /\ Down * Cardinality(MayHave("down", k)') = 0
        /\ InitReplicas \in Nat
    <3>1. Cardinality({}) = 0
      BY FS_EmptySet
    <3> QED BY <2>6, <3>1, Numbers
  <2>8. Least(k)' <= replicas'[k]
    BY <2>2, <2>7 DEF Least
  <2>9. replicas'[k] <= Most(k)'
    BY <2>2, <2>7 DEF Most
  <2> QED BY <2>8, <2>9
<1> QED BY <1>1, <1>2

LEMMA ReplicasStep ==
  ASSUME Inv, Inv', ReplicasAddUp, [Next]_vars
  PROVE  ReplicasAddUp'
<1>0. TypeInv /\ TypeInv'
  BY DEF Inv
<1> SUFFICES ASSUME NEW k \in Key, Exists(k)'
             PROVE  /\ Least(k)' <= replicas'[k]
                    /\ NeverAtOne(k)' => replicas'[k] <= Most(k)'
  BY DEF ReplicasAddUp
<1> DEFINE Goal == /\ Least(k)' <= replicas'[k]
                   /\ NeverAtOne(k)' => replicas'[k] <= Most(k)'
<1>1. ASSUME NEW c \in Op, ClientStep(c) PROVE Goal
  <2>1. UNCHANGED <<kind, key, replicas>>
    BY <1>1 DEF ClientStep, Begin, Lookup, InsertEnd, MapRace,
       RetryOnConflict, Return, CallFails, serverVars, fixed
  <2>2. \A x \in {"up", "down"} : /\ Took(x, k)' \subseteq Took(x, k)
                                  /\ MayHave(x, k) \subseteq MayHave(x, k)'
    BY <1>1, ClientKnows
  <2> QED BY <1>0, <2>1, <2>2, LessKnown
<1>2. ASSUME NEW c \in Op, Call(c) PROVE Goal
  <2>1. CASE Create(c)
    BY <2>1, CreateAddsUp
  <2>2. CASE Put(c) /\ result'[c] = "ok"
    BY <2>2, PutAddsUp
  <2>3. CASE \/ CreateNamespace(c) \/ List(c) \/ Delete(c) \/ Get(c)
             \/ Put(c) /\ result'[c] # "ok"
    <3>0. result \in [Op -> Outcomes]
      BY <1>0 DEF TypeInv, TypeOK
    <3>1. UNCHANGED <<kind, key, replicas>>
      BY <2>3, <3>0 DEF CreateNamespace, List, Delete, Get, Put, Answer,
         serverVars, fixed
    <3>2. \A x \in {"up", "down"} : /\ Took(x, k)' \subseteq Took(x, k)
                                    /\ MayHave(x, k) \subseteq MayHave(x, k)'
      BY <2>3, <3>1, CallKnows
    <3> QED BY <1>0, <3>1, <3>2, LessKnown
  <2> QED BY <1>2, <2>1, <2>2, <2>3 DEF Call
<1>3. ASSUME NEW j \in Key, Collect(j) PROVE Goal
  <2>0. replicas \in [Key -> Nat]
    BY <1>0 DEF TypeInv, TypeOK
  <2>1. /\ j # k /\ replicas'[k] = replicas[k]
        /\ UNCHANGED <<kind, key, pc, result>>
    BY <1>3, <2>0 DEF Collect, Exists, fixed, opVars
  <2>2. \A x \in {"up", "down"} : /\ Took(x, k)' = Took(x, k)
                                  /\ MayHave(x, k)' = MayHave(x, k)
    BY <2>1 DEF Took, MayHave, Scalings
  <2> QED BY <1>0, <2>1, <2>2, LessKnown
<1>4. ASSUME UNCHANGED <<kind, key, pc, result, replicas>> PROVE Goal
  <2>1. \A x \in {"up", "down"} : /\ Took(x, k)' = Took(x, k)
                                  /\ MayHave(x, k)' = MayHave(x, k)
    BY <1>4 DEF Took, MayHave, Scalings
  <2> QED BY <1>0, <1>4, <2>1, LessKnown
<1>5. ASSUME NEW j \in Key, StatusUpdate(j)
      PROVE  UNCHANGED <<kind, key, pc, result, replicas>>
  BY <1>5 DEF StatusUpdate, fixed, opVars
<1>6. UNCHANGED vars => UNCHANGED <<kind, key, pc, result, replicas>>
  BY DEF vars, fixed, opVars, serverVars
<1> QED BY <1>1, <1>2, <1>3, <1>4, <1>5, <1>6 DEF Next

\* No scaling is lost to another and none takes effect twice, whatever the
\* interleaving of reads, writes and retries: the replicas of a deployment
\* are those it was created with, plus the scalings that took effect.  Those
\* that got an answer are known from it, and a refusal (not found, a
\* conflict) means that nothing was changed.  The bounds are equal when
\* every call got an answer.  Going down, an Update stops at one replica:
\* from above the sum is exact only if the scale-downs cannot get there.
THEOREM ReplicasAreSum == Spec => []ReplicasAddUp
<1>1. Init => ReplicasAddUp
  <2> SUFFICES ASSUME Init, NEW k \in Key PROVE ~Exists(k)
    BY DEF ReplicasAddUp
  <2> QED BY DEF Init, Exists
<1>2. Inv /\ Inv' /\ ReplicasAddUp /\ [Next]_vars => ReplicasAddUp'
  BY ReplicasStep
<1> QED BY <1>1, <1>2, Invariance, PTL DEF Spec

-----------------------------------------------------------------------------
(***************************************************************************)
(* Where the operations come from: what Workload's generators have sent at *)
(* each place of their tables, whatever rounds of the loop came before.    *)
(***************************************************************************)

PreloadType ==
  /\ generator \in Generators /\ rate \in Rates /\ duration \in Durations
  /\ opCount \in Nat /\ opIndex \in Nat \ {0}
  /\ looping \in BOOLEAN /\ loopIdx \in Nat \ {0} /\ loopCounter \in Int
  /\ sent \in Nat /\ count \in [Kind -> Nat]
  /\ state \in {"running", "ended", "raised"}

\* The walk stays in the table or ends right behind it.  Only TPTestCRUD
\* loops, from its second entry to its fifth, and when it leaves the loop it
\* goes through the rest of it once more.
WalkInv ==
  /\ opIndex <= Len(Table) + 1
  /\ opIndex > Len(Table) => opCount = 0
  /\ looping => generator = "tptest" /\ loopIdx = 2 /\ opIndex \in 2..5

\* How many more scale-ups than scale-downs were sent when an entry begins.
Ahead ==
  IF generator = "timed"
  THEN IF opIndex \in {3, 4, 7, 8, 11, 12, 13, 14} THEN 1 ELSE 0
  ELSE IF opIndex \in {3, 4} /\ looping THEN 1
       ELSE IF opIndex > 5 \/ (opIndex = 5 /\ ~looping) THEN -1 ELSE 0

Ups == IF generator = "timed" THEN {2, 6, 10} ELSE {2}
Downs == IF generator = "timed" THEN {4, 8} ELSE {4}
LastWrite == IF generator = "timed" THEN 12 ELSE 6

\* What the current entry has added to it.
Added ==
  IF opCount = 0 THEN 0
  ELSE IF opIndex \in Ups THEN 1 ELSE IF opIndex \in Downs THEN -1 ELSE 0

Balance == count["u-u"] - count["u-d"]
BalanceInv ==
  /\ state = "running" => Balance = Ahead + Added
  /\ ScalingIsBalanced

\* The delete is sent by the entry behind the loop, and once.
DeleteInv ==
  state = "running" =>
    count["d"] = IF opIndex > LastWrite \/ (opIndex = LastWrite /\ opCount > 0)
                 THEN 1 ELSE 0

PreloadInv == PreloadType /\ WalkInv /\ BalanceInv /\ DeleteInv

-----------------------------------------------------------------------------
(* The tables.                                                             *)

\* An entry of either table, by its place: its operation, and that one of a
\* write is over after one operation.
LEMMA Entries ==
  ASSUME PreloadType
  PROVE  /\ generator \in {"timed", "tptest"}
         /\ Len(Table) = IF generator = "timed" THEN 13 ELSE 7
         /\ \A k \in 1..Len(Table) :
              /\ Table[k].op = IF k \in Ups THEN "u-u"
                               ELSE IF k \in Downs THEN "u-d"
                               ELSE IF k = LastWrite THEN "d" ELSE "r"
              /\ Table[k].cnt \in Nat \ {0}
              /\ Table[k].op # "r" => Table[k].cnt = 1
              /\ Table[k].start <=> generator = "tptest" /\ k = 2
              /\ Table[k].end <=> generator = "tptest" /\ k = 5
              /\ Table[k].loops \in Nat
<1>1. /\ generator \in {"timed", "tptest"} /\ rate \in Nat \ {0}
      /\ rate * 6 \in Nat \ {0} /\ rate * 200 \in Nat \ {0}
  BY GeneratorAssumption, NumberAssumption DEF PreloadType
<1>2. CASE generator = "timed"
  BY <1>2 DEF Table, TimedTable, Entry, Ups, Downs, LastWrite
<1>3. CASE generator = "tptest"
  <2>1. PICK a \in Nat \ {0}, b \in Nat \ {0} :
          Table = <<Entry("r", a),
                    [Entry("u-u", 1) EXCEPT !.start = TRUE, !.loops = a],
                    Entry("r", 4), Entry("u-d", 1),
                    [Entry("r", 4) EXCEPT !.end = TRUE], Entry("d", 1),
                    Entry("r", b)>>
    BY <1>1, <1>3 DEF Table, TPTestTable
  <2>2. /\ Len(Table) = 7
        /\ Table[1] = [op |-> "r", cnt |-> a, start |-> FALSE, loops |-> 0,
                       end |-> FALSE]
        /\ Table[2] = [op |-> "u-u", cnt |-> 1, start |-> TRUE, loops |-> a,
                       end |-> FALSE]
        /\ Table[3] = [op |-> "r", cnt |-> 4, start |-> FALSE, loops |-> 0,
                       end |-> FALSE]
        /\ Table[4] = [op |-> "u-d", cnt |-> 1, start |-> FALSE, loops |-> 0,
                       end |-> FALSE]
        /\ Table[5] = [op |-> "r", cnt |-> 4, start |-> FALSE, loops |-> 0,
                       end |-> TRUE]
        /\ Table[6] = [op |-> "d", cnt |-> 1, start |-> FALSE, loops |-> 0,
                       end |-> FALSE]
        /\ Table[7] = [op |-> "r", cnt |-> b, start |-> FALSE, loops |-> 0,
                       end |-> FALSE]
    BY <2>1 DEF Entry
  <2> QED BY <1>3, <2>2 DEF Ups, Downs, LastWrite
<1> QED BY <1>1, <1>2, <1>3

-----------------------------------------------------------------------------
(* One lemma per action.                                                   *)

\* Nothing was sent when preload begins.
LEMMA PreloadStarts ==
  ASSUME PreloadInit
  PROVE  PreloadInv
<1>1. PreloadType
  <2>1. count \in [Kind -> Nat]
    BY DEF PreloadInit
  <2>2. opCount = 0 /\ opIndex = 1 /\ looping = FALSE /\ loopIdx = 1
        /\ loopCounter = 0 /\ sent = 0 /\ state = "running"
        /\ generator \in Generators /\ rate \in Rates /\ duration \in Durations
    BY DEF PreloadInit
  <2>3. looping \in BOOLEAN
    BY <2>2
  <2>4. /\ opCount \in Nat /\ opIndex \in Nat \ {0} /\ loopIdx \in Nat \ {0}
        /\ loopCounter \in Int /\ sent \in Nat
    BY <2>2
  <2> QED BY <2>1, <2>2, <2>3, <2>4 DEF PreloadType
<1>2. WalkInv
  BY <1>1, Entries DEF PreloadInit, WalkInv
<1>3. Ahead = 0 /\ Added = 0 /\ Balance = 0
  BY DEF PreloadInit, Ahead, Added, Balance, Kind
<1>4. BalanceInv
  BY <1>3 DEF BalanceInv, ScalingIsBalanced, Balance
<1>5. DeleteInv
  BY DEF PreloadInit, DeleteInv, LastWrite, Kind
<1> QED BY <1>1, <1>2, <1>4, <1>5 DEF PreloadInv

\* An entry yields an operation, and a write no second one.
LEMMA YieldStep ==
  ASSUME PreloadInv, Yield
  PROVE  /\ PreloadInv'
         /\ count["d"] = 1 => \A k \in Kind \ {"r"} : count'[k] = count[k]
<1>1. /\ PreloadType /\ WalkInv /\ BalanceInv /\ DeleteInv
      /\ state = "running" /\ opIndex \in 1..Len(Table) /\ Len(Table) \in Nat
      /\ opCount < Table[opIndex].cnt /\ opCount' = opCount + 2
      /\ UNCHANGED <<params, opIndex, looping, loopIdx, loopCounter>>
  <2>1. PreloadType /\ Len(Table) \in Nat
    BY Entries DEF PreloadInv
  <2> QED BY <2>1 DEF PreloadInv, PreloadType, Yield, InTable, Current
<1>2. /\ Table' = Table /\ Ups' = Ups /\ Downs' = Downs /\ LastWrite' = LastWrite
      /\ Ahead' = Ahead
  BY <1>1 DEF params, Table, Ups, Downs, LastWrite, Ahead
<1>3. PICK op \in Kind :
        /\ op = Table[opIndex].op
        /\ op = IF opIndex \in Ups THEN "u-u"
                ELSE IF opIndex \in Downs THEN "u-d"
                ELSE IF opIndex = LastWrite THEN "d" ELSE "r"
        /\ op # "r" => opCount = 0
  BY <1>1, Entries DEF Kind, PreloadType
<1>4. \/ sent' = sent + 1 /\ state' = state
         /\ count' = [count EXCEPT ![op] = @ + 1]
      \/ state' = "ended" /\ UNCHANGED <<sent, count>>
  BY <1>3 DEF Yield, Current
<1>5. PreloadType'
  BY <1>1, <1>3, <1>4 DEF PreloadType, params
<1>6. WalkInv'
  BY <1>1, <1>2 DEF WalkInv, params
<1>7. /\ Ups \cap Downs = {} /\ LastWrite \notin Ups \cup Downs
      /\ opIndex \in Ups => Ahead = 0
      /\ opIndex \in Downs => Ahead \in {0, 1}
      /\ opIndex \in Nat /\ LastWrite \in Nat
  BY <1>1 DEF Ups, Downs, LastWrite, Ahead, PreloadType
<1>8. /\ count["u-u"] \in Nat /\ count["u-d"] \in Nat /\ count["d"] \in Nat
      /\ Balance = Ahead + Added /\ Balance \in -1..1
      /\ count["d"] = IF opIndex > LastWrite \/ (opIndex = LastWrite /\ opCount > 0)
                      THEN 1 ELSE 0
  BY <1>1 DEF PreloadType, Kind, BalanceInv, DeleteInv, ScalingIsBalanced,
     Balance
<1>9. /\ Added' = IF op = "u-u" THEN 1 ELSE IF op = "u-d" THEN -1 ELSE 0
      /\ op # "r" => Added = 0
      /\ op \in {"r", "d"} => Added = 0
      /\ Ahead \in -1..1
  <2>1. opCount \in Nat /\ opCount' # 0
    BY <1>1 DEF PreloadType
  <2> QED BY <1>1, <1>2, <1>3, <1>7, <2>1 DEF Added, Ahead
<1>10. BalanceInv'
  <2>1. CASE state' = "ended" /\ count' = count
    BY <1>8, <2>1 DEF BalanceInv, Balance, ScalingIsBalanced
  <2>2. CASE count' = [count EXCEPT ![op] = @ + 1]
    <3>1. Balance' = IF op = "u-u" THEN Balance + 1
                     ELSE IF op = "u-d" THEN Balance - 1 ELSE Balance
      BY <1>1, <1>3, <1>8, <2>2 DEF Balance, Kind, PreloadType
    <3>2. Balance' = Ahead' + Added' /\ Balance' \in -1..1
      BY <1>2, <1>3, <1>7, <1>8, <1>9, <3>1 DEF Kind
    <3> QED BY <3>2 DEF BalanceInv, Balance, ScalingIsBalanced
  <2> QED BY <1>4, <2>1, <2>2
<1>11. /\ DeleteInv'
       /\ count["d"] = 1 => \A k \in Kind \ {"r"} : count'[k] = count[k]
  <2>1. CASE state' = "ended" /\ count' = count
    BY <2>1 DEF DeleteInv
  <2>2. CASE count' = [count EXCEPT ![op] = @ + 1]
    <3>1. opIndex' = opIndex /\ opCount \in Nat /\ opCount' = opCount + 2
      BY <1>1 DEF PreloadType
    <3>2. count'["d"] = IF op = "d" THEN count["d"] + 1 ELSE count["d"]
      BY <1>1, <1>3, <2>2 DEF Kind, PreloadType
    <3>3. DeleteInv'
      BY <1>2, <1>3, <1>7, <1>8, <3>1, <3>2 DEF DeleteInv
    <3>4. count["d"] = 1 => op = "r"
      <4>1. opIndex \in Ups \cup Downs => opIndex < LastWrite
        BY DEF Ups, Downs, LastWrite
      <4> QED BY <1>3, <1>7, <1>8, <4>1
    <3>5. count["d"] = 1 => \A k \in Kind \ {"r"} : count'[k] = count[k]
      BY <1>1, <2>2, <3>4 DEF PreloadType, Kind
    <3> QED BY <3>3, <3>5
  <2> QED BY <1>4, <2>1, <2>2
<1> QED BY <1>5, <1>6, <1>10, <1>11 DEF PreloadInv

\* The next entry begins with the balance that this one left, also where
\* the loop goes back or is left.
LEMMA AdvanceStep ==
  ASSUME PreloadInv, Advance
  PROVE  PreloadInv'
<1>1. /\ PreloadType /\ WalkInv /\ BalanceInv /\ DeleteInv
      /\ state = "running" /\ opIndex \in 1..Len(Table)
      /\ opCount' = 0 /\ UNCHANGED <<params, sent, count, state>>
      /\ generator \in {"timed", "tptest"}
      /\ Len(Table) = IF generator = "timed" THEN 13 ELSE 7
      /\ opCount > 0
  <2>1. PreloadType /\ opIndex \in 1..Len(Table)
    BY Entries DEF PreloadInv, PreloadType, Advance, InTable
  <2> QED BY <2>1, Entries DEF PreloadInv, PreloadType, Advance, Current
<1>2. /\ Len(Table') = Len(Table) /\ Ups' = Ups /\ Downs' = Downs
      /\ LastWrite' = LastWrite /\ generator' = generator
  BY <1>1 DEF params, Table, Ups, Downs, LastWrite
<1>3. \/ /\ generator = "timed" /\ opIndex' = opIndex + 1
         /\ UNCHANGED <<looping, loopIdx, loopCounter>>
      \/ /\ generator = "tptest" /\ opIndex = 5 /\ looping
         /\ opIndex' = IF looping' THEN 2 ELSE 3
         /\ looping' \in BOOLEAN /\ loopIdx' = loopIdx
         /\ loopCounter' = loopCounter - 1
      \/ /\ generator = "tptest" /\ opIndex = 2 /\ ~looping
         /\ opIndex' = 3 /\ looping' = TRUE /\ loopIdx' = 2
         /\ loopCounter' \in Nat
      \/ /\ generator = "tptest" /\ opIndex' = opIndex + 1
         /\ opIndex = 2 => looping
         /\ opIndex = 5 => ~looping
         /\ UNCHANGED <<looping, loopIdx, loopCounter>>
  <2>1. /\ Current.start <=> generator = "tptest" /\ opIndex = 2
        /\ Current.end <=> generator = "tptest" /\ opIndex = 5
        /\ Current.loops \in Nat
    BY <1>1, Entries DEF Current
  <2>2. looping \in BOOLEAN /\ loopCounter \in Int /\ opIndex \in Nat
        /\ (looping => generator = "tptest" /\ loopIdx = 2)
    BY <1>1 DEF PreloadType, WalkInv
  <2>3. CASE Current.end /\ looping
    <3>1. LeaveOrRepeat
      BY <2>3 DEF Advance
    <3>2. /\ loopCounter' = loopCounter - 1 /\ loopIdx' = loopIdx
          /\ opIndex' = loopIdx + (IF loopCounter - 1 <= 0 THEN 1 ELSE 0)
          /\ looping' = ~(loopCounter - 1 <= 0)
      BY <3>1 DEF LeaveOrRepeat, LoopEnds
    <3>3. /\ looping' \in BOOLEAN
          /\ looping' <=> ~(loopCounter - 1 <= 0)
      BY <3>2
    <3>4. opIndex' = IF looping' THEN 2 ELSE 3
      BY <2>2, <2>3, <3>2, <3>3
    <3> QED BY <2>1, <2>3, <3>2, <3>3, <3>4
  <2>4. CASE ~(Current.end /\ looping)
    <3>1. GoOn
      BY <2>4 DEF Advance
    <3> QED BY <1>1, <2>1, <2>2, <2>4, <3>1 DEF GoOn
  <2> QED BY <2>3, <2>4
<1>4. PreloadType'
  <2>1. /\ loopIdx \in Nat \ {0} /\ opIndex \in Nat \ {0} /\ loopCounter \in Int
        /\ looping \in BOOLEAN
    BY <1>1 DEF PreloadType
  <2>2. /\ opIndex' \in Nat \ {0} /\ loopIdx' \in Nat \ {0}
        /\ loopCounter' \in Int
    BY <1>3, <2>1
  <2>3. looping' \in BOOLEAN
    BY <1>3, <2>1
  <2> QED BY <1>1, <2>2, <2>3 DEF PreloadType, params
<1>5. WalkInv'
  BY <1>1, <1>2, <1>3 DEF WalkInv, PreloadType
<1>6. BalanceInv'
  <2>1. Ahead' = Ahead + Added /\ Added' = 0
    <3>1. looping => opIndex \in 2..5
      BY <1>1 DEF WalkInv
    <3> QED BY <1>1, <1>2, <1>3, <3>1
            DEF Ahead, Added, Ups, Downs, PreloadType
  <2>2. Balance' = Balance /\ Balance = Ahead + Added /\ Balance \in -1..1
    BY <1>1 DEF BalanceInv, ScalingIsBalanced, Balance
  <2> QED BY <2>1, <2>2 DEF BalanceInv, ScalingIsBalanced, Balance
<1>7. DeleteInv'
  BY <1>1, <1>2, <1>3 DEF DeleteInv, LastWrite, PreloadType
<1> QED BY <1>4, <1>5, <1>6, <1>7 DEF PreloadInv

\* preload ends, or nothing happens.
LEMMA PreloadStays ==
  ASSUME PreloadInv,
         OutOfRange \/ UNCHANGED preloadVars
  PROVE  PreloadInv'
<1>1. UNCHANGED <<params, walk, sent, count>>
      /\ (state' = "raised" \/ state' = state)
  BY DEF OutOfRange, preloadVars
<1> QED
  BY <1>1 DEF PreloadInv, PreloadType, WalkInv, BalanceInv, DeleteInv, params,
     walk, Table, Ahead, Added, Ups, Downs, LastWrite, Balance, ScalingIsBalanced

\* The invariant, for both generators and every rate and duration.
THEOREM PreloadInvariant == PreloadSpec => []PreloadInv
<1>1. PreloadInv /\ [PreloadNext]_preloadVars => PreloadInv'
  BY YieldStep, AdvanceStep, PreloadStays DEF PreloadNext
<1> QED BY <1>1, PreloadStarts, PTL DEF PreloadSpec

\* Scale-ups and scale-downs alternate, also where TPTestCRUD leaves its
\* loop in the middle: at any time they differ by one at most.
THEOREM BalanceKept == PreloadSpec => []ScalingIsBalanced
<1>1. PreloadInv => ScalingIsBalanced
  BY DEF PreloadInv, BalanceInv
<1> QED BY <1>1, PreloadInvariant, PTL

\* Nothing but reads is sent once the deployment was deleted.
THEOREM DeleteIsLast == PreloadSpec => OnlyReadsAfterDelete
<1>1. PreloadInv /\ [PreloadNext]_preloadVars =>
        [count["d"] = 1 => \A k \in Kind \ {"r"} : count'[k] = count[k]]_preloadVars
  <2>1. Advance \/ OutOfRange \/ UNCHANGED preloadVars => count' = count
    BY DEF Advance, OutOfRange, preloadVars
  <2> QED BY <2>1, YieldStep DEF PreloadNext
<1> QED BY <1>1, PreloadInvariant, PTL DEF PreloadSpec, OnlyReadsAfterDelete

-----------------------------------------------------------------------------
(* How far the tables reach.                                               *)

\* The operations of a whole table, one for each count of two.  The padding
\* of TimedCRUD is a constant, that of TPTestCRUD grows with the rate.
TableSize == IF generator = "timed" THEN 2656 ELSE 139 * rate + 6

\* What was sent before the current entry began.
GoneTimed ==
  CASE opIndex = 1 -> 0 [] opIndex = 2 -> 150 [] opIndex = 3 -> 151
    [] opIndex = 4 -> 251 [] opIndex = 5 -> 252 [] opIndex = 6 -> 352
    [] opIndex = 7 -> 353 [] opIndex = 8 -> 453 [] opIndex = 9 -> 454
    [] opIndex = 10 -> 554 [] opIndex = 11 -> 555 [] opIndex = 12 -> 655
    [] opIndex = 13 -> 656 [] OTHER -> 2656

InRound ==
  CASE opIndex = 2 -> 0 [] opIndex = 3 -> 1 [] opIndex = 4 -> 3 [] OTHER -> 4

GoneTPTest ==
  IF looping THEN 39 * rate - 6 * loopCounter + InRound
  ELSE CASE opIndex = 1 -> 0 [] opIndex = 2 -> 3 * rate
         [] opIndex = 3 -> 39 * rate [] opIndex = 4 -> 39 * rate + 2
         [] opIndex = 5 -> 39 * rate + 3 [] opIndex = 6 -> 39 * rate + 5
         [] opIndex = 7 -> 39 * rate + 6 [] OTHER -> TableSize

Gone == IF generator = "timed" THEN GoneTimed ELSE GoneTPTest

\* Two counts for each operation, and an entry is left when its count is
\* reached or passed by one.
SentInv ==
  /\ state = "running" =>
       /\ \E k \in 0..opCount : opCount = 2 * k /\ sent = Gone + k
       /\ InTable => opCount <= Current.cnt + 1
       /\ looping => loopCounter \in 1..(6 * rate)
       /\ sent <= duration
  /\ state = "raised" => duration >= TableSize
  /\ state = "ended" => duration < TableSize

\* The counts of the entries.
LEMMA Counts ==
  ASSUME PreloadType
  PROVE  /\ rate \in Nat \ {0} /\ duration \in Nat
         /\ generator = "timed" => \A k \in 1..13 :
              Table[k].cnt = IF k = 1 THEN 300 ELSE IF k = 13 THEN 4000
                             ELSE IF k \in {3, 5, 7, 9, 11} THEN 200 ELSE 1
         /\ generator = "tptest" =>
              /\ Table[2].loops = 6 * rate
              /\ \A k \in 1..7 :
                   Table[k].cnt = IF k = 1 THEN 6 * rate
                                  ELSE IF k = 7 THEN 200 * rate
                                  ELSE IF k \in {3, 5} THEN 4 ELSE 1
<1>1. /\ generator \in {"timed", "tptest"} /\ rate \in Nat \ {0}
      /\ duration \in Nat /\ rate * 6 = 6 * rate /\ rate * 200 = 200 * rate
      /\ rate * 6 \in Nat /\ rate * 200 \in Nat
  BY GeneratorAssumption, NumberAssumption DEF PreloadType
<1>2. CASE generator = "timed"
  BY <1>1, <1>2 DEF Table, TimedTable, Entry
<1>3. CASE generator = "tptest"
  <2>1. PICK a \in Nat, b \in Nat :
          /\ a = rate * 6 /\ b = rate * 200
          /\ Table = <<Entry("r", a),
                    [Entry("u-u", 1) EXCEPT !.start = TRUE, !.loops = a],
                    Entry("r", 4), Entry("u-d", 1),
                    [Entry("r", 4) EXCEPT !.end = TRUE], Entry("d", 1),
                    Entry("r", b)>>
    BY <1>1, <1>3 DEF Table, TPTestTable
  <2>2. /\ Table[1].cnt = a /\ Table[2].cnt = 1 /\ Table[3].cnt = 4
        /\ Table[4].cnt = 1 /\ Table[5].cnt = 4 /\ Table[6].cnt = 1
        /\ Table[7].cnt = b /\ Table[2].loops = a
    BY <2>1 DEF Entry
  <2> QED BY <1>1, <1>3, <2>1, <2>2
<1> QED BY <1>1, <1>2, <1>3

\* An entry that has an operation left is not the end of the table.
LEMMA MoreToSend ==
  ASSUME PreloadInv, SentInv, Yield
  PROVE  sent < TableSize
<1>1. /\ PreloadType /\ WalkInv /\ state = "running"
      /\ opIndex \in 1..Len(Table) /\ opCount < Current.cnt
  BY Entries DEF PreloadInv, Yield, InTable, PreloadType
<1>2. PICK k \in Nat : opCount = 2 * k /\ sent = Gone + k
  BY <1>1 DEF SentInv, PreloadType
<1>3. /\ generator \in {"timed", "tptest"}
      /\ Len(Table) = IF generator = "timed" THEN 13 ELSE 7
      /\ rate \in Nat \ {0} /\ opIndex \in Nat /\ looping \in BOOLEAN
  BY <1>1, Entries, Counts DEF PreloadType
<1>4. CASE generator = "timed"
  <2>1. Current.cnt = IF opIndex = 1 THEN 300 ELSE IF opIndex = 13 THEN 4000
                      ELSE IF opIndex \in {3, 5, 7, 9, 11} THEN 200 ELSE 1
    BY <1>1, <1>3, <1>4, Counts DEF Current
  <2>2. k < (IF opIndex = 13 THEN 2000 ELSE 150)
    BY <1>1, <1>2, <2>1
  <2>3. GoneTimed <= 656
    BY <1>1, <1>3, <1>4 DEF GoneTimed
  <2>4. opIndex # 13 => GoneTimed <= 655
    BY <1>1, <1>3, <1>4 DEF GoneTimed
  <2>5. GoneTimed \in Nat
    BY DEF GoneTimed
  <2> QED BY <1>2, <1>4, <2>2, <2>3, <2>4, <2>5 DEF Gone, TableSize
<1>5. CASE generator = "tptest"
  <2>1. Current.cnt = IF opIndex = 1 THEN 6 * rate
                      ELSE IF opIndex = 7 THEN 200 * rate
                      ELSE IF opIndex \in {3, 5} THEN 4 ELSE 1
    BY <1>1, <1>3, <1>5, Counts DEF Current
  <2>2. k < (IF opIndex = 1 THEN 3 * rate ELSE IF opIndex = 7 THEN 100 * rate
             ELSE 2)
    BY <1>1, <1>2, <1>3, <2>1
  <2>3. looping => opIndex \in 2..5 /\ loopCounter \in 1..(6 * rate)
    BY <1>1 DEF WalkInv, SentInv
  <2>4. /\ GoneTPTest \in Int
        /\ opIndex = 1 => GoneTPTest = 0
        /\ GoneTPTest <= 39 * rate + 6
    BY <1>1, <1>3, <1>5, <2>3 DEF GoneTPTest, InRound
  <2> QED BY <1>2, <1>3, <1>5, <2>2, <2>4 DEF Gone, TableSize
<1> QED BY <1>3, <1>4, <1>5

\* Another operation of the entry is sent, or preload ends.
LEMMA YieldCounts ==
  ASSUME PreloadInv, SentInv, Yield
  PROVE  SentInv'
<1>1. /\ PreloadType /\ state = "running" /\ InTable
      /\ opCount < Current.cnt /\ opCount' = opCount + 2
      /\ UNCHANGED <<params, opIndex, looping, loopIdx, loopCounter>>
  BY DEF PreloadInv, Yield
<1>2. CASE duration <= sent /\ state' = "ended"
  <2>1. sent < TableSize /\ duration' = duration /\ TableSize' = TableSize
    BY <1>1, MoreToSend DEF params, TableSize
  <2>2. sent \in Nat /\ duration \in Nat /\ TableSize \in Nat
    BY <1>1, Counts DEF PreloadType, TableSize
  <2> QED BY <1>2, <2>1, <2>2 DEF SentInv
<1>3. CASE sent < duration /\ sent' = sent + 1 /\ state' = state
  <2>1. PICK k \in Nat : opCount = 2 * k /\ sent = Gone + k
    BY <1>1 DEF SentInv
  <2>2. /\ Gone' = Gone /\ InTable' = InTable /\ Current' = Current
        /\ rate' = rate /\ duration' = duration /\ looping' = looping
        /\ loopCounter' = loopCounter
    BY <1>1 DEF params, Gone, GoneTimed, GoneTPTest, InRound, TableSize,
       InTable, Current, Table
  <2>3. Current.cnt \in Nat /\ opCount \in Nat /\ sent \in Nat /\ duration \in Nat
    <3>1. opIndex \in 1..Len(Table)
      BY <1>1, Entries DEF PreloadType, InTable
    <3> QED BY <1>1, <3>1, Entries, Counts DEF PreloadType, Current
  <2>4. opCount' = 2 * (k + 1) /\ sent' = sent + 1 /\ k + 1 \in Nat
    BY <1>1, <1>3, <2>1
  <2>5. Gone \in Int
    BY <1>1, Counts DEF Gone, GoneTimed, GoneTPTest, InRound, TableSize,
       PreloadType
  <2>6. sent' = Gone' + (k + 1)
    BY <2>1, <2>2, <2>3, <2>4, <2>5
  <2>7. \E j \in Nat : opCount' = 2 * j /\ sent' = Gone' + j
    BY <2>4, <2>6
  <2>8. opCount' <= Current'.cnt + 1 /\ sent' <= duration'
    BY <1>1, <1>3, <2>2, <2>3
  <2> QED BY <1>1, <1>3, <2>2, <2>7, <2>8 DEF SentInv
<1> QED BY <1>1, <1>2, <1>3, Counts DEF Yield, PreloadType

\* The entries sum up to what was sent.
LEMMA AdvanceCounts ==
  ASSUME PreloadInv, SentInv, Advance
  PROVE  SentInv'
<1>1. /\ PreloadType /\ WalkInv /\ state = "running"
      /\ opIndex \in 1..Len(Table)
      /\ opCount >= Current.cnt /\ opCount <= Current.cnt + 1
      /\ opCount' = 0 /\ UNCHANGED <<params, sent, count, state>>
  BY Entries DEF PreloadInv, SentInv, Advance, InTable, PreloadType
<1>2. PICK k \in Nat : opCount = 2 * k /\ sent = Gone + k
  BY <1>1 DEF SentInv
<1>3. /\ generator \in {"timed", "tptest"}
      /\ Len(Table) = IF generator = "timed" THEN 13 ELSE 7
      /\ rate \in Nat \ {0} /\ opIndex \in Nat /\ loopCounter \in Int
      /\ looping \in BOOLEAN /\ sent \in Nat
      /\ generator' = generator /\ rate' = rate /\ duration' = duration
      /\ sent' = sent /\ state' = state
  BY <1>1, Entries, Counts, SMTT(30) DEF PreloadType, params
<1>4. Current.cnt \in Nat
  BY <1>1, Entries DEF Current
<1>5. PreloadInv'
  BY AdvanceStep
<1>6. InTable' => opCount' <= Current'.cnt + 1
  <2>1. Table' = Table /\ opIndex' \in Nat \ {0}
    BY <1>1, <1>5 DEF PreloadInv, PreloadType, params, Table
  <2>2. ASSUME InTable' PROVE Table[opIndex'].cnt \in Nat
    BY <1>1, <1>3, <2>1, <2>2, Entries DEF InTable
  <2> QED BY <1>1, <2>1, <2>2 DEF Current
<1>7. CASE generator = "timed"
  <2>1. /\ opIndex' = opIndex + 1 /\ looping' = looping /\ ~looping
    <3>1. ~Current.start /\ ~Current.end
      BY <1>1, <1>7, Entries DEF Current
    <3> QED BY <1>1, <1>7, <3>1 DEF Advance, GoOn, WalkInv
  <2>2. Current.cnt = IF opIndex = 1 THEN 300 ELSE IF opIndex = 13 THEN 4000
                      ELSE IF opIndex \in {3, 5, 7, 9, 11} THEN 200 ELSE 1
    BY <1>1, <1>3, <1>7, Counts DEF Current
  <2>3. k = IF opIndex = 1 THEN 150 ELSE IF opIndex = 13 THEN 2000
            ELSE IF opIndex \in {3, 5, 7, 9, 11} THEN 100 ELSE 1
    BY <1>1, <1>2, <2>2
  <2>4. GoneTimed' = GoneTimed + k
    BY <1>1, <1>3, <1>7, <2>1, <2>3 DEF GoneTimed
  <2>5. Gone' = GoneTimed' /\ Gone = GoneTimed /\ GoneTimed \in Nat
    BY <1>3, <1>7 DEF Gone, GoneTimed
  <2>6. sent' = Gone' + 0
    BY <1>2, <1>3, <2>4, <2>5
  <2> QED BY <1>1, <1>3, <1>6, <2>1, <2>6 DEF SentInv
<1>8. CASE generator = "tptest"
  <2>1. /\ Current.cnt = IF opIndex = 1 THEN 6 * rate
                         ELSE IF opIndex = 7 THEN 200 * rate
                         ELSE IF opIndex \in {3, 5} THEN 4 ELSE 1
        /\ Current.start <=> opIndex = 2
        /\ Current.end <=> opIndex = 5
        /\ opIndex = 2 => Current.loops = 6 * rate
    BY <1>1, <1>3, <1>8, Counts, Entries DEF Current
  <2>2. k = IF opIndex = 1 THEN 3 * rate ELSE IF opIndex = 7 THEN 100 * rate
            ELSE IF opIndex \in {3, 5} THEN 2 ELSE 1
    BY <1>1, <1>2, <1>3, <2>1
  <2>3. looping => opIndex \in 2..5 /\ loopIdx = 2 /\ loopCounter \in 1..(6 * rate)
    BY <1>1 DEF WalkInv, SentInv
  <2>4. Gone = GoneTPTest /\ Gone' = GoneTPTest' /\ TableSize' = TableSize
        /\ TableSize = 139 * rate + 6
    BY <1>3, <1>8 DEF Gone, TableSize
  <2>5. /\ GoneTPTest' = GoneTPTest + k
        /\ looping' => loopCounter' \in 1..(6 * rate)
    <3>1. CASE opIndex = 5 /\ looping /\ loopCounter > 1
      <4>1. opIndex' = 2 /\ looping' = TRUE /\ loopCounter' = loopCounter - 1
        <5>1. LeaveOrRepeat
          BY <2>1, <3>1 DEF Advance
        <5>2. /\ loopCounter' = loopCounter - 1
              /\ opIndex' = loopIdx + (IF loopCounter - 1 <= 0 THEN 1 ELSE 0)
              /\ looping' = ~(loopCounter - 1 <= 0)
          BY <5>1 DEF LeaveOrRepeat, LoopEnds
        <5>3. ~(loopCounter - 1 <= 0)
          BY <1>3, <3>1
        <5>4. looping' = TRUE
          BY <5>2, <5>3
        <5> QED BY <1>3, <2>3, <3>1, <5>2, <5>3, <5>4
      <4> QED BY <1>3, <2>2, <2>3, <3>1, <4>1 DEF GoneTPTest, InRound
    <3>2. CASE opIndex = 5 /\ looping /\ loopCounter = 1
      <4>1. opIndex' = 3 /\ looping' = FALSE /\ loopCounter' = 0
        <5>1. LeaveOrRepeat
          BY <2>1, <3>2 DEF Advance
        <5>2. /\ loopCounter' = loopCounter - 1
              /\ opIndex' = loopIdx + (IF loopCounter - 1 <= 0 THEN 1 ELSE 0)
              /\ looping' = ~(loopCounter - 1 <= 0)
          BY <5>1 DEF LeaveOrRepeat, LoopEnds
        <5>3. (loopCounter - 1 <= 0)
          BY <1>3, <3>2
        <5>4. looping' = FALSE
          BY <5>2, <5>3
        <5> QED BY <1>3, <2>3, <3>2, <5>2, <5>3, <5>4
      <4> QED BY <1>3, <2>2, <2>3, <3>2, <4>1 DEF GoneTPTest, InRound
    <3>3. CASE opIndex = 2 /\ ~looping
      <4>1. opIndex' = 3 /\ looping' = TRUE /\ loopCounter' = 6 * rate
        BY <1>3, <2>1, <3>3 DEF Advance, GoOn
      <4> QED BY <1>3, <2>2, <3>3, <4>1 DEF GoneTPTest, InRound
    <3>4. CASE looping /\ opIndex # 5
      <4>1. opIndex' = opIndex + 1 /\ looping' = TRUE /\ loopCounter' = loopCounter
        BY <1>3, <2>1, <3>4 DEF Advance, GoOn
      <4> QED BY <1>3, <2>2, <2>3, <3>4, <4>1 DEF GoneTPTest, InRound
    <3>5. CASE ~looping /\ opIndex # 2
      <4>1. opIndex' = opIndex + 1 /\ looping' = FALSE
        BY <1>3, <2>1, <3>5 DEF Advance, GoOn
      <4> QED BY <1>1, <1>3, <1>8, <2>2, <2>4, <3>5, <4>1
              DEF GoneTPTest, InRound
    <3> QED BY <1>3, <2>3, <3>1, <3>2, <3>3, <3>4, <3>5
  <2>6. GoneTPTest \in Int
    BY <1>3, <2>4 DEF GoneTPTest, InRound
  <2>7. sent' = Gone' + 0
    BY <1>2, <1>3, <2>4, <2>5, <2>6
  <2> QED BY <1>1, <1>3, <1>6, <2>5, <2>7 DEF SentInv
<1> QED BY <1>3, <1>7, <1>8

\* preload raises if the test lasts as long as the table or longer, and ends
\* if it does not.
LEMMA SentStep ==
  ASSUME PreloadInv, SentInv, [PreloadNext]_preloadVars
  PROVE  SentInv'
<1>1. CASE Yield
  BY <1>1, YieldCounts
<1>2. CASE Advance
  BY <1>2, AdvanceCounts
<1>3. CASE OutOfRange
  <2>1. PreloadType /\ WalkInv /\ ~InTable /\ state = "running"
        /\ state' = "raised" /\ params' = params
    BY <1>3 DEF PreloadInv, OutOfRange
  <2>2. /\ opCount = 0 /\ sent <= duration
        /\ \E k \in Nat : 0 = 2 * k /\ sent = Gone + k
    BY <2>1, Entries DEF WalkInv, InTable, SentInv, PreloadType
  <2>3. /\ generator \in {"timed", "tptest"} /\ rate \in Nat /\ ~looping
        /\ opIndex = IF generator = "timed" THEN 14 ELSE 8
    <3>1. /\ generator \in {"timed", "tptest"} /\ rate \in Nat
          /\ Len(Table) = IF generator = "timed" THEN 13 ELSE 7
          /\ opIndex \in Nat
      BY <2>1, Entries, Counts DEF PreloadType
    <3>2. opIndex = Len(Table) + 1
      BY <2>1, <3>1 DEF WalkInv, InTable
    <3>3. ~looping
      BY <2>1, <3>1, <3>2 DEF WalkInv
    <3> QED BY <3>1, <3>2, <3>3
  <2>4. Gone = TableSize /\ TableSize \in Nat
    BY <2>3 DEF Gone, GoneTimed, GoneTPTest, TableSize
  <2>5. duration >= TableSize
    BY <2>1, <2>2, <2>4, Counts
  <2>6. duration' = duration /\ TableSize' = TableSize
    BY <2>1 DEF params, TableSize
  <2> QED BY <2>1, <2>5, <2>6 DEF SentInv
<1>4. CASE UNCHANGED preloadVars
  BY <1>4 DEF SentInv, preloadVars, params, walk, Gone, GoneTimed, GoneTPTest,
     InRound, TableSize, InTable, Current, Table
<1> QED BY <1>1, <1>2, <1>3, <1>4 DEF PreloadNext

\* The padding suffices, and preload gets to the end of the test, if and only
\* if the test is shorter than the table: for TimedCRUD fewer than 2656
\* operations, for TPTestCRUD fewer than 139 seconds' and six.
THEOREM PaddingIsExact ==
  PreloadSpec => [](/\ duration < TableSize => PaddingSuffices
                    /\ duration >= TableSize => state # "ended")
<1>1. PreloadInit => SentInv
  <2> SUFFICES ASSUME PreloadInit PROVE SentInv
    OBVIOUS
  <2>1. PreloadInv /\ PreloadType
    BY PreloadStarts DEF PreloadInv
  <2>2. /\ state = "running" /\ opIndex = 1 /\ opCount = 0 /\ sent = 0
        /\ looping = FALSE /\ Gone = 0
    BY DEF PreloadInit, Gone, GoneTimed, GoneTPTest
  <2>3. Current.cnt \in Nat /\ duration \in Nat
    <3>1. opIndex \in 1..Len(Table)
      BY <2>1, <2>2, Entries
    <3> QED BY <2>1, <3>1, Entries, Counts DEF Current
  <2>4. \E k \in 0..opCount : opCount = 2 * k /\ sent = Gone + k
    BY <2>2
  <2> QED BY <2>2, <2>3, <2>4 DEF SentInv
<1>2. PreloadInv /\ SentInv /\ [PreloadNext]_preloadVars => SentInv'
  BY SentStep
<1>3. PreloadInv /\ SentInv =>
        /\ duration < TableSize => PaddingSuffices
        /\ duration >= TableSize => state # "ended"
  <2> SUFFICES ASSUME PreloadInv, SentInv
               PROVE  /\ duration < TableSize => state # "raised"
                      /\ duration >= TableSize => state # "ended"
    BY DEF PaddingSuffices
  <2>1. duration \in Nat /\ TableSize \in Nat
    BY Counts DEF PreloadInv, TableSize
  <2> QED BY <2>1 DEF SentInv
<1> QED BY <1>1, <1>2, <1>3, PreloadInvariant, PTL DEF PreloadSpec

=============================================================================
