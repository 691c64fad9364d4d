----------------------------- MODULE K8sClient -----------------------------
(***************************************************************************)
(* The Kubernetes clients of a test (systems/kubernetes/clients/simple):   *)
(* the load generator deals the prerequisites and the timed operations     *)
(* round-robin to nclients processes.   A process performs its            *)
(* prerequisites one after the other; once every process is ready the      *)
(* timed operations run concurrently, each in a goroutine of its own       *)
(* (GoClient), all sharing the two interface maps of their process.        *)
(*                                                                         *)
(* The API server is external: it is modelled from the calls the client    *)
(* makes, including the optimistic concurrency of Update, answers that     *)
(* never arrive, and the controllers that write a deployment's status      *)
(* (MaxStatus bounds them) and collect a deleted one.  The workloads put   *)
(* every deployment in one namespace, so a map either has it or not.       *)
(***************************************************************************)
EXTENDS Integers, FiniteSets

CONSTANTS
  MaxClients,    \* most client processes
  MaxKey,        \* --max-key: deployments created as prerequisites
  NumTimed,      \* timed operations
  Workloads,     \* the kinds of the timed operations: sequences of them
  Steps,         \* attempts of retry.RetryOnConflict (DefaultRetry.Steps)
  InitReplicas,  \* the replicas of testdep.json
  Up, Down,      \* how far an update scales up or down
  MaxStatus      \* bound: status writes of the deployment controller

ASSUME CountAssumption ==
  /\ {MaxClients, MaxKey, Steps, InitReplicas} \subseteq Nat \ {0}
  /\ {NumTimed, MaxStatus, Up, Down} \subseteq Nat

ASSUME WorkloadAssumption ==
  Workloads \subseteq [1..NumTimed -> {"read", "up", "down", "delete"}]

VARIABLES
  kind,     \* the kind of each operation
  key,      \* the deployment each operation is about
  nclients, \* number_clients: client processes
  ncpr,     \* --new_client_per_request
  pc,       \* where each operation is
  got,      \* Update: the copy of the deployment read last
  base,     \* history: the version of the first copy Update read
  tries,    \* Update: the attempts that ended in a conflict
  result,   \* the API server's answer, then what the operation reports
  cached,   \* the interface maps that hold the namespace
  dead,     \* for each process: the map whose race ended it, or "no"
  ns,       \* API server: does the namespace exist
  replicas, \* API server: spec.replicas of each deployment, 0 if absent
  version,  \* API server: resourceVersion of each deployment
  doomed,   \* API server: deployments in foreground deletion
  nstatus   \* status writes so far

opVars == <<pc, got, base, tries, result>>
mapVars == <<cached, dead>>
serverVars == <<ns, replicas, version, doomed, nstatus>>
fixed == <<kind, key, nclients, ncpr>>
vars == <<fixed, opVars, mapVars, serverVars>>

Key == 1..MaxKey
NumPrereqs == MaxKey + 1
Prereq == 1..NumPrereqs
Timed == NumPrereqs + 1 .. NumPrereqs + NumTimed
Op == Prereq \union Timed

(***************************************************************************)
(* The operations and the processes they go to                             *)
(***************************************************************************)

\* The replicaDelta of an update.
Delta == [up |-> Up, down |-> -Down]

\* The namespace first, then the deployments.
PrereqKind(o) == IF o = 1 THEN "namespace" ELSE "create"

\* preload deals prerequisites, Workload.workload timed operations, in turn.
Owner(o) ==
  1 + ((IF o \in Prereq THEN o - 1 ELSE o - NumPrereqs - 1) % nclients)

Process == 1..MaxClients

\* Who owns the maps an operation uses: its process, or the client created
\* for this request alone.
Holder(o) == IF ncpr /\ o \in Timed THEN MaxClients + o ELSE Owner(o)

\* Read uses PodIntfs, the operations on deployments DeploymentIntfs.
IntfMap(o) == IF kind[o] = "read" THEN "pod" ELSE "dep"

Alive(o) == dead[Owner(o)] = "no"

NoCopy == [replicas |-> 0, version |-> 0]

Init ==
  /\ \E w \in Workloads :
       kind = [o \in Op |-> IF o \in Prereq THEN PrereqKind(o)
                           ELSE w[o - NumPrereqs]]
  /\ \E rand \in [Timed -> Key] :
       key = [o \in Op |-> IF o \in Timed THEN rand[o]
                          ELSE IF o = 1 THEN 1 ELSE o - 1]
  /\ nclients \in Process
  /\ ncpr \in BOOLEAN
  /\ pc = [o \in Op |-> "todo"]
  /\ got = [o \in Op |-> NoCopy]
  /\ base = [o \in Op |-> 0]
  /\ tries = [o \in Op |-> 0]
  /\ result = [o \in Op |-> "none"]
  /\ cached = {}
  /\ dead = [p \in Process |-> "no"]
  /\ ns = FALSE
  /\ replicas = [k \in Key |-> 0]
  /\ version = [k \in Key |-> 0]
  /\ doomed = {}
  /\ nstatus = 0

GoTo(o, l) == pc' = [pc EXCEPT ![o] = l]

\* The operation is over and its local variables are gone.
Finish(o, r) ==
  /\ GoTo(o, "done")
  /\ result' = [result EXCEPT ![o] = r]
  /\ got' = [got EXCEPT ![o] = NoCopy]
  /\ base' = [base EXCEPT ![o] = 0]
  /\ tries' = [tries EXCEPT ![o] = 0]

(***************************************************************************)
(* Getting hold of the interface: two maps without a lock                  *)
(***************************************************************************)

\* Mutant: prerequisites are performed in goroutines, like timed operations.
Begin_Async(o) ==
  /\ pc[o] = "todo" /\ Alive(o)
  /\ \A p \in Prereq : o \in Timed => pc[p] = "done"
  /\ GoTo(o, IF kind[o] = "namespace" THEN "call" ELSE "lookup")
  /\ UNCHANGED <<fixed, got, base, tries, result, mapVars, serverVars>>

\* Perform.  Prerequisites of a process are performed in order while it
\* loads; timed operations start once every process has been started.
Begin(o) ==
  /\ pc[o] = "todo" /\ Alive(o)
  /\ \A p \in Prereq : (o \in Timed \/ (p < o /\ Owner(p) = Owner(o)))
       => pc[p] = "done"
  /\ GoTo(o, IF kind[o] = "namespace" THEN "call" ELSE "lookup")
  /\ UNCHANGED <<fixed, got, base, tries, result, mapVars, serverVars>>

\* The first call to the API server: Update starts with a Get.
FirstCall(o) == IF kind[o] \in {"up", "down"} THEN "get" ELSE "call"

Found(o) == <<Holder(o), IntfMap(o)>> \in cached

\* Mutant: the interface is made anew, and stored, on every call.
Lookup_NeverFound(o) ==
  /\ pc[o] = "lookup" /\ Alive(o)
  /\ GoTo(o, "inserting")
  /\ UNCHANGED <<fixed, got, base, tries, result, mapVars, serverVars>>

\* getDeploymentIntf, getPodIntf: look the namespace up in the map; if it is
\* not there, make the interface and begin to assign it to the map.
Lookup(o) ==
  /\ pc[o] = "lookup" /\ Alive(o)
  /\ GoTo(o, IF Found(o) THEN FirstCall(o) ELSE "inserting")
  /\ UNCHANGED <<fixed, got, base, tries, result, mapVars, serverVars>>

\* Another goroutine is assigning to the same map.
Racing(o) ==
  \E p \in Op \ {o} :
    pc[p] = "inserting" /\ Holder(p) = Holder(o) /\ IntfMap(p) = IntfMap(o)

\* The assignment ends.  A racing one may be lost.
InsertEnd(o) ==
  /\ pc[o] = "inserting" /\ Alive(o)
  /\ GoTo(o, FirstCall(o))
  /\ \/ cached' = cached \union {<<Holder(o), IntfMap(o)>>}
     \/ Racing(o) /\ UNCHANGED cached
  /\ UNCHANGED <<fixed, got, base, tries, result, dead, serverVars>>

\* The Go runtime may notice an access that races with an assignment: it
\* ends the process ("concurrent map read and map write").
MapRace(o) ==
  /\ pc[o] \in {"lookup", "inserting"} /\ Alive(o) /\ Racing(o)
  /\ dead' = [dead EXCEPT ![Owner(o)] = IntfMap(o)]
  /\ UNCHANGED <<fixed, opVars, cached, serverVars>>

(***************************************************************************)
(* The API server handles a call.  The caller may have died meanwhile.     *)
(***************************************************************************)

Exists(k) == replicas[k] > 0

Answer(o, a) ==
  /\ GoTo(o, "answer")
  /\ result' = [result EXCEPT ![o] = a]

Touch(k) == version' = [version EXCEPT ![k] = @ + 1]

\* Namespaces().Create
CreateNamespace(o) ==
  /\ kind[o] = "namespace" /\ pc[o] = "call"
  /\ ns' = TRUE
  /\ Answer(o, IF ns THEN "exists" ELSE "ok")
  /\ UNCHANGED <<fixed, got, base, tries, mapVars, replicas, version, doomed,
                 nstatus>>

\* Deployments(ns).Create
Create(o) ==
  LET k == key[o] IN
  /\ kind[o] = "create" /\ pc[o] = "call"
  /\ \/ /\ ~ns
        /\ Answer(o, "no namespace")
        /\ UNCHANGED <<replicas, version>>
     \/ /\ ns /\ Exists(k)
        /\ Answer(o, "exists")
        /\ UNCHANGED <<replicas, version>>
     \/ /\ ns /\ ~Exists(k)
        /\ replicas' = [replicas EXCEPT ![k] = InitReplicas]
        /\ Touch(k)
        /\ Answer(o, "ok")
  /\ UNCHANGED <<fixed, got, base, tries, mapVars, ns, doomed, nstatus>>

\* Pods(ns).List: finds the pods, possibly none, of a deployment.
List(o) ==
  /\ kind[o] = "read" /\ pc[o] = "call"
  /\ Answer(o, "ok")
  /\ UNCHANGED <<fixed, got, base, tries, mapVars, serverVars>>

\* Deployments(ns).Delete in the foreground: the deployment is marked and
\* stays until its pods are gone.
Delete(o) ==
  LET k == key[o] IN
  /\ kind[o] = "delete" /\ pc[o] = "call"
  /\ \/ /\ ~Exists(k)
        /\ Answer(o, "not found")
        /\ UNCHANGED <<version, doomed>>
     \/ /\ Exists(k)
        /\ doomed' = doomed \union {k}
        /\ IF k \in doomed THEN UNCHANGED version ELSE Touch(k)
        /\ Answer(o, "ok")
  /\ UNCHANGED <<fixed, got, base, tries, mapVars, ns, replicas, nstatus>>

\* Deployments(ns).Get, the first half of an attempt of Update.
Get(o) ==
  LET k == key[o] IN
  /\ pc[o] = "get" /\ Alive(o)
  /\ \/ /\ ~Exists(k)
        /\ Answer(o, "not found")
        /\ UNCHANGED <<got, base>>
     \/ /\ Exists(k)
        /\ got' = [got EXCEPT ![o] = [replicas |-> replicas[k],
                                      version |-> version[k]]]
        /\ base' = IF tries[o] = 0 THEN [base EXCEPT ![o] = version[k]]
                   ELSE base
        /\ GoTo(o, "put")
        /\ UNCHANGED result
  /\ UNCHANGED <<fixed, tries, mapVars, serverVars>>

\* The change Update makes to its copy: at least one replica stays.
NewReplicas(o) ==
  LET r == got[o].replicas + Delta[kind[o]] IN IF r < 1 THEN 1 ELSE r

\* Deployments(ns).Update, the second half: refused when the deployment has
\* changed since the copy was read.
Put(o) ==
  LET k == key[o] IN
  /\ pc[o] = "put"
  /\ \/ /\ ~Exists(k)
        /\ Answer(o, "not found")
        /\ UNCHANGED <<replicas, version>>
     \/ /\ Exists(k) /\ version[k] # got[o].version
        /\ Answer(o, "conflict")
        /\ UNCHANGED <<replicas, version>>
     \/ /\ Exists(k) /\ version[k] = got[o].version
        /\ replicas' = [replicas EXCEPT ![k] = NewReplicas(o)]
        /\ Touch(k)
        /\ Answer(o, "ok")
  /\ UNCHANGED <<fixed, got, base, tries, mapVars, ns, doomed, nstatus>>

\* The deployment controller writes the status of a deployment.
StatusUpdate(k) ==
  /\ nstatus < MaxStatus /\ Exists(k)
  /\ Touch(k)
  /\ nstatus' = nstatus + 1
  /\ UNCHANGED <<fixed, opVars, mapVars, ns, replicas, doomed>>

\* The garbage collector removes a deployment in foreground deletion.
Collect(k) ==
  /\ k \in doomed
  /\ replicas' = [replicas EXCEPT ![k] = 0]
  /\ doomed' = doomed \ {k}
  /\ UNCHANGED <<fixed, opVars, mapVars, ns, version, nstatus>>

(***************************************************************************)
(* The client gets the answer, or an error instead of it                   *)
(***************************************************************************)

\* Only a conflict is worth another attempt, and only Steps of them are made.
Retries(o) == result[o] = "conflict" /\ tries[o] + 1 < Steps

\* Mutant: the Get is outside the function that is retried.
RetryOnConflict_SameCopy(o) ==
  /\ pc[o] = "answer" /\ Alive(o) /\ Retries(o)
  /\ tries' = [tries EXCEPT ![o] = @ + 1]
  /\ GoTo(o, "put")
  /\ UNCHANGED <<fixed, got, base, result, mapVars, serverVars>>

\* RetryOnConflict: read the deployment again, then change the new copy.
RetryOnConflict(o) ==
  /\ pc[o] = "answer" /\ Alive(o) /\ Retries(o)
  /\ tries' = [tries EXCEPT ![o] = @ + 1]
  /\ GoTo(o, "get")
  /\ UNCHANGED <<fixed, got, base, result, mapVars, serverVars>>

\* The operation reports the answer.
Return(o) ==
  /\ pc[o] = "answer" /\ Alive(o) /\ ~Retries(o)
  /\ Finish(o, result[o])
  /\ UNCHANGED <<fixed, mapVars, serverVars>>

\* Mutant: Update is attempted again after any error.
CallFails_Retried(o) ==
  /\ pc[o] \in {"call", "get", "put", "answer"} /\ Alive(o)
  /\ \/ /\ pc[o] \in {"put", "answer"} /\ kind[o] \in {"up", "down"}
        /\ tries[o] + 1 < Steps
        /\ tries' = [tries EXCEPT ![o] = @ + 1]
        /\ GoTo(o, "get")
        /\ UNCHANGED <<result, got, base>>
     \/ Finish(o, "error")
  /\ UNCHANGED <<fixed, mapVars, serverVars>>

\* A call that gets no answer, whether or not it was handled, is an error.
CallFails(o) ==
  /\ pc[o] \in {"call", "get", "put", "answer"} /\ Alive(o)
  /\ Finish(o, "error")
  /\ UNCHANGED <<fixed, mapVars, serverVars>>

ClientStep(o) ==
  Begin(o) \/ Lookup(o) \/ InsertEnd(o) \/ MapRace(o)
    \/ RetryOnConflict(o) \/ Return(o) \/ CallFails(o)

Call(o) ==
  CreateNamespace(o) \/ Create(o) \/ List(o) \/ Delete(o) \/ Get(o) \/ Put(o)

Next ==
  \/ \E o \in Op : ClientStep(o) \/ Call(o)
  \/ \E k \in Key : StatusUpdate(k) \/ Collect(k)

Spec == Init /\ [][Next]_vars

(***************************************************************************)
(* Properties                                                              *)
(***************************************************************************)

\* An Update gives up with a conflict only if the deployment was written at
\* least Steps times since the Update first read it: every attempt works on
\* a fresh copy, so each conflict is the trace of another write.
ConflictMeansContention ==
  [][\A o \in Op :
       pc[o] = "answer" /\ pc'[o] = "done" /\ result'[o] = "conflict"
         => version[key[o]] >= base[o] + Steps]_vars

\* A prerequisite finds its namespace missing only if another process was
\* to create it or its creation failed: within a process prerequisites are
\* performed in order, between processes nothing orders them.
NamespaceFirst ==
  \A o \in Prereq : result[o] = "no namespace"
    => Owner(o) # Owner(1) \/ result[1] = "error"

\* A process that created a deployment as a prerequisite has the namespace
\* in DeploymentIntfs, so no later Update or Delete writes the map and only
\* concurrent first Reads can end it; a client per request has maps of its
\* own and is never ended.
WarmMapIsSafe ==
  \A p \in Process :
    /\ dead[p] = "dep" => \A o \in Prereq : kind[o] = "create" => Owner(o) # p
    /\ dead[p] # "no" => ~ncpr

Phase(o) ==
  CASE pc[o] = "todo" -> "waiting"
    [] pc[o] = "done" -> IF result[o] = "ok" THEN "success" ELSE "failed"
    [] pc[o] = "answer" /\ result[o] = "ok" -> "applied"
    [] OTHER -> "pending"

Store == INSTANCE ScaleStore WITH phase <- [o \in Op |-> Phase(o)]

\* Every operation takes effect at most once, atomically, between its
\* invocation and its answer, and exactly once if it reports success: no
\* scaling is lost to a concurrent one and none is applied twice, although
\* Update is a read, a change and a write that may be attempted repeatedly.
ImplementsStore == Store!Spec

=============================================================================
