----------------------------- MODULE ScaleStore -----------------------------
(***************************************************************************)
(* What the operations of the Kubernetes client promise: each of them      *)
(* takes effect on the cluster at most once, as a whole, between its       *)
(* invocation and its answer, and exactly once if it reports "Success".    *)
(* An operation that reports an error may or may not have taken effect.    *)
(***************************************************************************)
EXTENDS Integers, FiniteSets

CONSTANTS Op, Key, InitReplicas, Delta

VARIABLES
  kind,      \* what each operation does: fixed by the workload
  key,       \* the deployment each operation is about: fixed too
  ns,        \* does the namespace exist
  replicas,  \* replicas[k] = 0 when deployment k does not exist
  doomed,    \* the deployments marked for deletion
  phase      \* the progress of each operation

vars == <<kind, key, ns, replicas, doomed, phase>>

Init ==
  /\ kind \in [Op -> {"namespace", "create", "read", "up", "down", "delete"}]
  /\ key \in [Op -> Key]
  /\ ns = FALSE
  /\ replicas = [k \in Key |-> 0]
  /\ doomed = {}
  /\ phase = [o \in Op |-> "waiting"]

Exists(k) == replicas[k] > 0

Larger(a, b) == IF a > b THEN a ELSE b

\* The new replicas[k] of an operation that writes deployment k.
Scaled(k, d) == [replicas EXCEPT ![k] = Larger(1, @ + d)]

\* What the operation does to the cluster when it takes effect.
Effect(o) ==
  LET k == key[o] IN
  CASE kind[o] = "namespace" ->
         ~ns /\ ns' = TRUE /\ UNCHANGED <<replicas, doomed>>
    [] kind[o] = "create" ->
         /\ ns /\ ~Exists(k)
         /\ replicas' = [replicas EXCEPT ![k] = InitReplicas]
         /\ UNCHANGED <<ns, doomed>>
    [] kind[o] = "read" ->
         UNCHANGED <<ns, replicas, doomed>>
    [] kind[o] \in {"up", "down"} ->
         /\ Exists(k)
         /\ replicas' = Scaled(k, Delta[kind[o]])
         /\ UNCHANGED <<ns, doomed>>
    [] kind[o] = "delete" ->
         /\ Exists(k)
         /\ doomed' = doomed \union {k}
         /\ UNCHANGED <<ns, replicas>>

Move(o, from, to) ==
  /\ phase[o] \in from
  /\ phase' = [phase EXCEPT ![o] = to]
  /\ UNCHANGED <<kind, key>>

Invoke(o) ==
  Move(o, {"waiting"}, "pending") /\ UNCHANGED <<ns, replicas, doomed>>

Apply(o) ==
  Move(o, {"pending"}, "applied") /\ Effect(o)

Succeed(o) ==
  Move(o, {"applied"}, "success") /\ UNCHANGED <<ns, replicas, doomed>>

Fail(o) ==
  /\ Move(o, {"pending", "applied"}, "failed")
  /\ UNCHANGED <<ns, replicas, doomed>>

\* The cluster removes a deployment that is marked for deletion.
Collect(k) ==
  /\ k \in doomed /\ Exists(k)
  /\ replicas' = [replicas EXCEPT ![k] = 0]
  /\ doomed' = doomed \ {k}
  /\ UNCHANGED <<kind, key, ns, phase>>

Next ==
  \/ \E o \in Op : Invoke(o) \/ Apply(o) \/ Succeed(o) \/ Fail(o)
  \/ \E k \in Key : Collect(k)

Spec == Init /\ [][Next]_vars

=============================================================================
