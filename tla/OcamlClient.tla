---------------------------- MODULE OcamlClient ----------------------------
(***************************************************************************)
(* The OCaml client, reckon_shim.ml's run over a client library such as    *)
(* the Ocons shim (systems/ocons/clients/client.ml).                       *)
(*                                                                         *)
(* Every request carries an id from op_id_gen.  A response names only that *)
(* id, and catcher_callback finds out from the tables prereqs, operations  *)
(* and results what it answers.  The system under test may not get a       *)
(* request, may never answer it, and may answer it late or several times;  *)
(* prerequisites are sent again every second until they are answered.      *)
(*                                                                         *)
(* Fibers run on one domain, so what happens between two points where a    *)
(* fiber waits is one step.  An operation is its time, so that the sort    *)
(* before execution is the order of the numbers.                           *)
(***************************************************************************)
EXTENDS Integers, Sequences, FiniteSets

CONSTANTS Operation,   \* the operations the generator may load
          Cid          \* the client's id

ASSUME OperationAssumption == Operation \subseteq Nat /\ IsFiniteSet(Operation)
ASSUME CidAssumption == Cid \in Nat

VARIABLES
  fresh,       \* operations the generator has not sent yet
  main,        \* program point of the main fiber
  reqs,        \* req_q, then the part of the array still to execute
  x,           \* the counter in op_id_gen
  cur,         \* the request in hand: a prerequisite or the next operation
  prereqs,     \* id -> whether its promise is resolved
  operations,  \* id -> operation submitted under it
  results,     \* the ids in the table results
  inflight,    \* requests the system under test has got, with their ids
  stop,        \* whether stop_barrier is resolved
  collating,   \* ids whose results are still to be written
  stdout,      \* messages written
  heard        \* history: operations answered before stop_barrier

vars == <<fresh, main, reqs, x, cur, prereqs, operations, results, inflight,
          stop, collating, stdout, heard>>

Ready == [kind |-> "ready"]
Result(o) == [kind |-> "result", op |-> o]
Finished == [kind |-> "finished"]

Request(rid, o) == [rid |-> rid, op |-> o]
NoRequest == Request(0, 0)

Init ==
  /\ fresh = Operation
  /\ main = "preload" /\ reqs = {} /\ x = 1 /\ cur = NoRequest
  /\ prereqs = <<>> /\ operations = <<>> /\ results = {}
  /\ inflight = {} /\ stop = FALSE /\ collating = {}
  /\ stdout = <<>> /\ heard = {}

\* Hashtbl.set and Hashtbl.add_exn.
Set(table, key, data) ==
  [k \in DOMAIN table \cup {key} |-> IF k = key THEN data ELSE table[k]]

\* Mutant: operations are numbered from one again.
OpIdGen_Restarts(n) == IF main = "execute"
                       THEN (Cardinality(DOMAIN operations) + 1) * 64 + Cid
                       ELSE n * 64 + Cid

\* Int.shift_left x' 6 + cid
OpIdGen(n) == n * 64 + Cid

-----------------------------------------------------------------------------
(***************************************************************************)
(* Cli.submit: the request reaches the system or is lost on the way, or    *)
(* the library raises, in which case the shim's handler calls the callback *)
(* with a failure before submit returns.                                   *)
(***************************************************************************)
Reaches(r) == inflight' = inflight \cup {r}
Lost == UNCHANGED inflight

\* Phase 1.  retry_prereq registers the promise before it submits.
RecvPrereq(o) ==
  LET r == Request(OpIdGen(x), o) IN
  /\ main = "preload"
  /\ o \in fresh /\ fresh' = fresh \ {o}
  /\ x' = x + 1
  /\ cur' = r
  /\ main' = "prereq"
  /\ \/ prereqs' = Set(prereqs, r.rid, FALSE) /\ (Reaches(r) \/ Lost)
     \/ prereqs' = Set(prereqs, r.rid, TRUE) /\ Lost
  /\ UNCHANGED <<reqs, operations, results, stop, collating, stdout, heard>>

\* Mutant: the loop only waits again.
RetryReaches_NoSubmit ==
  /\ main = "prereq" /\ ~prereqs[cur.rid]
  /\ UNCHANGED vars

\* A second has passed: submit again.
RetryReaches ==
  /\ main = "prereq" /\ ~prereqs[cur.rid]
  /\ Reaches(cur)
  /\ UNCHANGED <<fresh, main, reqs, x, cur, prereqs, operations, results,
                 stop, collating, stdout, heard>>

RetryRaises ==
  /\ main = "prereq" /\ ~prereqs[cur.rid]
  /\ prereqs' = Set(prereqs, cur.rid, TRUE)
  /\ UNCHANGED <<fresh, main, reqs, x, cur, operations, results, inflight,
                 stop, collating, stdout, heard>>

PrereqDone ==
  /\ main = "prereq" /\ prereqs[cur.rid]
  /\ main' = "preload" /\ cur' = NoRequest
  /\ UNCHANGED <<fresh, reqs, x, prereqs, operations, results, inflight, stop,
                 collating, stdout, heard>>

RecvOp(o) ==
  /\ main = "preload"
  /\ o \in fresh /\ fresh' = fresh \ {o}
  /\ reqs' = reqs \cup {o}
  /\ UNCHANGED <<main, x, cur, prereqs, operations, results, inflight, stop,
                 collating, stdout, heard>>

\* Finalise ends phase 1, and phase 2 writes ready.
RecvFinalise ==
  /\ main = "preload" /\ main' = "start"
  /\ stdout' = Append(stdout, Ready)
  /\ UNCHANGED <<fresh, reqs, x, cur, prereqs, operations, results, inflight,
                 stop, collating, heard>>

RecvStart ==
  /\ main = "start" /\ main' = "execute"
  /\ UNCHANGED <<fresh, reqs, x, cur, prereqs, operations, results, inflight,
                 stop, collating, stdout, heard>>

\* Another message, or one that does not parse.
RecvFails ==
  /\ main \in {"preload", "start"} /\ main' = "failed"
  /\ UNCHANGED <<fresh, reqs, x, cur, prereqs, operations, results, inflight,
                 stop, collating, stdout, heard>>

-----------------------------------------------------------------------------
\* Phase 3: the earliest operation gets its id, then the fiber yields in
\* flush and sleeps until its time.
NextOp ==
  /\ main = "execute" /\ reqs # {}
  /\ LET o == CHOOSE o \in reqs : \A p \in reqs : o <= p
     IN cur' = Request(OpIdGen(x), o) /\ reqs' = reqs \ {o}
  /\ x' = x + 1
  /\ main' = "aim"
  /\ UNCHANGED <<fresh, prereqs, operations, results, inflight, stop,
                 collating, stdout, heard>>

\* Awake: register the operation and submit it.
Submit ==
  /\ main = "aim"
  /\ operations' = Set(operations, cur.rid, cur.op)
  /\ \/ (Reaches(cur) \/ Lost) /\ UNCHANGED <<results, heard>>
     \/ /\ Lost
        /\ results' = results \cup {cur.rid}
        /\ heard' = heard \cup {cur.op}
  /\ main' = "execute" /\ cur' = NoRequest
  /\ UNCHANGED <<fresh, reqs, x, prereqs, stop, collating, stdout>>

\* All are submitted and the five seconds are over.
StopAndCollate ==
  /\ main = "execute" /\ reqs = {}
  /\ stop' = TRUE
  /\ collating' = results
  /\ main' = "collate"
  /\ UNCHANGED <<fresh, reqs, x, cur, prereqs, operations, results, inflight,
                 stdout, heard>>

SendResult ==
  /\ main = "collate" /\ collating # {}
  /\ LET rid == CHOOSE r \in collating : \A q \in collating : r <= q
     IN /\ collating' = collating \ {rid}
        /\ stdout' = IF rid \in DOMAIN operations
                     THEN Append(stdout, Result(operations[rid]))
                     ELSE stdout
  /\ UNCHANGED <<fresh, main, reqs, x, cur, prereqs, operations, results,
                 inflight, stop, heard>>

SendFinished ==
  /\ main = "collate" /\ collating = {}
  /\ stdout' = Append(stdout, Finished)
  /\ main' = "exited"
  /\ UNCHANGED <<fresh, reqs, x, cur, prereqs, operations, results, inflight,
                 stop, collating, heard>>

-----------------------------------------------------------------------------
\* Mutant: stop_barrier is not consulted and results are looked up as they
\* are written.
Callback_NoStop(r) ==
  /\ IF r.rid \in DOMAIN prereqs /\ ~prereqs[r.rid]
     THEN /\ prereqs' = Set(prereqs, r.rid, TRUE)
          /\ UNCHANGED <<results, collating>>
     ELSE /\ results' = IF r.rid \in DOMAIN operations
                        THEN results \cup {r.rid} ELSE results
          /\ collating' = IF stop /\ r.rid \in DOMAIN operations
                          THEN collating \cup {r.rid} ELSE collating
          /\ UNCHANGED prereqs

\* catcher_callback.
Callback(r) ==
  /\ IF stop THEN UNCHANGED <<prereqs, results>>
     ELSE IF r.rid \in DOMAIN prereqs /\ ~prereqs[r.rid]
     THEN prereqs' = Set(prereqs, r.rid, TRUE) /\ UNCHANGED results
     ELSE /\ results' = IF r.rid \in DOMAIN operations
                        THEN results \cup {r.rid} ELSE results
          /\ UNCHANGED prereqs
  /\ UNCHANGED collating

\* A response to request r arrives.
Respond(r) ==
  /\ main \notin {"exited", "failed"}
  /\ r \in inflight
  /\ Callback(r)
  /\ heard' = IF ~stop /\ r.op \in {operations[k] : k \in DOMAIN operations}
              THEN heard \cup {r.op} ELSE heard
  /\ UNCHANGED <<fresh, main, reqs, x, cur, operations, inflight, stop,
                 stdout>>

MainStep ==
  \/ PrereqDone \/ NextOp \/ Submit \/ StopAndCollate \/ SendResult
  \/ SendFinished

Next ==
  \/ MainStep \/ RetryReaches \/ RetryRaises
  \/ RecvFinalise \/ RecvStart \/ RecvFails
  \/ \E o \in Operation : RecvPrereq(o) \/ RecvOp(o)
  \/ \E r \in inflight : Respond(r)

Spec == Init /\ [][Next]_vars

\* The main fiber runs, a second passes again and again, a request that is
\* sent again and again gets through, and the system under test answers a
\* prerequisite that it has.
FairSpec ==
  /\ Spec
  /\ WF_vars(MainStep)
  /\ SF_vars(RetryReaches)
  /\ WF_vars(cur \in inflight /\ Respond(cur))

-----------------------------------------------------------------------------
Rid == {n * 64 + Cid : n \in 1..Cardinality(Operation)}
Written == {o \in Operation :
              \E k \in 1..Len(stdout) : stdout[k] = Result(o)}

(* The client reports exactly the operations that were answered before     *)
(* stop_barrier: repeated answers, answers to prerequisites that were sent *)
(* several times and answers that come while the results are being written *)
(* neither add one nor hide one.                                           *)
ReportsWhatItHeard == main = "exited" => Written = heard

(* A prerequisite is sent again until it is answered, so loading goes on   *)
(* after any number of lost requests.                                      *)
PrereqsEnd == main = "prereq" ~> main = "preload"

\* The conversation as ClientProtocol sees it.  Prerequisites are not
\* reported, so they are no part of it.
phase ==
  CASE main \in {"preload", "prereq"} -> "preload"
    [] main = "start" -> "ready"
    [] main = "exited" -> "finished"
    [] main = "failed" -> "failed"
    [] OTHER -> "running"

pending ==
  (reqs \cup {operations[k] : k \in DOMAIN operations}
        \cup (IF main = "aim" THEN {cur.op} ELSE {}))
  \ Written

Protocol == INSTANCE ClientProtocol

(* This process keeps the conversation of ClientProtocol: each operation   *)
(* is reported at most once, however often it is answered, nothing is said *)
(* after finished, and a started client finishes without any answer.       *)
ImplementsProtocol == Protocol!Spec
=============================================================================
