----------------------------- MODULE JavaClient -----------------------------
(***************************************************************************)
(* The Java client: Library.Run with its cached thread pool, WaitGroup and *)
(* the packet functions of IO.  The main thread loads, waits for the       *)
(* prerequisites, dispatches each operation at its time, waits one more    *)
(* second, takes what the callbacks have put into resp_map and reports it. *)
(* Pool threads perform operations; one that the system under test never   *)
(* answers keeps its thread for ever, and a pool thread keeps the process  *)
(* alive even when the main thread has died.                               *)
(*                                                                         *)
(* An operation is its time, so that the sort after loading is the order   *)
(* of the numbers.  complete.t is a plain field, written by the main       *)
(* thread and read by pool threads with no synchronisation between them: a *)
(* read after the write may still return false.  The iterator of a         *)
(* ConcurrentHashMap shows every entry that was there when it was made and *)
(* may or may not show a later one.                                        *)
(***************************************************************************)
EXTENDS Integers, Sequences, FiniteSets

CONSTANT Operation

ASSUME OperationAssumption == Operation \subseteq Nat /\ IsFiniteSet(Operation)

VARIABLES
  main,         \* program point of the main thread
  operations,   \* operations loaded and not yet dispatched
  task,         \* per operation: what its pool thread is doing
  jobs,         \* preload_wg.jobs
  clock,        \* how many perform calls have read their start time
  stamp,        \* per operation: Response.t_submitted
  complete,     \* complete.t
  resp_map,     \* operations whose responses are in the map
  snapshot,     \* resp_map when the key iterator was made
  responses,    \* responses collected and not yet written
  stdout,       \* messages written
  inTime        \* history: responses put before complete.t was set

vars == <<main, operations, task, jobs, clock, stamp, complete, resp_map,
          snapshot, responses, stdout, inTime>>

Ready == [kind |-> "ready"]
Result(o) == [kind |-> "result", op |-> o]
Finished == [kind |-> "finished"]

\* t_submitted of a response that reports an error.
ErrorTime == -1

Init ==
  /\ main = "preload" /\ operations = {}
  /\ task = [o \in Operation |-> "none"]
  /\ jobs = 0 /\ clock = 0
  /\ stamp = [o \in Operation |-> ErrorTime]
  /\ complete = FALSE /\ resp_map = {} /\ snapshot = {} /\ responses = {}
  /\ stdout = <<>> /\ inTime = {}

reportVars == <<complete, resp_map, snapshot, responses, stdout, inTime>>

-----------------------------------------------------------------------------
(***************************************************************************)
(* Main thread, phases 1 and 2.                                            *)
(***************************************************************************)
Unseen(o) == task[o] = "none" /\ o \notin operations

RecvPrereq(o) ==
  /\ main = "preload" /\ Unseen(o)
  /\ jobs' = jobs + 1
  /\ task' = [task EXCEPT ![o] = "prereq"]
  /\ UNCHANGED <<main, operations, clock, stamp, reportVars>>

RecvOp(o) ==
  /\ main = "preload" /\ Unseen(o)
  /\ operations' = operations \cup {o}
  /\ UNCHANGED <<main, task, jobs, clock, stamp, reportVars>>

RecvFinalise ==
  /\ main = "preload" /\ main' = "await"
  /\ UNCHANGED <<operations, task, jobs, clock, stamp, reportVars>>

\* WaitGroup.await: under the monitor, return or go to wait.
Await ==
  /\ main = "await"
  /\ main' = IF jobs > 0 THEN "waiting" ELSE "connect"
  /\ UNCHANGED <<operations, task, jobs, clock, stamp, reportVars>>

\* wait() may return without a notification; the loop tests again.
WaitReturns ==
  /\ main = "waiting" /\ main' = "await"
  /\ UNCHANGED <<operations, task, jobs, clock, stamp, reportVars>>

\* number_client_objs clients are made, then ready is written.
SendReady ==
  /\ main = "connect" /\ main' = "start"
  /\ stdout' = Append(stdout, Ready)
  /\ UNCHANGED <<operations, task, jobs, clock, stamp, complete, resp_map,
                 snapshot, responses, inTime>>

RecvStart ==
  /\ main = "start" /\ main' = "dispatch"
  /\ UNCHANGED <<operations, task, jobs, clock, stamp, reportVars>>

\* unrecognised_message: a message of another kind ends the process.
RecvFails ==
  /\ main \in {"preload", "start"} /\ main' = "failed"
  /\ UNCHANGED <<operations, task, jobs, clock, stamp, reportVars>>

-----------------------------------------------------------------------------
(***************************************************************************)
(* Main thread, phases 3 to 5.                                             *)
(***************************************************************************)
\* The earliest operation's time has come: a pool thread gets it.  A cached
\* pool makes a thread when none is idle, so this never waits.
Dispatch ==
  /\ main = "dispatch" /\ operations # {}
  /\ LET o == CHOOSE o \in operations : \A p \in operations : o <= p
     IN /\ task' = [task EXCEPT ![o] = "queued"]
        /\ operations' = operations \ {o}
  /\ UNCHANGED <<main, jobs, clock, stamp, reportVars>>

\* Mutant: wait for every operation instead of a second.
SetComplete_WaitsForAll ==
  /\ main = "dispatch" /\ operations = {}
  /\ \A o \in Operation : task[o] \in {"none", "prereq done", "done"}
  /\ main' = "collate" /\ complete' = TRUE
  /\ UNCHANGED <<operations, task, jobs, clock, stamp, resp_map, snapshot,
                 responses, stdout, inTime>>

\* All are dispatched and the second of grace is over.
SetComplete ==
  /\ main = "dispatch" /\ operations = {}
  /\ main' = "collate" /\ complete' = TRUE
  /\ UNCHANGED <<operations, task, jobs, clock, stamp, resp_map, snapshot,
                 responses, stdout, inTime>>

MakeIterator ==
  /\ main = "collate" /\ main' = "iterate"
  /\ snapshot' = resp_map
  /\ UNCHANGED <<operations, task, jobs, clock, stamp, complete, resp_map,
                 responses, stdout, inTime>>

IterationEnds ==
  /\ main = "iterate" /\ main' = "report"
  /\ responses' \in {R \in SUBSET resp_map : snapshot \subseteq R}
  /\ UNCHANGED <<operations, task, jobs, clock, stamp, complete, resp_map,
                 snapshot, stdout, inTime>>

\* Responses are written in the order of t_submitted.
SendResult ==
  /\ main = "report"
  /\ \E o \in responses :
       /\ \A p \in responses : stamp[o] <= stamp[p]
       /\ stdout' = Append(stdout, Result(o))
       /\ responses' = responses \ {o}
  /\ UNCHANGED <<main, operations, task, jobs, clock, stamp, complete,
                 resp_map, snapshot, inTime>>

\* write_uint4 refuses a response of more than 4096 bytes.  The exception
\* leaves Run and main, past shutdownNow and System.exit: the main thread is
\* gone, the pool threads and stdout are not.  (Ready and finished are never
\* too long, and a PrintStream reports no broken pipe.)
WriteFails ==
  /\ main = "report" /\ responses # {} /\ main' = "raised"
  /\ UNCHANGED <<operations, task, jobs, clock, stamp, reportVars>>

Busy == {"prereq", "queued", "performing", "callback", "put"}

\* The virtual machine ends with its last thread that is no daemon.  Those
\* of newCachedThreadPool are none; one that is idle ends by itself.
ProcessEnds ==
  /\ main = "raised" /\ \A o \in Operation : task[o] \notin Busy
  /\ main' = "failed"
  /\ UNCHANGED <<operations, task, jobs, clock, stamp, reportVars>>

\* Mutant: finished is written while responses are left.
SendFinished_Early ==
  /\ main = "report"
  /\ stdout' = Append(stdout, Finished)
  /\ main' = IF responses = {} THEN "exited" ELSE "report"
  /\ UNCHANGED <<operations, task, jobs, clock, stamp, complete, resp_map,
                 snapshot, responses, inTime>>

\* shutdownNow and System.exit: no pool thread runs any more.
SendFinished ==
  /\ main = "report" /\ responses = {}
  /\ stdout' = Append(stdout, Finished)
  /\ main' = "exited"
  /\ UNCHANGED <<operations, task, jobs, clock, stamp, complete, resp_map,
                 snapshot, responses, inTime>>

-----------------------------------------------------------------------------
(***************************************************************************)
(* Pool threads: perform and its callback.                                 *)
(***************************************************************************)
\* They run until the process ends, whether or not main still does.
Alive == main \notin {"exited", "failed"}

\* Mutant: the count is tested before it is decremented.
WaitGroupDone_TestFirst(o) ==
  /\ Alive /\ task[o] = "prereq"
  /\ task' = [task EXCEPT ![o] = "prereq done"]
  /\ jobs' = jobs - 1
  /\ main' = IF main = "waiting" /\ jobs = 0 THEN "await" ELSE main
  /\ UNCHANGED <<operations, clock, stamp, reportVars>>

\* A prerequisite has returned, or failed: its callback is WaitGroup.done,
\* which wakes the main thread when it was the last.
WaitGroupDone(o) ==
  /\ Alive /\ task[o] = "prereq"
  /\ task' = [task EXCEPT ![o] = "prereq done"]
  /\ jobs' = jobs - 1
  /\ main' = IF main = "waiting" /\ jobs - 1 = 0 THEN "await" ELSE main
  /\ UNCHANGED <<operations, clock, stamp, reportVars>>

\* perform reads its start time on the pool thread.
PerformBegins(o) ==
  /\ Alive /\ task[o] = "queued"
  /\ task' = [task EXCEPT ![o] = "performing"]
  /\ stamp' = [stamp EXCEPT ![o] = clock]
  /\ clock' = clock + 1
  /\ UNCHANGED <<main, operations, jobs, reportVars>>

\* The system under test answers, or the client library raises, or the
\* kind is not supported; the last two make a response with time -1.
PerformReturns(o) ==
  /\ Alive /\ task[o] = "performing"
  /\ task' = [task EXCEPT ![o] = "callback"]
  /\ stamp' \in {stamp, [stamp EXCEPT ![o] = ErrorTime]}
  /\ UNCHANGED <<main, operations, jobs, clock, reportVars>>

\* if (!complete.t): false may be read after true was written.
CallbackTests(o) ==
  /\ Alive /\ task[o] = "callback"
  /\ \E seen \in {FALSE, complete} :
       task' = [task EXCEPT ![o] = IF seen THEN "done" ELSE "put"]
  /\ UNCHANGED <<main, operations, jobs, clock, stamp, reportVars>>

\* Mutant: the map has one entry for all responses of this client.
CallbackPuts_OneKey(o) ==
  /\ Alive /\ task[o] = "put"
  /\ task' = [task EXCEPT ![o] = "done"]
  /\ resp_map' = {o}
  /\ inTime' = IF complete THEN inTime ELSE inTime \cup {o}
  /\ UNCHANGED <<main, operations, jobs, clock, stamp, complete, snapshot,
                 responses, stdout>>

CallbackPuts(o) ==
  /\ Alive /\ task[o] = "put"
  /\ task' = [task EXCEPT ![o] = "done"]
  /\ resp_map' = resp_map \cup {o}
  /\ inTime' = IF complete THEN inTime ELSE inTime \cup {o}
  /\ UNCHANGED <<main, operations, jobs, clock, stamp, complete, snapshot,
                 responses, stdout>>

-----------------------------------------------------------------------------
MainStep ==
  \/ Await \/ SendReady \/ Dispatch \/ SetComplete \/ MakeIterator
  \/ IterationEnds \/ SendResult \/ WriteFails \/ SendFinished

PoolStep(o) ==
  \/ WaitGroupDone(o) \/ PerformBegins(o) \/ PerformReturns(o)
  \/ CallbackTests(o) \/ CallbackPuts(o)

Next ==
  \/ MainStep \/ WaitReturns \/ RecvFinalise \/ RecvStart \/ RecvFails
  \/ ProcessEnds
  \/ \E o \in Operation : RecvPrereq(o) \/ RecvOp(o) \/ PoolStep(o)

Spec == Init /\ [][Next]_vars

\* What pool thread o does without waiting for the system under test, but
\* for prerequisites: their calls return, or raise when the session is lost.
ThreadRuns(o) ==
  WaitGroupDone(o) \/ PerformBegins(o) \/ CallbackTests(o) \/ CallbackPuts(o)

\* Threads run.  Nothing is assumed of the answers to operations.  A process
\* without threads ends (those of the ZooKeeper library are daemons).
FairSpec ==
  /\ Spec
  /\ WF_vars(MainStep) /\ WF_vars(ProcessEnds)
  /\ \A o \in Operation : WF_vars(ThreadRuns(o))

-----------------------------------------------------------------------------
(* Whatever a callback put into resp_map before complete.t was set is      *)
(* reported: when the client says finished, neither late callbacks that    *)
(* still read complete.t as false nor the iteration have lost it.          *)
InTimeReported ==
  main = "exited" =>
    \A o \in inTime : \E k \in 1..Len(stdout) : stdout[k] = Result(o)

(* Once finalise has been received the client becomes ready: WaitGroup     *)
(* loses no wake-up.                                                       *)
BecomesReady == main \in {"await", "waiting"} ~> main = "start"

\* The main thread died of an exception while an operation has no answer.
Held == main = "raised" /\ \E o \in Operation : task[o] = "performing"

(* A started client says finished or its process ends, although operations *)
(* never return, as the collate loop of client_runner.py:134 needs, with   *)
(* one exception: a response was too long to be written, and an operation  *)
(* that is never answered keeps the process alive and silent for ever.     *)
FinishesUnlessHeld ==
  main = "dispatch" ~> (main \in {"exited", "failed"} \/ []Held)

\* The conversation as ClientProtocol sees it.  Prerequisites are not
\* answered, so they are no part of it.  A client whose main thread has
\* raised has not failed yet: its stdout is open and it says nothing.
phase ==
  CASE main \in {"preload", "await", "waiting", "connect"} -> "preload"
    [] main = "start" -> "ready"
    [] main = "exited" -> "finished"
    [] main = "failed" -> "failed"
    [] OTHER -> "running"

Written == {o \in Operation :
              \E k \in 1..Len(stdout) : stdout[k] = Result(o)}

pending ==
  (operations \cup {o \in Operation : task[o] \notin {"none", "prereq",
                                                      "prereq done"}})
  \ Written

Protocol == INSTANCE ClientProtocol

(* This process keeps the conversation of ClientProtocol, as far as safety *)
(* goes: ready once, each operation reported at most once and only after   *)
(* start, nothing after finished.                                          *)
KeepsProtocol ==
  Protocol!Init /\ [][Protocol!Next]_(Protocol!vars)

=============================================================================
