------------------------------ MODULE GoClient ------------------------------
(***************************************************************************)
(* The Go load-generating client: Run_Client (rc_go/client.go) and the     *)
(* channels of rc_go/utils/utils.go.  Five kinds of goroutine run:         *)
(*                                                                         *)
(*   main         reads stdin, dispatches operations, shuts everything     *)
(*                down (variable main is its program point);               *)
(*   worker w     performs operations; the goroutine spawned while         *)
(*                dispatching operation w is named w;                      *)
(*   messenger    forwards res_ch to final_res_ch until it is closed;      *)
(*   result_loop  collects every result, then writes them to stdout;       *)
(*   the WaitGroup waiter, folded into main's select on it.                *)
(*                                                                         *)
(* op_ch and final_res_ch are unbuffered: a send and the matching receive  *)
(* are one step.  res_ch has capacity ResCap (50000 in the code).  Time is *)
(* not modelled: an operation may take for ever, and the 30 s timer may    *)
(* fire at any moment after the last operation was dispatched.             *)
(***************************************************************************)
EXTENDS Naturals, Sequences, FiniteSets

CONSTANTS
  Operation,            \* the operations the generator may load
  ResCap,               \* the capacity of res_ch
  NewClientPerRequest,  \* the -ncpr flag
  None                  \* no operation

ASSUME OperationAssumption ==
  /\ IsFiniteSet(Operation)
  /\ None \notin Operation
ASSUME ResCapAssumption == ResCap \in Nat \ {0}
ASSUME FlagAssumption == NewClientPerRequest \in BOOLEAN

VARIABLES
  main,       \* program point of Run_Client
  cur,        \* the prerequisite being performed, or None
  preloads,   \* operations whose prerequisite result is held back
  ops,        \* operations still to be dispatched
  wpc,        \* program point of each worker
  wop,        \* operation each worker holds, or None
  wg,         \* the counter of wg_perform
  res_ch,     \* contents of the buffered result channel
  messenger,  \* program point of the messenger
  held,       \* the result the messenger is forwarding, or None
  rpc,        \* program point of result_loop
  results,    \* results collected and not yet written
  stdout,     \* messages written
  closed,     \* the channels main has closed
  timedOut,   \* history: the 30 s timer won the final select
  received    \* history: operations received so far

vars == <<main, cur, preloads, ops, wpc, wop, wg, res_ch, messenger, held,
          rpc, results, stdout, closed, timedOut, received>>

inputVars == <<cur, preloads, received>>
workerVars == <<wpc, wop, wg>>
resultVars == <<messenger, held, rpc, results>>

Ready == [kind |-> "ready"]
Result(o) == [kind |-> "result", op |-> o]
Finished == [kind |-> "finished"]
Message == {Ready, Finished} \cup {Result(o) : o \in Operation}

MainPoints ==
  {"create", "preload", "prereq", "ready", "await_start", "flush",
   "dispatch", "handoff", "wait", "stop", "close_messenger",
   "await_results", "exit", "fatal"}
WorkerPoints == {"unborn", "start", "recv", "perform", "reply", "exit"}

Init ==
  /\ main = "create"
  /\ cur = None
  /\ preloads = <<>>
  /\ ops = <<>>
  /\ wpc = [w \in Operation |-> "unborn"]
  /\ wop = [w \in Operation |-> None]
  /\ wg = 0
  /\ res_ch = <<>>
  /\ messenger = "off"
  /\ held = None
  /\ rpc = "off"
  /\ results = <<>>
  /\ stdout = <<>>
  /\ closed = {}
  /\ timedOut = FALSE
  /\ received = {}

\* The process ends when main returns or any goroutine calls log.Fatal.
Alive == main \notin {"exit", "fatal"}

-----------------------------------------------------------------------------
(* Phase 1: preload, and phase 2: readying.                                *)

\* client_gen returns a client, or utils.Check ends the process.
CreateClient ==
  /\ main = "create"
  /\ main' \in {"preload", "fatal"}
  /\ UNCHANGED <<inputVars, ops, workerVars, res_ch, resultVars, stdout,
                 closed, timedOut>>

\* A preload with prereq set: the operation is performed at once, by main.
RecvPrereq(o) ==
  /\ main = "preload"
  /\ o \notin received
  /\ main' = "prereq"
  /\ cur' = o
  /\ received' = received \cup {o}
  /\ UNCHANGED <<preloads, ops, workerVars, res_ch, resultVars, stdout,
                 closed, timedOut>>

\* Its Perform returns; the result is held back until phase 3.
PrereqDone ==
  /\ main = "prereq"
  /\ main' = "preload"
  /\ preloads' = Append(preloads, cur)
  /\ cur' = None
  /\ UNCHANGED <<received, ops, workerVars, res_ch, resultVars, stdout,
                 closed, timedOut>>

\* A preload without prereq.
RecvOp(o) ==
  /\ main = "preload"
  /\ o \notin received
  /\ ops' = Append(ops, o)
  /\ received' = received \cup {o}
  /\ UNCHANGED <<main, cur, preloads, workerVars, res_ch, resultVars, stdout,
                 closed, timedOut>>

RecvFinalise ==
  /\ main = "preload"
  /\ main' = "ready"
  /\ UNCHANGED <<inputVars, ops, workerVars, res_ch, resultVars, stdout,
                 closed, timedOut>>

\* stdin is at end of file, or the message is not one main waits for.
RecvFails ==
  /\ main \in {"preload", "await_start"}
  /\ main' = "fatal"
  /\ UNCHANGED <<inputVars, ops, workerVars, res_ch, resultVars, stdout,
                 closed, timedOut>>

\* result_loop and the messenger are started, then ready is written.
SendReady ==
  /\ main = "ready"
  /\ main' = "await_start"
  /\ rpc' = "collect"
  /\ messenger' = "select"
  /\ stdout' = Append(stdout, Ready)
  /\ UNCHANGED <<inputVars, ops, workerVars, res_ch, held, results, closed,
                 timedOut>>

RecvStart ==
  /\ main = "await_start"
  /\ main' = "flush"
  /\ UNCHANGED <<inputVars, ops, workerVars, res_ch, resultVars, stdout,
                 closed, timedOut>>

-----------------------------------------------------------------------------
(* Phase 3: execute.                                                       *)

\* The results of the prerequisites go first.
FlushPrereq ==
  /\ main = "flush"
  /\ preloads # <<>>
  /\ Len(res_ch) < ResCap
  /\ res_ch' = Append(res_ch, Head(preloads))
  /\ preloads' = Tail(preloads)
  /\ UNCHANGED <<main, cur, received, ops, workerVars, resultVars, stdout,
                 closed, timedOut>>

FlushDone ==
  /\ main = "flush"
  /\ preloads = <<>>
  /\ main' = "dispatch"
  /\ UNCHANGED <<inputVars, ops, workerVars, res_ch, resultVars, stdout,
                 closed, timedOut>>

\* Worker w receives the operation main is sending on op_ch.
TakesOp(w) ==
  /\ wop' = [wop EXCEPT ![w] = Head(ops)]
  /\ wpc' = [wpc EXCEPT ![w] = "perform"]
  /\ ops' = Tail(ops)

\* The operation's time has come and a worker is parked at op_ch: the
\* non-blocking send of the select succeeds.
DispatchToIdle(w) ==
  /\ main = "dispatch"
  /\ ops # <<>>
  /\ wpc[w] = "recv"
  /\ TakesOp(w)
  /\ UNCHANGED <<main, wg, inputVars, res_ch, resultVars, stdout, closed,
                 timedOut>>

\* As SpawnWorker, but only when there is no worker yet.
SpawnWorker_FixedPool ==
  /\ main = "dispatch"
  /\ ops # <<>>
  /\ \A w \in Operation : wpc[w] # "recv"
  /\ main' = "handoff"
  /\ LET first == \A w \in Operation : wpc[w] = "unborn"
     IN  /\ wg' = IF first THEN wg + 1 ELSE wg
         /\ wpc' = IF first THEN [wpc EXCEPT ![Head(ops)] = "start"] ELSE wpc
  /\ UNCHANGED <<wop, inputVars, ops, res_ch, resultVars, stdout, closed,
                 timedOut>>

\* As SpawnWorker, with wg_perform.Add(1) forgotten.
SpawnWorker_NoAdd ==
  /\ main = "dispatch"
  /\ ops # <<>>
  /\ \A w \in Operation : wpc[w] # "recv"
  /\ main' = "handoff"
  /\ wpc' = [wpc EXCEPT ![Head(ops)] = "start"]
  /\ UNCHANGED <<wop, wg, inputVars, ops, res_ch, resultVars, stdout, closed,
                 timedOut>>

\* No worker is parked: main starts one and blocks sending to op_ch.
SpawnWorker ==
  /\ main = "dispatch"
  /\ ops # <<>>
  /\ \A w \in Operation : wpc[w] # "recv"
  /\ main' = "handoff"
  /\ wg' = wg + 1
  /\ wpc' = [wpc EXCEPT ![Head(ops)] = "start"]
  /\ UNCHANGED <<wop, inputVars, ops, res_ch, resultVars, stdout, closed,
                 timedOut>>

\* A worker, new or old, comes to op_ch and finds main sending.
Handoff(w) ==
  /\ main = "handoff"
  /\ wpc[w] = "start"
  /\ TakesOp(w)
  /\ main' = "dispatch"
  /\ UNCHANGED <<wg, inputVars, res_ch, resultVars, stdout, closed, timedOut>>

\* A worker comes to op_ch, nobody is sending and it is open: it parks.
WorkerPark(w) ==
  /\ Alive
  /\ wpc[w] = "start"
  /\ main # "handoff"
  /\ "op_ch" \notin closed
  /\ wpc' = [wpc EXCEPT ![w] = "recv"]
  /\ UNCHANGED <<main, wop, wg, inputVars, ops, res_ch, resultVars, stdout,
                 closed, timedOut>>

\* op_ch is closed: the worker leaves its loop and runs wg.Done.
WorkerExit(w) ==
  /\ Alive
  /\ wpc[w] \in {"start", "recv"}
  /\ "op_ch" \in closed
  /\ wpc' = [wpc EXCEPT ![w] = "exit"]
  /\ wg' = wg - 1
  /\ UNCHANGED <<main, wop, inputVars, ops, res_ch, resultVars, stdout,
                 closed, timedOut>>

\* Perform returns, with success or an error text; either is a result.
PerformReturns(w) ==
  /\ Alive
  /\ wpc[w] = "perform"
  /\ wpc' = [wpc EXCEPT ![w] = "reply"]
  /\ UNCHANGED <<main, wop, wg, inputVars, ops, res_ch, resultVars, stdout,
                 closed, timedOut>>

\* With -ncpr, Perform makes a client first and is fatal if it cannot.
PerformFatal(w) ==
  /\ Alive
  /\ NewClientPerRequest
  /\ wpc[w] = "perform"
  /\ main' = "fatal"
  /\ UNCHANGED <<workerVars, inputVars, ops, res_ch, resultVars, stdout,
                 closed, timedOut>>

\* The worker's select puts the result into res_ch.
WorkerSend(w) ==
  /\ Alive
  /\ wpc[w] = "reply"
  /\ Len(res_ch) < ResCap
  /\ res_ch' = Append(res_ch, wop[w])
  /\ wop' = [wop EXCEPT ![w] = None]
  /\ wpc' = [wpc EXCEPT ![w] = "start"]
  /\ UNCHANGED <<main, wg, inputVars, ops, resultVars, stdout, closed,
                 timedOut>>

\* As WorkerDrop, but with a default branch instead of <-stopCh.
WorkerDrop_Default(w) ==
  /\ Alive
  /\ wpc[w] = "reply"
  /\ Len(res_ch) = ResCap
  /\ wop' = [wop EXCEPT ![w] = None]
  /\ wpc' = [wpc EXCEPT ![w] = "start"]
  /\ UNCHANGED <<main, wg, inputVars, ops, res_ch, resultVars, stdout, closed,
                 timedOut>>

\* The worker's select sees stopCh closed and drops the result.  (Go
\* chooses at random when res_ch has room as well.)
WorkerDrop(w) ==
  /\ Alive
  /\ wpc[w] = "reply"
  /\ "stopCh" \in closed
  /\ wop' = [wop EXCEPT ![w] = None]
  /\ wpc' = [wpc EXCEPT ![w] = "start"]
  /\ UNCHANGED <<main, wg, inputVars, ops, res_ch, resultVars, stdout, closed,
                 timedOut>>

-----------------------------------------------------------------------------
(* Phase 4: collate.                                                       *)

CloseOps ==
  /\ main = "dispatch"
  /\ ops = <<>>
  /\ closed' = closed \cup {"op_ch"}
  /\ main' = "wait"
  /\ UNCHANGED <<inputVars, ops, workerVars, res_ch, resultVars, stdout,
                 timedOut>>

\* As WaitDone, but satisfied by the first worker that is done.
WaitDone_First ==
  /\ main = "wait"
  /\ wg = 0 \/ \E w \in Operation : wpc[w] = "exit"
  /\ main' = "stop"
  /\ UNCHANGED <<inputVars, ops, workerVars, res_ch, resultVars, stdout,
                 closed, timedOut>>

\* Every worker is done.
WaitDone ==
  /\ main = "wait"
  /\ wg = 0
  /\ main' = "stop"
  /\ UNCHANGED <<inputVars, ops, workerVars, res_ch, resultVars, stdout,
                 closed, timedOut>>

\* As WaitTimeout, without the time.After branch.
WaitTimeout_Never == FALSE

\* 30 s have passed.
WaitTimeout ==
  /\ main = "wait"
  /\ main' = "stop"
  /\ timedOut' = TRUE
  /\ UNCHANGED <<inputVars, ops, workerVars, res_ch, resultVars, stdout,
                 closed>>

Stop ==
  /\ main = "stop"
  /\ closed' = closed \cup {"stopCh"}
  /\ main' = "close_messenger"
  /\ UNCHANGED <<inputVars, ops, workerVars, res_ch, resultVars, stdout,
                 timedOut>>

CloseMessenger ==
  /\ main = "close_messenger"
  /\ closed' = closed \cup {"messenger"}
  /\ main' = "await_results"
  /\ UNCHANGED <<inputVars, ops, workerVars, res_ch, resultVars, stdout,
                 timedOut>>

\* The messenger's select takes a result ...
MessengerTake ==
  /\ Alive
  /\ messenger = "select"
  /\ res_ch # <<>>
  /\ held' = Head(res_ch)
  /\ res_ch' = Tail(res_ch)
  /\ messenger' = "forward"
  /\ UNCHANGED <<main, inputVars, ops, workerVars, rpc, results, stdout,
                 closed, timedOut>>

\* ... and hands it to result_loop.
MessengerForward ==
  /\ Alive
  /\ messenger = "forward"
  /\ rpc = "collect"
  /\ results' = Append(results, held)
  /\ held' = None
  /\ messenger' = "select"
  /\ UNCHANGED <<main, inputVars, ops, workerVars, res_ch, rpc, stdout,
                 closed, timedOut>>

\* The messenger's select sees close_this: it closes final_res_ch, whatever
\* res_ch still holds.
MessengerClose ==
  /\ Alive
  /\ messenger = "select"
  /\ "messenger" \in closed
  /\ messenger' = "closed"
  /\ UNCHANGED <<main, inputVars, ops, workerVars, res_ch, held, rpc, results,
                 stdout, closed, timedOut>>

\* final_res_ch is closed: result_loop stops collecting ...
ResultsCollected ==
  /\ Alive
  /\ rpc = "collect"
  /\ messenger = "closed"
  /\ rpc' = "send"
  /\ UNCHANGED <<main, inputVars, ops, workerVars, res_ch, messenger, held,
                 results, stdout, closed, timedOut>>

\* ... writes every result it has ...
ResultSend ==
  /\ Alive
  /\ rpc = "send"
  /\ results # <<>>
  /\ stdout' = Append(stdout, Result(Head(results)))
  /\ results' = Tail(results)
  /\ UNCHANGED <<main, inputVars, ops, workerVars, res_ch, messenger, held,
                 rpc, closed, timedOut>>

\* ... and closes results_complete.
ResultsDone ==
  /\ Alive
  /\ rpc = "send"
  /\ results = <<>>
  /\ rpc' = "done"
  /\ UNCHANGED <<main, inputVars, ops, workerVars, res_ch, messenger, held,
                 results, stdout, closed, timedOut>>

\* As SendFinished, without waiting for results_complete.
SendFinished_NoWait ==
  /\ main = "await_results"
  /\ stdout' = Append(stdout, Finished)
  /\ main' = IF rpc = "done" THEN "exit" ELSE main
  /\ UNCHANGED <<inputVars, ops, workerVars, res_ch, resultVars, closed,
                 timedOut>>

\* results_complete is closed: main writes finished and returns.
SendFinished ==
  /\ main = "await_results"
  /\ rpc = "done"
  /\ stdout' = Append(stdout, Finished)
  /\ main' = "exit"
  /\ UNCHANGED <<inputVars, ops, workerVars, res_ch, resultVars, closed,
                 timedOut>>

-----------------------------------------------------------------------------
\* What the load generator and the system under test decide.
Generator ==
  \/ \E o \in Operation : RecvPrereq(o) \/ RecvOp(o)
  \/ RecvFinalise
  \/ RecvFails
  \/ RecvStart

SystemUnderTest ==
  \/ CreateClient
  \/ PrereqDone
  \/ \E w \in Operation : PerformReturns(w) \/ PerformFatal(w)

\* The steps of each goroutine that depend on this process only.
Main ==
  \/ SendReady \/ FlushPrereq \/ FlushDone
  \/ \E w \in Operation : DispatchToIdle(w) \/ Handoff(w)
  \/ SpawnWorker
  \/ CloseOps \/ WaitDone \/ WaitTimeout \/ Stop \/ CloseMessenger
  \/ SendFinished
Worker(w) == WorkerPark(w) \/ WorkerExit(w) \/ WorkerSend(w) \/ WorkerDrop(w)
Messenger == MessengerTake \/ MessengerForward \/ MessengerClose
ResultLoop == ResultsCollected \/ ResultSend \/ ResultsDone

\* The process has ended; nothing more happens.
Ended == ~Alive /\ UNCHANGED vars

Next ==
  \/ Generator
  \/ SystemUnderTest
  \/ Main
  \/ \E w \in Operation : Worker(w)
  \/ Messenger
  \/ ResultLoop
  \/ Ended

\* The Go scheduler runs every runnable goroutine.  Nothing is assumed of
\* the generator, nor of how long an operation takes.
Fairness ==
  /\ WF_vars(Main)
  /\ \A w \in Operation : WF_vars(Worker(w))
  /\ WF_vars(Messenger)
  /\ WF_vars(ResultLoop)

Spec == Init /\ [][Next]_vars
FairSpec == Spec /\ Fairness

-----------------------------------------------------------------------------
\* Types: res_ch never holds more than its capacity, and wg_perform is never
\* decremented below zero (which would end the process).
TypeOK ==
  /\ main \in MainPoints
  /\ cur \in Operation \cup {None}
  /\ preloads \in Seq(Operation)
  /\ ops \in Seq(Operation)
  /\ wpc \in [Operation -> WorkerPoints]
  /\ wop \in [Operation -> Operation \cup {None}]
  /\ wg \in Nat
  /\ res_ch \in Seq(Operation) /\ Len(res_ch) <= ResCap
  /\ messenger \in {"off", "select", "forward", "closed"}
  /\ held \in Operation \cup {None}
  /\ rpc \in {"off", "collect", "send", "done"}
  /\ results \in Seq(Operation)
  /\ stdout \in Seq(Message)
  /\ closed \subseteq {"op_ch", "stopCh", "messenger"}
  /\ timedOut \in BOOLEAN
  /\ received \subseteq Operation

\* The client is an open-loop load generator: when the dispatcher blocks to
\* hand over an operation, some worker is on its way to take it, so that a
\* dispatch never waits for another operation to complete.
OpenLoop ==
  main = "handoff" => \E w \in Operation : wpc[w] = "start"

\* When the client reports finished and the timer has not fired, no worker is
\* left that could still be performing an operation on the system: wg_perform
\* counts every worker, and op_ch reaches each of them.
ExitQuiescent ==
  main = "exit" /\ ~timedOut =>
    \A w \in Operation : wpc[w] \in {"unborn", "exit"}

\* Where operation o, or its result, is in the process or on stdout.
PositionsOf(o, s) == {i \in DOMAIN s : s[i] = o}
Places(o) ==
  ({"cur"} \X {x \in {cur} : x = o})
  \cup ({"held"} \X {x \in {held} : x = o})
  \cup ({"worker"} \X {w \in Operation : wop[w] = o})
  \cup ({"preloads"} \X PositionsOf(o, preloads))
  \cup ({"ops"} \X PositionsOf(o, ops))
  \cup ({"res_ch"} \X PositionsOf(o, res_ch))
  \cup ({"results"} \X PositionsOf(o, results))
  \cup ({"stdout"} \X PositionsOf(Result(o), stdout))

\* Across the dispatcher, the workers, both result channels and result_loop
\* no operation is performed or reported twice; and until stopCh is closed
\* none is dropped: whatever was received is queued, being performed, or on
\* its way to stdout.
AccountedFor ==
  /\ \A o \in Operation : Cardinality(Places(o)) <= 1
  /\ "stopCh" \notin closed => \A o \in received : Places(o) # {}

\* A client that was started finishes, or dies of a fatal error, even when
\* some of its operations never return: the 30 s timer bounds the wait, and
\* neither a full res_ch nor a blocked worker holds up the shutdown.
Finishes == (main = "flush") ~> ~Alive

\* "Got all results, writing to load generator" (client.go:21): when every
\* worker is done before the timer fires, the generator gets every result.
AllResultsReported ==
  main = "exit" /\ ~timedOut =>
    \A o \in received : PositionsOf(Result(o), stdout) # {}

-----------------------------------------------------------------------------
(* The conversation the process holds on its stdin and stdout.             *)

ProtocolPhase ==
  CASE main \in {"create", "preload", "prereq", "ready"} -> "preload"
    [] main = "await_start" -> "ready"
    [] main = "exit" -> "finished"
    [] main = "fatal" -> "failed"
    [] OTHER -> "running"

Unanswered == {o \in received : PositionsOf(Result(o), stdout) = {}}

Protocol == INSTANCE ClientProtocol
              WITH phase <- ProtocolPhase, pending <- Unanswered

\* The process keeps the conversation every client owes the generator:
\* ready once, results only after start and only for loaded operations, each
\* at most once, finished last, and finished always once it was started.
ImplementsProtocol == Protocol!Spec

=============================================================================
