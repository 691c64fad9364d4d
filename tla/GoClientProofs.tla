--------------------------- MODULE GoClientProofs ---------------------------
(***************************************************************************)
(* Proofs about GoClient for every finite set of operations and every      *)
(* capacity of res_ch: type correctness; the open loop and the clean exit  *)
(* (OpenLoop, ExitQuiescent); that no result is lost or repeated on its    *)
(* way to stdout (AccountedFor); and that every step is one ClientProtocol *)
(* allows (ProtocolSafety).                                                *)
(***************************************************************************)
EXTENDS GoClient, FiniteSetTheorems, TLAPS

-----------------------------------------------------------------------------
(* The inductive invariant.                                                *)

\* A goroutine that is about to pass a result on has one.
Holding ==
  /\ main = "prereq" => cur \in Operation
  /\ messenger = "forward" => held \in Operation
  /\ \A w \in Operation :
       wpc[w] \in {"perform", "reply"} => wop[w] \in Operation

TypeInv == TypeOK /\ Holding

\* op_ch is open as long as main may still send on it.
OpChOpen ==
  main \in MainPoints \ {"wait", "stop", "close_messenger", "await_results",
                         "exit", "fatal"} => "op_ch" \notin closed

\* The queue of operations repeats nothing, and the worker named after a
\* queued operation has not been spawned, except the one that main is (or was)
\* blocked on.
OpsFresh ==
  /\ \A k \in 1..Len(ops) :
       /\ ops[k] \in received
       /\ \A j \in 1..Len(ops) : ops[j] = ops[k] => j = k
       /\ wpc[ops[k]] = "unborn" \/ (k = 1 /\ main \in {"handoff", "fatal"})
  /\ \A w \in Operation : wpc[w] # "unborn" => w \in received
  /\ main = "handoff" => ops # <<>>

\* wg_perform counts the workers that have not returned.
Live == {w \in Operation : wpc[w] \notin {"unborn", "exit"}}
CountExact == wg = Cardinality(Live)

\* Past the wait, unless the timer ended it, no worker is left.
Quiet ==
  main \in {"stop", "close_messenger", "await_results", "exit"} /\ ~timedOut
    => Live = {}

WorkerInv ==
  /\ OpChOpen
  /\ OpsFresh
  /\ OpenLoop
  /\ CountExact
  /\ Quiet

-----------------------------------------------------------------------------
\* The live workers are finitely many, their number is a natural number, and
\* it is positive when there is one.
LEMMA LiveCount ==
  /\ IsFiniteSet(Live)
  /\ Cardinality(Live) \in Nat
  /\ \A w \in Live : Cardinality(Live) >= 1
<1>1. IsFiniteSet(Live)
  BY OperationAssumption, FS_Subset DEF Live
<1>2. Cardinality(Live) \in Nat
  BY <1>1, FS_CardinalityType
<1>3. Cardinality(Live) = 0 <=> Live = {}
  BY <1>1, FS_EmptySet
<1>4. QED
  BY <1>1, <1>2, <1>3

\* The type invariant holds: in particular res_ch never holds more than
\* its capacity and wg_perform never becomes negative.
LEMMA TypeInit == Init => TypeInv
<1>1. ASSUME Init PROVE TypeOK
  <2>1. wpc \in [Operation -> WorkerPoints]
    BY <1>1 DEF Init, WorkerPoints
  <2>2. wop \in [Operation -> Operation \cup {None}]
    BY <1>1 DEF Init
  <2>3. /\ preloads \in Seq(Operation)
        /\ ops \in Seq(Operation)
        /\ res_ch \in Seq(Operation) /\ Len(res_ch) <= ResCap
        /\ results \in Seq(Operation)
        /\ stdout \in Seq(Message)
    BY <1>1, ResCapAssumption DEF Init
  <2>4. QED
    BY <1>1, <2>1, <2>2, <2>3 DEF Init, TypeOK, MainPoints
<1>2. Init => Holding
  BY DEF Init, Holding
<1>3. QED
  BY <1>1, <1>2 DEF TypeInv

\* Every step keeps the state well typed; the worker's count is what keeps
\* wg_perform a natural number when a worker leaves.
LEMMA TypeStep ==
  ASSUME TypeInv, WorkerInv, [Next]_vars
  PROVE  TypeInv'
<1> USE OperationAssumption, ResCapAssumption
    DEF TypeInv, TypeOK, Holding, MainPoints, WorkerPoints, inputVars,
        workerVars, resultVars
<1>1. CASE CreateClient BY <1>1 DEF CreateClient
<1>2. ASSUME NEW o \in Operation, RecvPrereq(o) PROVE TypeInv'
  BY <1>2 DEF RecvPrereq
<1>3. CASE PrereqDone BY <1>3 DEF PrereqDone
<1>4. ASSUME NEW o \in Operation, RecvOp(o) PROVE TypeInv'
  BY <1>4 DEF RecvOp
<1>5. CASE RecvFinalise BY <1>5 DEF RecvFinalise
<1>6. CASE RecvFails BY <1>6 DEF RecvFails
<1>7. CASE SendReady BY <1>7 DEF SendReady, Message
<1>8. CASE RecvStart BY <1>8 DEF RecvStart
<1>9. CASE FlushPrereq BY <1>9 DEF FlushPrereq
<1>10. CASE FlushDone BY <1>10 DEF FlushDone
<1>11. ASSUME NEW w \in Operation, DispatchToIdle(w) PROVE TypeInv'
  BY <1>11 DEF DispatchToIdle, TakesOp
<1>12. CASE SpawnWorker BY <1>12 DEF SpawnWorker
<1>13. ASSUME NEW w \in Operation, Handoff(w) PROVE TypeInv'
  <2>1. ops # <<>>
    BY <1>13 DEF Handoff, WorkerInv, OpsFresh
  <2>2. QED
    BY <1>13, <2>1 DEF Handoff, TakesOp
<1>14. ASSUME NEW w \in Operation, WorkerPark(w) PROVE TypeInv'
  BY <1>14 DEF WorkerPark
<1>15. ASSUME NEW w \in Operation, WorkerExit(w) PROVE TypeInv'
  <2>1. w \in Live
    BY <1>15 DEF WorkerExit, Live
  <2>2. wg - 1 \in Nat
    BY <2>1, LiveCount DEF WorkerInv, CountExact
  <2>3. QED
    BY <1>15, <2>2 DEF WorkerExit
<1>16. ASSUME NEW w \in Operation, PerformReturns(w) PROVE TypeInv'
  BY <1>16 DEF PerformReturns
<1>17. ASSUME NEW w \in Operation, PerformFatal(w) PROVE TypeInv'
  BY <1>17 DEF PerformFatal
<1>18. ASSUME NEW w \in Operation, WorkerSend(w) PROVE TypeInv'
  BY <1>18 DEF WorkerSend
<1>19. ASSUME NEW w \in Operation, WorkerDrop(w) PROVE TypeInv'
  BY <1>19 DEF WorkerDrop
<1>20. CASE CloseOps BY <1>20 DEF CloseOps
<1>21. CASE WaitDone BY <1>21 DEF WaitDone
<1>22. CASE WaitTimeout BY <1>22 DEF WaitTimeout
<1>23. CASE Stop BY <1>23 DEF Stop
<1>24. CASE CloseMessenger BY <1>24 DEF CloseMessenger
<1>25. CASE MessengerTake BY <1>25 DEF MessengerTake
<1>26. CASE MessengerForward BY <1>26 DEF MessengerForward
<1>27. CASE MessengerClose BY <1>27 DEF MessengerClose
<1>28. CASE ResultsCollected BY <1>28 DEF ResultsCollected
<1>29. CASE ResultSend BY <1>29 DEF ResultSend, Message
<1>30. CASE ResultsDone BY <1>30 DEF ResultsDone
<1>31. CASE SendFinished BY <1>31 DEF SendFinished, Message
<1>32. CASE UNCHANGED vars BY <1>32 DEF vars
<1>33. QED
  BY <1>1, <1>2, <1>3, <1>4, <1>5, <1>6, <1>7, <1>8, <1>9, <1>10, <1>11,
     <1>12, <1>13, <1>14, <1>15, <1>16, <1>17, <1>18, <1>19, <1>20, <1>21,
     <1>22, <1>23, <1>24, <1>25, <1>26, <1>27, <1>28, <1>29, <1>30, <1>31,
     <1>32
  DEF Next, Generator, SystemUnderTest, Main, Worker, Messenger, ResultLoop,
      Ended

-----------------------------------------------------------------------------
(* Preservation of WorkerInv.                                              *)

\* No worker exists and nothing is closed when Run_Client begins.
LEMMA WorkerInit == Init => WorkerInv
<1> SUFFICES ASSUME Init PROVE WorkerInv
  OBVIOUS
<1>1. Live = {}
  BY DEF Init, Live
<1>2. CountExact
  BY <1>1, FS_EmptySet DEF Init, CountExact
<1>3. OpsFresh
  BY DEF Init, OpsFresh
<1>4. QED
  BY <1>1, <1>2, <1>3 DEF Init, WorkerInv, OpChOpen, OpenLoop, Quiet

\* Steps of main and of the result goroutines that touch no worker, queue or
\* count, and do not enter the handoff.
LEMMA WorkersUntouched ==
  ASSUME TypeInv, WorkerInv,
         UNCHANGED <<ops, workerVars>>,
         received \subseteq received',
         main \notin {"handoff", "fatal"}, main' # "handoff"
  PROVE  OpsFresh' /\ OpenLoop' /\ CountExact' /\ Live' = Live
<1>1. OpsFresh'
  BY DEF WorkerInv, OpsFresh, workerVars
<1>2. OpenLoop'
  BY DEF OpenLoop
<1>3. Live' = Live
  BY DEF Live, workerVars
<1>4. CountExact'
  BY <1>3 DEF WorkerInv, CountExact, workerVars
<1>5. QED
  BY <1>1, <1>2, <1>3, <1>4

\* A worker that moves between live program points, with main elsewhere than
\* at the handoff or the worker elsewhere than at the start of its loop.
LEMMA WorkerMoves ==
  ASSUME TypeInv, WorkerInv,
         NEW w \in Operation, NEW p \in {"start", "recv", "perform", "reply"},
         w \in Live, wpc' = [wpc EXCEPT ![w] = p],
         UNCHANGED <<main, ops, wg, received, timedOut, closed>>,
         main = "handoff" => wpc[w] # "start"
  PROVE  WorkerInv'
<1> USE DEF TypeInv, TypeOK
<1>1. Live' = Live
  BY DEF Live
<1>2. OpsFresh'
  BY DEF WorkerInv, OpsFresh, Live
<1>3. OpenLoop'
  BY DEF WorkerInv, OpenLoop
<1>4. QED
  BY <1>1, <1>2, <1>3 DEF WorkerInv, OpChOpen, CountExact, Quiet

\* A worker takes the operation at the head of the queue, and main is at the
\* dispatch afterwards.
LEMMA WorkerTakes ==
  ASSUME TypeInv, WorkerInv, NEW w \in Operation,
         ops # <<>>, w \in Live, TakesOp(w),
         main \in {"dispatch", "handoff"}, main' = "dispatch",
         UNCHANGED <<wg, received, timedOut, closed>>
  PROVE  WorkerInv'
<1> USE DEF TypeInv, TypeOK
<1>1. Live' = Live
  BY DEF Live, TakesOp
<1>2. OpsFresh'
  <2>1. /\ Len(ops') = Len(ops) - 1
        /\ \A k \in 1..Len(ops') : k + 1 \in 1..Len(ops) /\ ops'[k] = ops[k + 1]
    BY DEF TakesOp
  <2>2. ASSUME NEW k \in 1..Len(ops')
        PROVE  /\ ops'[k] \in received'
               /\ \A j \in 1..Len(ops') : ops'[j] = ops'[k] => j = k
               /\ wpc'[ops'[k]] = "unborn"
    <3>1. k + 1 \in 1..Len(ops) /\ k + 1 # 1 /\ ops'[k] = ops[k + 1]
      BY <2>1, <2>2
    <3>2. wpc[ops[k + 1]] = "unborn" /\ ops[k + 1] \in received
      BY <3>1 DEF WorkerInv, OpsFresh
    <3>3. ops[k + 1] # w
      BY <3>2 DEF Live
    <3>4. wpc'[ops'[k]] = "unborn"
      BY <3>1, <3>2, <3>3 DEF TakesOp
    <3>5. ASSUME NEW j \in 1..Len(ops'), ops'[j] = ops'[k] PROVE j = k
      <4>1. j + 1 \in 1..Len(ops) /\ ops[j + 1] = ops[k + 1]
        BY <2>1, <3>1, <3>5
      <4>2. j + 1 = k + 1
        BY <3>1, <4>1 DEF WorkerInv, OpsFresh
      <4>3. QED
        BY <2>1, <4>2
    <3>6. QED
      BY <3>1, <3>2, <3>4, <3>5
  <2>3. ASSUME NEW v \in Operation, wpc'[v] # "unborn" PROVE v \in received'
    BY <2>3 DEF TakesOp, WorkerInv, OpsFresh, Live
  <2>4. QED
    BY <2>2, <2>3 DEF OpsFresh
<1>3. OpenLoop'
  BY DEF OpenLoop
<1>4. QED
  BY <1>1, <1>2, <1>3 DEF WorkerInv, OpChOpen, CountExact, Quiet, MainPoints

\* The new worker makes the count one larger, and it is the worker that main
\* then waits for.
LEMMA WorkerSpawns ==
  ASSUME TypeInv, WorkerInv, SpawnWorker
  PROVE  WorkerInv'
<1> USE DEF TypeInv, TypeOK
<1> DEFINE h == Head(ops)
<1>1. 1 \in 1..Len(ops) /\ h = ops[1] /\ h \in Operation
  BY DEF SpawnWorker
<1>2. wpc[h] = "unborn" /\ h \in received
  BY <1>1 DEF SpawnWorker, WorkerInv, OpsFresh
<1>3. wpc' = [wpc EXCEPT ![h] = "start"]
  BY DEF SpawnWorker
<1>4. Live' = Live \cup {h} /\ h \notin Live
  BY <1>1, <1>2, <1>3 DEF Live, WorkerPoints
<1>5. CountExact'
  <2>1. Cardinality(Live \cup {h}) = Cardinality(Live) + 1
    BY <1>4, LiveCount, FS_AddElement
  <2>2. QED
    BY <1>4, <2>1 DEF SpawnWorker, WorkerInv, CountExact
<1>6. OpsFresh'
  BY <1>1, <1>2, <1>3 DEF SpawnWorker, WorkerInv, OpsFresh, inputVars
<1>7. OpenLoop'
  BY <1>1, <1>3 DEF OpenLoop
<1>8. QED
  BY <1>5, <1>6, <1>7
  DEF SpawnWorker, WorkerInv, OpChOpen, Quiet, MainPoints

\* A worker that leaves its loop is counted off.
LEMMA WorkerLeaves ==
  ASSUME TypeInv, WorkerInv, NEW w \in Operation, WorkerExit(w)
  PROVE  WorkerInv'
<1> USE DEF TypeInv, TypeOK
<1>1. main # "handoff"
  BY DEF WorkerExit, WorkerInv, OpChOpen, MainPoints
<1>2. w \in Live /\ Live' = Live \ {w}
  BY DEF WorkerExit, Live
<1>3. CountExact'
  <2>1. Cardinality(Live \ {w}) = Cardinality(Live) - 1
    BY <1>2, LiveCount, FS_RemoveElement
  <2>2. QED
    BY <1>2, <2>1 DEF WorkerExit, WorkerInv, CountExact
<1>4. OpsFresh'
  BY <1>1, <1>2 DEF WorkerExit, WorkerInv, OpsFresh, inputVars, Live
<1>5. OpenLoop'
  BY <1>1 DEF WorkerExit, OpenLoop
<1>6. QED
  BY <1>2, <1>3, <1>4, <1>5 DEF WorkerExit, WorkerInv, OpChOpen, Quiet

\* Every step preserves WorkerInv.
LEMMA WorkerStep ==
  ASSUME TypeInv, WorkerInv, [Next]_vars
  PROVE  WorkerInv'
<1> USE DEF inputVars, workerVars, resultVars
\* The steps that touch neither the workers nor the queue.
<1>1. ASSUME \/ CreateClient \/ (\E o \in Operation : RecvPrereq(o))
             \/ PrereqDone \/ RecvFinalise \/ RecvFails \/ SendReady
             \/ RecvStart \/ FlushPrereq \/ FlushDone
             \/ CloseOps \/ WaitDone \/ WaitTimeout \/ Stop \/ CloseMessenger
             \/ SendFinished
      PROVE  WorkerInv'
  <2>1. /\ UNCHANGED <<ops, workerVars>> /\ received \subseteq received'
        /\ main \notin {"handoff", "fatal"} /\ main' # "handoff"
    BY <1>1 DEF CreateClient, RecvPrereq, PrereqDone, RecvFinalise, RecvFails,
       SendReady, RecvStart, FlushPrereq, FlushDone, CloseOps, WaitDone,
       WaitTimeout, Stop, CloseMessenger, SendFinished
  <2>2. OpsFresh' /\ OpenLoop' /\ CountExact' /\ Live' = Live
    BY <2>1, WorkersUntouched
  <2>3. OpChOpen'
    BY <1>1 DEF WorkerInv, OpChOpen, MainPoints, CreateClient, RecvPrereq,
       PrereqDone, RecvFinalise, RecvFails, SendReady, RecvStart, FlushPrereq,
       FlushDone, CloseOps, WaitDone, WaitTimeout, Stop, CloseMessenger,
       SendFinished
  <2>4. Quiet'
    <3>1. CASE WaitDone
      <4>1. Live = {}
        BY <3>1, LiveCount, FS_EmptySet DEF WaitDone, WorkerInv, CountExact
      <4>2. QED
        BY <2>2, <4>1 DEF Quiet
    <3>2. CASE ~WaitDone
      BY <1>1, <2>2, <3>2 DEF WorkerInv, Quiet, CreateClient, RecvPrereq,
         PrereqDone, RecvFinalise, RecvFails, SendReady, RecvStart,
         FlushPrereq, FlushDone, CloseOps, WaitTimeout, Stop, CloseMessenger,
         SendFinished
    <3>3. QED
      BY <3>1, <3>2
  <2>5. QED
    BY <2>2, <2>3, <2>4 DEF WorkerInv
<1>2. ASSUME NEW o \in Operation, RecvOp(o) PROVE WorkerInv'
  <2> USE DEF TypeInv, TypeOK
  <2>1. /\ Len(ops') = Len(ops) + 1
        /\ ops'[Len(ops) + 1] = o
        /\ \A k \in 1..Len(ops) : ops'[k] = ops[k]
    BY <1>2 DEF RecvOp
  <2>2. wpc[o] = "unborn" /\ \A k \in 1..Len(ops) : ops[k] # o
    BY <1>2 DEF RecvOp, WorkerInv, OpsFresh
  <2>3. OpsFresh'
    BY <1>2, <2>1, <2>2 DEF RecvOp, WorkerInv, OpsFresh
  <2>4. Live' = Live
    BY <1>2 DEF RecvOp, Live
  <2>5. QED
    BY <1>2, <2>3, <2>4
    DEF RecvOp, WorkerInv, OpChOpen, OpenLoop, CountExact, Quiet
<1>3. ASSUME NEW w \in Operation, DispatchToIdle(w) PROVE WorkerInv'
  <2>1. w \in Live
    BY <1>3 DEF DispatchToIdle, Live
  <2>2. QED
    BY <1>3, <2>1, WorkerTakes DEF DispatchToIdle
<1>4. CASE SpawnWorker
  BY <1>4, WorkerSpawns
<1>5. ASSUME NEW w \in Operation, Handoff(w) PROVE WorkerInv'
  <2>1. w \in Live /\ ops # <<>>
    BY <1>5 DEF Handoff, Live, WorkerInv, OpsFresh
  <2>2. QED
    BY <1>5, <2>1, WorkerTakes DEF Handoff
<1>6. ASSUME NEW w \in Operation, WorkerPark(w) PROVE WorkerInv'
  <2>1. w \in Live
    BY <1>6 DEF WorkerPark, Live
  <2>2. QED
    BY <1>6, <2>1, WorkerMoves DEF WorkerPark
<1>7. ASSUME NEW w \in Operation, PerformReturns(w) PROVE WorkerInv'
  <2>1. w \in Live
    BY <1>7 DEF PerformReturns, Live
  <2>2. QED
    BY <1>7, <2>1, WorkerMoves DEF PerformReturns
<1>8. ASSUME NEW w \in Operation, WorkerSend(w) \/ WorkerDrop(w)
      PROVE  WorkerInv'
  <2>1. w \in Live
    BY <1>8 DEF WorkerSend, WorkerDrop, Live
  <2>2. QED
    BY <1>8, <2>1, WorkerMoves DEF WorkerSend, WorkerDrop
<1>9. ASSUME NEW w \in Operation, WorkerExit(w) PROVE WorkerInv'
  BY <1>9, WorkerLeaves
\* A fatal error ends the process with the handoff, if any, unfinished.
<1>10. ASSUME NEW w \in Operation, PerformFatal(w) PROVE WorkerInv'
  <2>1. Live' = Live
    BY <1>10 DEF PerformFatal, Live
  <2>2. OpsFresh'
    BY <1>10 DEF PerformFatal, WorkerInv, OpsFresh
  <2>3. QED
    BY <1>10, <2>1, <2>2
    DEF PerformFatal, WorkerInv, OpChOpen, OpenLoop, CountExact, Quiet
<1>11. CASE Messenger \/ ResultLoop \/ UNCHANGED vars
  <2>1. UNCHANGED <<main, ops, workerVars, received, closed, timedOut>>
    BY <1>11 DEF Messenger, ResultLoop, MessengerTake, MessengerForward,
       MessengerClose, ResultsCollected, ResultSend, ResultsDone, vars
  <2>2. Live' = Live
    BY <2>1 DEF Live
  <2>3. OpsFresh'
    BY <2>1 DEF WorkerInv, OpsFresh
  <2>4. QED
    BY <2>1, <2>2, <2>3 DEF WorkerInv, OpChOpen, OpenLoop, CountExact, Quiet
<1>12. QED
  BY <1>1, <1>2, <1>3, <1>4, <1>5, <1>6, <1>7, <1>8, <1>9, <1>10, <1>11
  DEF Next, Generator, SystemUnderTest, Main, Worker, Ended

-----------------------------------------------------------------------------
(* Where an operation is.                                                  *)

Unique(s) == \A j, k \in 1..Len(s) : s[j] = s[k] => j = k
Occurs(x, s) == \E k \in 1..Len(s) : s[k] = x

\* The places of Places(o), by name.
Place == {"cur", "held", "worker", "preloads", "ops", "res_ch", "results",
          "stdout"}
IsAt(o, p) ==
  \/ p = "cur" /\ cur = o
  \/ p = "held" /\ held = o
  \/ p = "worker" /\ \E w \in Operation : wop[w] = o
  \/ p = "preloads" /\ Occurs(o, preloads)
  \/ p = "ops" /\ Occurs(o, ops)
  \/ p = "res_ch" /\ Occurs(o, res_ch)
  \/ p = "results" /\ Occurs(o, results)
  \/ p = "stdout" /\ Occurs(Result(o), stdout)

\* An operation is in one place, and only if it was received; until stopCh
\* is closed every operation received is somewhere.
OnePlace ==
  \A o \in Operation : \A p, q \in Place : IsAt(o, p) /\ IsAt(o, q) => p = q
Known == \A o \in Operation : \A p \in Place : IsAt(o, p) => o \in received
Kept ==
  "stopCh" \notin closed => \A o \in received : \E p \in Place : IsAt(o, p)
Whereabouts == OnePlace /\ Known /\ Kept

\* In that place it is once.
NoRepeat ==
  /\ Unique(preloads) /\ Unique(ops) /\ Unique(res_ch) /\ Unique(results)
  /\ \A o \in Operation : \A j, k \in 1..Len(stdout) :
       stdout[j] = Result(o) /\ stdout[k] = Result(o) => j = k
  /\ \A v, w \in Operation : wop[v] = wop[w] /\ wop[v] # None => v = w

\* Nobody overwrites an operation: a goroutine that takes one has none.
EmptyHanded ==
  /\ main \notin {"prereq", "fatal"} => cur = None
  /\ messenger # "forward" => held = None
  /\ main \in {"create", "preload", "prereq", "ready"} => messenger = "off"
  /\ \A w \in Operation : wpc[w] \notin {"perform", "reply"} => wop[w] = None

PlaceInv == Whereabouts /\ NoRepeat /\ EmptyHanded

\* The result goroutines follow main's shutdown.
ShutdownOrder ==
  /\ "messenger" \in closed => main \in {"await_results", "exit", "fatal"}
  /\ messenger = "closed" => "messenger" \in closed
  /\ rpc \in {"send", "done"} => messenger = "closed"

\* Occurrences in a sequence that grows at its end ...
LEMMA AppendOccurs ==
  ASSUME NEW S, NEW s \in Seq(S), NEW x \in S
  PROVE  /\ \A y : Occurs(y, Append(s, x)) <=> Occurs(y, s) \/ y = x
         /\ Unique(s) /\ ~Occurs(x, s) => Unique(Append(s, x))
<1>1. /\ Len(s) \in Nat /\ Len(Append(s, x)) = Len(s) + 1
      /\ Append(s, x)[Len(s) + 1] = x
      /\ \A k \in 1..Len(s) : Append(s, x)[k] = s[k]
  OBVIOUS
<1> DEFINE t == Append(s, x)
<1> HIDE DEF t
<1>2. /\ Len(t) = Len(s) + 1 /\ t[Len(s) + 1] = x
      /\ \A k \in 1..Len(s) : t[k] = s[k] /\ k \in 1..Len(t)
      /\ Len(s) + 1 \in 1..Len(t)
      /\ \A k \in 1..Len(t) : k \in 1..Len(s) \/ k = Len(s) + 1
  BY <1>1 DEF t
<1>3. \A y : Occurs(y, t) <=> Occurs(y, s) \/ y = x
  BY <1>2 DEF Occurs
<1>4. Unique(s) /\ ~Occurs(x, s) => Unique(t)
  BY <1>2 DEF Occurs, Unique
<1>5. QED
  BY <1>3, <1>4 DEF t

\* ... and that loses its head.
LEMMA TailOccurs ==
  ASSUME NEW S, NEW s \in Seq(S), s # <<>>, Unique(s)
  PROVE  /\ Head(s) \in S /\ Occurs(Head(s), s)
         /\ \A y : Occurs(y, Tail(s)) <=> Occurs(y, s) /\ y # Head(s)
         /\ Unique(Tail(s))
<1>1. /\ Len(s) \in Nat \ {0} /\ Len(Tail(s)) = Len(s) - 1 /\ Head(s) = s[1]
      /\ \A k \in 1..Len(Tail(s)) : Tail(s)[k] = s[k + 1]
      /\ Head(s) \in S
  OBVIOUS
<1> DEFINE t == Tail(s)
<1> HIDE DEF t
<1>2. /\ \A k \in 1..Len(t) : k + 1 \in 1..Len(s) /\ t[k] = s[k + 1] /\ k + 1 # 1
      /\ \A k \in 1..Len(s) : k = 1 \/ (k - 1 \in 1..Len(t) /\ t[k - 1] = s[k])
      /\ 1 \in 1..Len(s) /\ s[1] = Head(s)
  BY <1>1 DEF t
<1>3. Occurs(Head(s), s)
  BY <1>2 DEF Occurs
<1>4. ASSUME NEW y, Occurs(y, t) PROVE Occurs(y, s) /\ y # Head(s)
  BY <1>2, <1>4 DEF Occurs, Unique
<1>5. ASSUME NEW y, Occurs(y, s), y # Head(s) PROVE Occurs(y, t)
  BY <1>2, <1>5 DEF Occurs
<1>6. Unique(t)
  <2> SUFFICES ASSUME NEW j \in 1..Len(t), NEW k \in 1..Len(t), t[j] = t[k]
               PROVE  j = k
    BY DEF Unique
  <2>1. j + 1 = k + 1
    BY <1>2 DEF Unique
  <2>2. QED
    BY <2>1
<1>7. QED
  BY <1>1, <1>3, <1>4, <1>5, <1>6 DEF t

\* Results are told apart by their operations, and from the other messages.
LEMMA Words ==
  /\ \A o, p : Result(o) = Result(p) => o = p
  /\ \A o : Result(o) # Ready /\ Result(o) # Finished
  /\ Ready \in Message /\ Finished \in Message
  /\ \A o \in Operation : Result(o) \in Message
BY DEF Result, Ready, Finished, Message

\* An operation moves from a place to another and everything else stays.
LEMMA Moved ==
  ASSUME Whereabouts, NEW m \in Operation, NEW a \in Place, NEW b \in Place,
         IsAt(m, a), a # b,
         \A o \in Operation : \A p \in Place :
           IsAt(o, p)' <=> \/ IsAt(o, p) /\ ~(o = m /\ p = a)
                           \/ o = m /\ p = b,
         received \subseteq Operation, UNCHANGED <<received, closed>>
  PROVE  Whereabouts'
<1>1. m \in received
  BY DEF Whereabouts, Known
<1>2. OnePlace'
  BY DEF Whereabouts, OnePlace
<1>3. Known'
  BY <1>1 DEF Whereabouts, Known
<1>4. Kept'
  <2> SUFFICES ASSUME "stopCh" \notin closed, NEW o \in received
               PROVE  \E p \in Place : IsAt(o, p)'
    BY DEF Kept
  <2>1. PICK p \in Place : IsAt(o, p)
    BY DEF Whereabouts, Kept
  <2>2. QED
    BY <2>1
<1>5. QED
  BY <1>2, <1>3, <1>4 DEF Whereabouts

\* A received operation is put in a first place.
LEMMA Entered ==
  ASSUME Whereabouts, NEW m \in Operation, NEW b \in Place, m \notin received,
         \A o \in Operation : \A p \in Place :
           IsAt(o, p)' <=> IsAt(o, p) \/ (o = m /\ p = b),
         received' = received \cup {m}, received \subseteq Operation,
         UNCHANGED closed
  PROVE  Whereabouts'
BY DEF Whereabouts, OnePlace, Known, Kept

\* At first no operation has been taken.
LEMMA PlaceInit == Init => PlaceInv
<1> SUFFICES ASSUME Init PROVE PlaceInv
  OBVIOUS
<1>1. \A y : ~Occurs(y, <<>>)
  BY DEF Occurs
<1>2. \A o \in Operation : \A p \in Place : ~IsAt(o, p)
  BY <1>1, OperationAssumption DEF Init, IsAt
<1>3. NoRepeat
  BY DEF Init, NoRepeat, Unique
<1>4. QED
  BY <1>2, <1>3
  DEF Init, PlaceInv, Whereabouts, OnePlace, Known, Kept, EmptyHanded

\* A step that moves no operation keeps the places, if it does not reopen
\* stopCh.
LEMMA PlacesKept ==
  ASSUME PlaceInv, TypeInv,
         UNCHANGED <<cur, held, wop, preloads, ops, res_ch, results, received>>,
         closed \subseteq closed',
         \/ UNCHANGED stdout
         \/ \E x \in {Ready, Finished} : stdout' = Append(stdout, x)
  PROVE  Whereabouts' /\ NoRepeat'
<1>0. stdout \in Seq(Message) /\ received \subseteq Operation
  BY DEF TypeInv, TypeOK
<1>1. \A o \in Operation : Occurs(Result(o), stdout') <=> Occurs(Result(o), stdout)
  <2>1. CASE UNCHANGED stdout
    BY <2>1
  <2>2. ASSUME NEW x \in {Ready, Finished}, stdout' = Append(stdout, x)
        PROVE  \A o \in Operation :
                 Occurs(Result(o), stdout') <=> Occurs(Result(o), stdout)
    <3>1. \A y : Occurs(y, stdout') <=> Occurs(y, stdout) \/ y = x
      BY <1>0, <2>2, Words, AppendOccurs
    <3>2. QED
      BY <2>2, <3>1, Words
  <2>3. QED
    BY <2>1, <2>2
<1>2. \A o \in Operation : \A p \in Place : IsAt(o, p)' <=> IsAt(o, p)
  BY <1>1 DEF IsAt
<1>3. Whereabouts'
  BY <1>0, <1>2 DEF PlaceInv, Whereabouts, OnePlace, Known, Kept
<1>4. \A o \in Operation : \A j, k \in 1..Len(stdout') :
        stdout'[j] = Result(o) /\ stdout'[k] = Result(o) => j = k
  <2>1. CASE UNCHANGED stdout
    BY <2>1 DEF PlaceInv, NoRepeat
  <2>2. ASSUME NEW x \in {Ready, Finished}, stdout' = Append(stdout, x)
        PROVE  \A o \in Operation : \A j, k \in 1..Len(stdout') :
                 stdout'[j] = Result(o) /\ stdout'[k] = Result(o) => j = k
    <3>1. /\ \A k \in 1..Len(stdout) : stdout'[k] = stdout[k]
          /\ stdout'[Len(stdout) + 1] = x
          /\ \A k \in 1..Len(stdout') : k \in 1..Len(stdout) \/ k = Len(stdout) + 1
      BY <1>0, <2>2, Words
    <3>2. QED
      BY <2>2, <3>1, Words DEF PlaceInv, NoRepeat
  <2>3. QED
    BY <2>1, <2>2
<1>5. NoRepeat'
  BY <1>4 DEF PlaceInv, NoRepeat
<1>6. QED
  BY <1>3, <1>5

\* The dispatcher's head of the queue goes to a worker with empty hands.
LEMMA TakesPlace ==
  ASSUME TypeInv, PlaceInv, NEW w \in Operation, TakesOp(w), ops # <<>>,
         wpc[w] \in {"start", "recv"},
         UNCHANGED <<cur, held, preloads, res_ch, results, stdout, received,
                     closed, messenger>>,
         main # "prereq" /\ main' = "dispatch" /\ main # "fatal"
  PROVE  PlaceInv'
<1> DEFINE m == Head(ops)
<1>0. /\ ops \in Seq(Operation) /\ received \subseteq Operation
      /\ wop \in [Operation -> Operation \cup {None}]
      /\ wpc \in [Operation -> WorkerPoints]
  BY DEF TypeInv, TypeOK
<1>1. /\ m \in Operation /\ Occurs(m, ops)
      /\ \A y : Occurs(y, Tail(ops)) <=> Occurs(y, ops) /\ y # m
      /\ Unique(Tail(ops))
  BY <1>0, TailOccurs DEF PlaceInv, NoRepeat
<1> HIDE DEF m
<1>2. /\ ops' = Tail(ops) /\ wop' = [wop EXCEPT ![w] = m]
      /\ wpc' = [wpc EXCEPT ![w] = "perform"]
  BY DEF TakesOp, m
<1>3. wop[w] = None
  BY DEF PlaceInv, EmptyHanded
<1>4. ~\E v \in Operation : wop[v] = m
  BY <1>1 DEF PlaceInv, Whereabouts, OnePlace, Place, IsAt
<1>5. \A o \in Operation : (\E v \in Operation : wop'[v] = o)
                             <=> (\E v \in Operation : wop[v] = o) \/ o = m
  BY <1>0, <1>1, <1>2, <1>3, OperationAssumption
<1>6. Whereabouts'
  <2>1. \A o \in Operation : \A p \in Place :
          IsAt(o, p)' <=> \/ IsAt(o, p) /\ ~(o = m /\ p = "ops")
                          \/ o = m /\ p = "worker"
    BY <1>1, <1>2, <1>5 DEF IsAt
  <2>2. IsAt(m, "ops")
    BY <1>1 DEF IsAt
  <2>3. QED
    BY <1>0, <1>1, <2>1, <2>2, Moved DEF PlaceInv, Place
<1>7. NoRepeat'
  BY <1>0, <1>1, <1>2, <1>4, OperationAssumption DEF PlaceInv, NoRepeat
<1>8. EmptyHanded'
  BY <1>0, <1>2 DEF PlaceInv, EmptyHanded
<1>9. QED
  BY <1>6, <1>7, <1>8 DEF PlaceInv

\* Every step moves at most one operation, from the place it is in.
LEMMA PlaceStep ==
  ASSUME TypeInv, WorkerInv, PlaceInv, [Next]_vars
  PROVE  PlaceInv'
<1> USE DEF inputVars, workerVars, resultVars
<1>0. /\ received \subseteq Operation
      /\ preloads \in Seq(Operation) /\ ops \in Seq(Operation)
      /\ res_ch \in Seq(Operation) /\ results \in Seq(Operation)
      /\ stdout \in Seq(Message)
      /\ wop \in [Operation -> Operation \cup {None}]
      /\ wpc \in [Operation -> WorkerPoints]
  BY DEF TypeInv, TypeOK
<1>p. /\ "cur" \in Place /\ "held" \in Place /\ "worker" \in Place
      /\ "preloads" \in Place /\ "ops" \in Place /\ "res_ch" \in Place
      /\ "results" \in Place /\ "stdout" \in Place
  BY DEF Place
<1>1. ASSUME \/ CreateClient \/ RecvFinalise \/ RecvFails \/ SendReady
             \/ RecvStart \/ FlushDone \/ SpawnWorker \/ CloseOps \/ WaitDone
             \/ WaitTimeout \/ Stop \/ CloseMessenger \/ SendFinished
             \/ MessengerClose \/ ResultsCollected \/ ResultsDone
             \/ UNCHANGED vars
             \/ \E w \in Operation : \/ WorkerPark(w) \/ WorkerExit(w)
                                     \/ PerformReturns(w) \/ PerformFatal(w)
      PROVE  PlaceInv'
  <2>1. /\ UNCHANGED <<cur, held, wop, preloads, ops, res_ch, results,
                       received>>
        /\ closed \subseteq closed'
        /\ \/ UNCHANGED stdout
           \/ \E x \in {Ready, Finished} : stdout' = Append(stdout, x)
    BY <1>1 DEF CreateClient, RecvFinalise, RecvFails, SendReady, RecvStart,
       FlushDone, SpawnWorker, CloseOps, WaitDone, WaitTimeout, Stop,
       CloseMessenger, SendFinished, MessengerClose, ResultsCollected,
       ResultsDone, vars, WorkerPark, WorkerExit, PerformReturns, PerformFatal
  <2>2. EmptyHanded'
    <3>1. /\ main' \notin {"prereq", "fatal"} => main \notin {"prereq", "fatal"}
          /\ messenger' # "forward" => messenger # "forward"
          /\ main' \in {"create", "preload", "prereq", "ready"} =>
               main \in {"create", "preload", "prereq", "ready"} /\ messenger' = "off"
      BY <1>1 DEF CreateClient, RecvFinalise, RecvFails, SendReady, RecvStart,
         FlushDone, SpawnWorker, CloseOps, WaitDone, WaitTimeout, Stop,
         CloseMessenger, SendFinished, MessengerClose, ResultsCollected,
         ResultsDone, vars, WorkerPark, WorkerExit, PerformReturns,
         PerformFatal, PlaceInv, EmptyHanded
    <3>2. \A w \in Operation : wpc'[w] \notin {"perform", "reply"} =>
                                 wpc[w] \notin {"perform", "reply"}
      <4>1. CASE SpawnWorker
        <5>1. wpc[Head(ops)] = "unborn"
          BY <1>0, <4>1 DEF SpawnWorker, WorkerInv, OpsFresh
        <5>2. QED
          BY <1>0, <4>1, <5>1 DEF SpawnWorker
      <4>2. ASSUME NEW w \in Operation,
                   \/ WorkerPark(w) \/ WorkerExit(w) \/ PerformReturns(w)
            PROVE  \A v \in Operation : wpc'[v] \notin {"perform", "reply"} =>
                                          wpc[v] \notin {"perform", "reply"}
        BY <1>0, <4>2 DEF WorkerPark, WorkerExit, PerformReturns
      <4>3. CASE UNCHANGED wpc
        BY <4>3
      <4>4. QED
        BY <1>1, <4>1, <4>2, <4>3 DEF CreateClient, RecvFinalise, RecvFails,
           SendReady, RecvStart, FlushDone, CloseOps, WaitDone, WaitTimeout,
           Stop, CloseMessenger, SendFinished, MessengerClose,
           ResultsCollected, ResultsDone, vars, PerformFatal
    <3>3. QED
      BY <2>1, <3>1, <3>2 DEF PlaceInv, EmptyHanded
  <2>3. QED
    BY <2>1, <2>2, PlacesKept DEF PlaceInv
<1>2. ASSUME NEW o \in Operation, RecvPrereq(o) PROVE PlaceInv'
  <2>1. cur = None
    BY <1>2 DEF RecvPrereq, PlaceInv, EmptyHanded
  <2>2. \A x \in Operation : \A p \in Place :
          IsAt(x, p)' <=> IsAt(x, p) \/ (x = o /\ p = "cur")
    BY <1>2, <2>1, OperationAssumption DEF RecvPrereq, IsAt
  <2>3. Whereabouts'
    BY <1>0, <1>2, <2>2, Entered DEF RecvPrereq, PlaceInv, Place
  <2>4. NoRepeat' /\ EmptyHanded'
    BY <1>2 DEF RecvPrereq, PlaceInv, NoRepeat, EmptyHanded
  <2>5. QED
    BY <2>3, <2>4 DEF PlaceInv
<1>3. CASE PrereqDone
  <2>1. /\ main = "prereq" /\ main' = "preload"
        /\ cur \in Operation /\ preloads' = Append(preloads, cur) /\ cur' = None
        /\ UNCHANGED <<held, wop, ops, res_ch, results, stdout, received,
                       closed, wpc, messenger>>
    BY <1>3 DEF PrereqDone, TypeInv, Holding
  <2>2. IsAt(cur, "cur")
    BY DEF IsAt
  <2>3. ~Occurs(cur, preloads)
    BY <2>1, <2>2 DEF PlaceInv, Whereabouts, OnePlace, Place, IsAt
  <2>4. /\ \A y : Occurs(y, preloads') <=> Occurs(y, preloads) \/ y = cur
        /\ Unique(preloads')
    BY <1>0, <2>1, <2>3, AppendOccurs DEF PlaceInv, NoRepeat
  <2>5. \A o \in Operation : \A p \in Place :
          IsAt(o, p)' <=> \/ IsAt(o, p) /\ ~(o = cur /\ p = "cur")
                          \/ o = cur /\ p = "preloads"
    BY <2>1, <2>4, OperationAssumption DEF IsAt
  <2>6. Whereabouts'
    <3>1. cur \in Operation /\ UNCHANGED <<received, closed>>
      BY <2>1
    <3>2. received \subseteq Operation /\ Whereabouts
      BY <1>0 DEF PlaceInv
    <3>3. IsAt(cur, "cur") /\ "cur" # "preloads"
      BY <2>2
    <3>4. QED
      BY <1>p, <2>5, <3>1, <3>2, <3>3, Moved
  <2>7. NoRepeat' /\ EmptyHanded'
    BY <2>1, <2>4 DEF PlaceInv, NoRepeat, EmptyHanded
  <2>8. QED
    BY <2>6, <2>7 DEF PlaceInv
<1>4. ASSUME NEW o \in Operation, RecvOp(o) PROVE PlaceInv'
  <2>1. /\ o \notin received /\ ops' = Append(ops, o)
        /\ received' = received \cup {o}
        /\ UNCHANGED <<main, cur, held, wop, preloads, res_ch, results, stdout,
                       closed, wpc, messenger>>
    BY <1>4 DEF RecvOp
  <2>2. ~Occurs(o, ops)
    BY <2>1 DEF PlaceInv, Whereabouts, Known, Place, IsAt
  <2>3. /\ \A y : Occurs(y, ops') <=> Occurs(y, ops) \/ y = o
        /\ Unique(ops')
    BY <1>0, <2>1, <2>2, AppendOccurs DEF PlaceInv, NoRepeat
  <2>4. \A x \in Operation : \A p \in Place :
          IsAt(x, p)' <=> IsAt(x, p) \/ (x = o /\ p = "ops")
    BY <2>1, <2>3 DEF IsAt
  <2>5. Whereabouts'
    BY <1>0, <2>1, <2>4, Entered, <1>p DEF PlaceInv
  <2>6. NoRepeat' /\ EmptyHanded'
    BY <2>1, <2>3 DEF PlaceInv, NoRepeat, EmptyHanded
  <2>7. QED
    BY <2>5, <2>6 DEF PlaceInv
<1>5. CASE FlushPrereq
  <2> DEFINE m == Head(preloads)
  <2>1. /\ m \in Operation /\ Occurs(m, preloads)
        /\ \A y : Occurs(y, Tail(preloads)) <=> Occurs(y, preloads) /\ y # m
        /\ Unique(Tail(preloads))
    BY <1>0, <1>5, TailOccurs DEF FlushPrereq, PlaceInv, NoRepeat
  <2>2. /\ res_ch' = Append(res_ch, m) /\ preloads' = Tail(preloads)
        /\ UNCHANGED <<main, cur, held, wop, ops, results, stdout, received,
                       closed, wpc, messenger>>
    BY <1>5 DEF FlushPrereq
  <2> HIDE DEF m
  <2>3. IsAt(m, "preloads") /\ ~Occurs(m, res_ch)
    BY <2>1 DEF PlaceInv, Whereabouts, OnePlace, Place, IsAt
  <2>4. /\ \A y : Occurs(y, res_ch') <=> Occurs(y, res_ch) \/ y = m
        /\ Unique(res_ch')
    BY <1>0, <2>1, <2>2, <2>3, AppendOccurs DEF PlaceInv, NoRepeat
  <2>5. \A o \in Operation : \A p \in Place :
          IsAt(o, p)' <=> \/ IsAt(o, p) /\ ~(o = m /\ p = "preloads")
                          \/ o = m /\ p = "res_ch"
    BY <2>1, <2>2, <2>4 DEF IsAt
  <2>6. Whereabouts'
    <3>1. m \in Operation /\ UNCHANGED <<received, closed>>
      BY <2>1, <2>2
    <3>2. received \subseteq Operation /\ Whereabouts
      BY <1>0 DEF PlaceInv
    <3>3. IsAt(m, "preloads") /\ "preloads" # "res_ch"
      BY <2>3
    <3>4. QED
      BY <1>p, <2>5, <3>1, <3>2, <3>3, Moved
  <2>7. NoRepeat' /\ EmptyHanded'
    BY <2>1, <2>2, <2>4 DEF PlaceInv, NoRepeat, EmptyHanded
  <2>8. QED
    BY <2>6, <2>7 DEF PlaceInv
<1>6. ASSUME NEW w \in Operation, DispatchToIdle(w) \/ Handoff(w)
      PROVE  PlaceInv'
  <2>1. ops # <<>>
    BY <1>6 DEF DispatchToIdle, Handoff, WorkerInv, OpsFresh
  <2>2. QED
    BY <1>6, <2>1, TakesPlace DEF DispatchToIdle, Handoff
<1>7. ASSUME NEW w \in Operation, WorkerSend(w) PROVE PlaceInv'
  <2> DEFINE m == wop[w]
  <2>1. /\ m \in Operation /\ res_ch' = Append(res_ch, m)
        /\ wop' = [wop EXCEPT ![w] = None]
        /\ wpc' = [wpc EXCEPT ![w] = "start"]
        /\ UNCHANGED <<main, cur, held, preloads, ops, results, stdout,
                       received, closed, messenger>>
    BY <1>7 DEF WorkerSend, TypeInv, Holding
  <2>n. m = wop[w]
    OBVIOUS
  <2> HIDE DEF m
  <2>2. IsAt(m, "worker") /\ ~Occurs(m, res_ch)
    BY <2>1, <2>n DEF PlaceInv, Whereabouts, OnePlace, Place, IsAt
  <2>3. /\ \A y : Occurs(y, res_ch') <=> Occurs(y, res_ch) \/ y = m
        /\ Unique(res_ch')
    BY <1>0, <2>1, <2>2, AppendOccurs DEF PlaceInv, NoRepeat
  <2>4. \A o \in Operation : (\E v \in Operation : wop'[v] = o)
                               <=> (\E v \in Operation : wop[v] = o) /\ o # m
    BY <1>0, <2>1, <2>n, OperationAssumption DEF PlaceInv, NoRepeat
  <2>5. \A o \in Operation : \A p \in Place :
          IsAt(o, p)' <=> \/ IsAt(o, p) /\ ~(o = m /\ p = "worker")
                          \/ o = m /\ p = "res_ch"
    BY <2>1, <2>3, <2>4 DEF IsAt
  <2>6. Whereabouts'
    <3>1. m \in Operation /\ UNCHANGED <<received, closed>>
      BY <2>1
    <3>2. received \subseteq Operation /\ Whereabouts
      BY <1>0 DEF PlaceInv
    <3>3. QED
      BY <1>p, <2>2, <2>5, <3>1, <3>2, Moved
  <2>7. NoRepeat'
    BY <1>0, <2>1, <2>3 DEF PlaceInv, NoRepeat
  <2>8. EmptyHanded'
    BY <1>0, <2>1 DEF PlaceInv, EmptyHanded
  <2>9. QED
    BY <2>6, <2>7, <2>8 DEF PlaceInv
\* The only step that loses a result, and only after stopCh was closed.
<1>8. ASSUME NEW w \in Operation, WorkerDrop(w) PROVE PlaceInv'
  <2>1. /\ "stopCh" \in closed
        /\ wop' = [wop EXCEPT ![w] = None]
        /\ wpc' = [wpc EXCEPT ![w] = "start"]
        /\ UNCHANGED <<main, cur, held, preloads, ops, res_ch, results, stdout,
                       received, closed, messenger>>
    BY <1>8 DEF WorkerDrop
  <2>2. \A o \in Operation : \A p \in Place : IsAt(o, p)' => IsAt(o, p)
    BY <1>0, <2>1, OperationAssumption DEF IsAt
  <2>3. Whereabouts'
    BY <2>1, <2>2 DEF PlaceInv, Whereabouts, OnePlace, Known, Kept
  <2>4. NoRepeat'
    BY <1>0, <2>1 DEF PlaceInv, NoRepeat
  <2>5. EmptyHanded'
    BY <1>0, <2>1 DEF PlaceInv, EmptyHanded
  <2>6. QED
    BY <2>3, <2>4, <2>5 DEF PlaceInv
<1>9. CASE MessengerTake
  <2> DEFINE m == Head(res_ch)
  <2>1. /\ m \in Operation /\ Occurs(m, res_ch)
        /\ \A y : Occurs(y, Tail(res_ch)) <=> Occurs(y, res_ch) /\ y # m
        /\ Unique(Tail(res_ch))
    BY <1>0, <1>9, TailOccurs DEF MessengerTake, PlaceInv, NoRepeat
  <2>2. /\ held = None /\ held' = m /\ res_ch' = Tail(res_ch)
        /\ messenger = "select" /\ messenger' = "forward"
        /\ UNCHANGED <<main, cur, wop, preloads, ops, results, stdout, received,
                       closed, wpc>>
    BY <1>9 DEF MessengerTake, PlaceInv, EmptyHanded
  <2> HIDE DEF m
  <2>3. IsAt(m, "res_ch")
    BY <2>1 DEF IsAt
  <2>4. \A o \in Operation : \A p \in Place :
          IsAt(o, p)' <=> \/ IsAt(o, p) /\ ~(o = m /\ p = "res_ch")
                          \/ o = m /\ p = "held"
    BY <2>1, <2>2, OperationAssumption DEF IsAt
  <2>5. Whereabouts'
    <3>1. m \in Operation /\ UNCHANGED <<received, closed>>
      BY <2>1, <2>2
    <3>2. received \subseteq Operation /\ Whereabouts
      BY <1>0 DEF PlaceInv
    <3>3. IsAt(m, "res_ch") /\ "res_ch" # "held"
      BY <2>3
    <3>4. QED
      BY <1>p, <2>4, <3>1, <3>2, <3>3, Moved
  <2>6. NoRepeat' /\ EmptyHanded'
    BY <2>1, <2>2 DEF PlaceInv, NoRepeat, EmptyHanded
  <2>7. QED
    BY <2>5, <2>6 DEF PlaceInv
<1>10. CASE MessengerForward
  <2>1. /\ held \in Operation /\ results' = Append(results, held)
        /\ held' = None /\ messenger = "forward" /\ messenger' = "select"
        /\ UNCHANGED <<main, cur, wop, preloads, ops, res_ch, stdout, received,
                       closed, wpc>>
    BY <1>10 DEF MessengerForward, TypeInv, Holding
  <2>2. IsAt(held, "held") /\ ~Occurs(held, results)
    BY <2>1 DEF PlaceInv, Whereabouts, OnePlace, Place, IsAt
  <2>3. /\ \A y : Occurs(y, results') <=> Occurs(y, results) \/ y = held
        /\ Unique(results')
    BY <1>0, <2>1, <2>2, AppendOccurs DEF PlaceInv, NoRepeat
  <2>4. \A o \in Operation : \A p \in Place :
          IsAt(o, p)' <=> \/ IsAt(o, p) /\ ~(o = held /\ p = "held")
                          \/ o = held /\ p = "results"
    BY <2>1, <2>3, OperationAssumption DEF IsAt
  <2>5. Whereabouts'
    <3>1. held \in Operation /\ UNCHANGED <<received, closed>>
      BY <2>1
    <3>2. received \subseteq Operation /\ Whereabouts
      BY <1>0 DEF PlaceInv
    <3>3. IsAt(held, "held") /\ "held" # "results"
      BY <2>2
    <3>4. QED
      BY <1>p, <2>4, <3>1, <3>2, <3>3, Moved
  <2>6. NoRepeat' /\ EmptyHanded'
    BY <2>1, <2>3 DEF PlaceInv, NoRepeat, EmptyHanded
  <2>7. QED
    BY <2>5, <2>6 DEF PlaceInv
<1>11. CASE ResultSend
  <2> DEFINE m == Head(results)
  <2>1. /\ m \in Operation /\ Occurs(m, results)
        /\ \A y : Occurs(y, Tail(results)) <=> Occurs(y, results) /\ y # m
        /\ Unique(Tail(results))
    BY <1>0, <1>11, TailOccurs DEF ResultSend, PlaceInv, NoRepeat
  <2>2. /\ stdout' = Append(stdout, Result(m)) /\ results' = Tail(results)
        /\ UNCHANGED <<main, cur, held, wop, preloads, ops, res_ch, received,
                       closed, wpc, messenger>>
    BY <1>11 DEF ResultSend
  <2> HIDE DEF m
  <2>3. IsAt(m, "results") /\ ~Occurs(Result(m), stdout)
    BY <2>1 DEF PlaceInv, Whereabouts, OnePlace, Place, IsAt
  <2>4. \A o \in Operation : Occurs(Result(o), stdout')
                               <=> Occurs(Result(o), stdout) \/ o = m
    BY <1>0, <2>1, <2>2, AppendOccurs, Words
  <2>5. \A o \in Operation : \A p \in Place :
          IsAt(o, p)' <=> \/ IsAt(o, p) /\ ~(o = m /\ p = "results")
                          \/ o = m /\ p = "stdout"
    BY <2>1, <2>2, <2>4 DEF IsAt
  <2>6. Whereabouts'
    <3>1. m \in Operation /\ UNCHANGED <<received, closed>>
      BY <2>1, <2>2
    <3>2. received \subseteq Operation /\ Whereabouts
      BY <1>0 DEF PlaceInv
    <3>3. IsAt(m, "results") /\ "results" # "stdout"
      BY <2>3
    <3>4. QED
      BY <1>p, <2>5, <3>1, <3>2, <3>3, Moved
  <2>7. \A o \in Operation : \A j, k \in 1..Len(stdout') :
          stdout'[j] = Result(o) /\ stdout'[k] = Result(o) => j = k
    <3>1. /\ \A k \in 1..Len(stdout) : stdout'[k] = stdout[k]
          /\ stdout'[Len(stdout) + 1] = Result(m)
          /\ \A k \in 1..Len(stdout') : k \in 1..Len(stdout) \/ k = Len(stdout) + 1
      BY <1>0, <2>1, <2>2, Words
    <3>2. QED
      BY <2>3, <3>1, Words DEF PlaceInv, NoRepeat, Occurs
  <2>8. NoRepeat' /\ EmptyHanded'
    BY <2>1, <2>2, <2>7 DEF PlaceInv, NoRepeat, EmptyHanded
  <2>9. QED
    BY <2>6, <2>8 DEF PlaceInv
<1>12. QED
  BY <1>1, <1>2, <1>3, <1>4, <1>5, <1>6, <1>7, <1>8, <1>9, <1>10, <1>11
  DEF Next, Generator, SystemUnderTest, Main, Worker, Messenger, ResultLoop,
      Ended

\* main closes the messenger last, result_loop writes after the messenger.
LEMMA ShutdownStep ==
  ASSUME TypeInv, ShutdownOrder, EmptyHanded, [Next]_vars
  PROVE  ShutdownOrder'
<1> USE DEF inputVars, workerVars, resultVars, ShutdownOrder
<1>1. CASE UNCHANGED <<main, closed, messenger, rpc>>
  BY <1>1
<1>2. CASE UNCHANGED <<closed, messenger, rpc>> /\ main' = "fatal"
  BY <1>2
<1>3. CASE /\ UNCHANGED <<closed, messenger, rpc>>
           /\ main \notin {"await_results", "exit", "fatal"}
  BY <1>3
<1>4. CASE CloseOps \/ Stop \/ CloseMessenger
  BY <1>4 DEF CloseOps, Stop, CloseMessenger
<1>5. CASE SendReady
  BY <1>5 DEF SendReady, EmptyHanded
<1>6. CASE SendFinished
  BY <1>6 DEF SendFinished
<1>7. CASE Messenger
  BY <1>7 DEF Messenger, MessengerTake, MessengerForward, MessengerClose
<1>8. CASE ResultLoop
  BY <1>8 DEF ResultLoop, ResultsCollected, ResultSend, ResultsDone
<1>9. CASE Generator \/ CreateClient \/ PrereqDone
  BY <1>2, <1>3, <1>9 DEF Generator, RecvPrereq, RecvOp, RecvFinalise,
     RecvFails, RecvStart, CreateClient, PrereqDone
<1>10. ASSUME NEW w \in Operation,
              \/ PerformReturns(w) \/ PerformFatal(w) \/ Worker(w)
       PROVE  ShutdownOrder'
  BY <1>1, <1>2, <1>10 DEF PerformReturns, PerformFatal, Worker, WorkerPark,
     WorkerExit, WorkerSend, WorkerDrop
<1>11. ASSUME NEW w \in Operation, DispatchToIdle(w) \/ Handoff(w)
       PROVE  ShutdownOrder'
  BY <1>3, <1>11 DEF DispatchToIdle, Handoff
<1>12. CASE \/ FlushPrereq \/ FlushDone \/ SpawnWorker \/ WaitDone
            \/ WaitTimeout
  BY <1>3, <1>12 DEF FlushPrereq, FlushDone, SpawnWorker, WaitDone,
     WaitTimeout
<1>13. CASE UNCHANGED vars
  BY <1>1, <1>13 DEF vars
<1>14. QED
  BY <1>4, <1>5, <1>6, <1>7, <1>8, <1>9, <1>10, <1>11, <1>12, <1>13
  DEF Next, SystemUnderTest, Main, Ended

-----------------------------------------------------------------------------
Inv == TypeInv /\ WorkerInv /\ PlaceInv /\ ShutdownOrder

\* The invariants are inductive together.
LEMMA Invariance == Spec => []Inv
<1>1. Init => Inv
  BY TypeInit, WorkerInit, PlaceInit DEF Inv, Init, ShutdownOrder
<1>2. Inv /\ [Next]_vars => Inv'
  BY TypeStep, WorkerStep, PlaceStep, ShutdownStep DEF Inv, PlaceInv
<1>3. QED
  BY <1>1, <1>2, PTL DEF Spec

\* Type correctness of Run_Client's state.  It includes two facts of the
\* running code: res_ch never holds more than its capacity, and wg_perform
\* never becomes negative, which would panic.
THEOREM TypeCorrect == Spec => []TypeOK
<1>1. Inv => TypeOK
  BY DEF Inv, TypeInv
<1>2. QED
  BY <1>1, Invariance, PTL

\* The dispatcher is open-loop for every number of operations: whenever it
\* blocks on op_ch some worker is on its way to op_ch.
THEOREM DispatchOpenLoop == Spec => []OpenLoop
<1>1. Inv => OpenLoop
  BY DEF Inv, WorkerInv
<1>2. QED
  BY <1>1, Invariance, PTL

\* The shutdown waits for every worker: a client that reports finished
\* without having timed out has no worker left.
THEOREM ExitIsQuiescent == Spec => []ExitQuiescent
<1>1. Inv => ExitQuiescent
  BY DEF Inv, TypeInv, TypeOK, WorkerInv, Quiet, Live, ExitQuiescent, WorkerPoints
<1>2. QED
  BY <1>1, Invariance, PTL

\* An operation that is in one place, once, has at most one entry in Places.
LEMMA PlacesAreFew ==
  ASSUME Inv, NEW o \in Operation, NEW x \in Places(o), NEW y \in Places(o)
  PROVE  x = y
<1>0. /\ preloads \in Seq(Operation) /\ ops \in Seq(Operation)
      /\ res_ch \in Seq(Operation) /\ results \in Seq(Operation)
      /\ stdout \in Seq(Message)
  BY DEF Inv, TypeInv, TypeOK
<1>1. ASSUME NEW z \in Places(o)
      PROVE  /\ z = <<z[1], z[2]>> /\ z[1] \in Place /\ IsAt(o, z[1])
             /\ z[1] \in {"cur", "held"} => z[2] = o
             /\ z[1] = "worker" => z[2] \in Operation /\ wop[z[2]] = o
             /\ z[1] = "preloads" =>
                  z[2] \in 1..Len(preloads) /\ preloads[z[2]] = o
             /\ z[1] = "ops" => z[2] \in 1..Len(ops) /\ ops[z[2]] = o
             /\ z[1] = "res_ch" => z[2] \in 1..Len(res_ch) /\ res_ch[z[2]] = o
             /\ z[1] = "results" =>
                  z[2] \in 1..Len(results) /\ results[z[2]] = o
             /\ z[1] = "stdout" =>
                  z[2] \in 1..Len(stdout) /\ stdout[z[2]] = Result(o)
  BY <1>0, <1>1 DEF Places, PositionsOf, IsAt, Occurs, Place
<1>2. x[1] = y[1]
  BY <1>1 DEF Inv, PlaceInv, Whereabouts, OnePlace
<1>3. x[2] = y[2]
  BY <1>1, <1>2, OperationAssumption
  DEF Inv, PlaceInv, NoRepeat, Unique, Place
<1>4. QED
  BY <1>1, <1>2, <1>3

\* Across the dispatcher, the workers, both result channels and result_loop no
\* operation is lost before stopCh is closed, and none is ever in two places
\* or reported twice.
THEOREM NoResultLostOrRepeated == Spec => []AccountedFor
<1>1. Inv => AccountedFor
  <2> SUFFICES ASSUME Inv PROVE AccountedFor
    OBVIOUS
  <2>1. ASSUME NEW o \in Operation PROVE Cardinality(Places(o)) <= 1
    <3>1. CASE Places(o) = {}
      BY <3>1, FS_EmptySet
    <3>2. CASE Places(o) # {}
      <4>1. PICK x : x \in Places(o)
        BY <3>2
      <4>2. Places(o) = {x}
        BY <4>1, PlacesAreFew
      <4>3. Cardinality({x}) = 1
        BY FS_Singleton
      <4>4. Cardinality(Places(o)) = 1
        BY <4>2, <4>3
      <4>5. QED
        BY <4>4
    <3>3. QED
      BY <3>1, <3>2
  <2>2. ASSUME "stopCh" \notin closed, NEW o \in received
        PROVE  Places(o) # {}
    <3>0. /\ preloads \in Seq(Operation) /\ ops \in Seq(Operation)
          /\ res_ch \in Seq(Operation) /\ results \in Seq(Operation)
          /\ stdout \in Seq(Message)
      BY DEF Inv, TypeInv, TypeOK
    <3>1. PICK p \in Place : IsAt(o, p)
      BY <2>2 DEF Inv, PlaceInv, Whereabouts, Kept
    <3>2. \E k : <<p, k>> \in Places(o)
      <4>1. CASE p = "cur"
        BY <3>1, <4>1 DEF IsAt, Places
      <4>2. CASE p = "held"
        BY <3>1, <4>2 DEF IsAt, Places
      <4>3. CASE p = "worker"
        BY <3>1, <4>3 DEF IsAt, Places
      <4>4. CASE p = "preloads"
        <5>1. PICK k \in DOMAIN preloads : preloads[k] = o
          BY <3>0, <3>1, <4>4 DEF IsAt, Occurs
        <5>2. QED
          BY <4>4, <5>1 DEF Places, PositionsOf
      <4>5. CASE p = "ops"
        <5>1. PICK k \in DOMAIN ops : ops[k] = o
          BY <3>0, <3>1, <4>5 DEF IsAt, Occurs
        <5>2. QED
          BY <4>5, <5>1 DEF Places, PositionsOf
      <4>6. CASE p = "res_ch"
        <5>1. PICK k \in DOMAIN res_ch : res_ch[k] = o
          BY <3>0, <3>1, <4>6 DEF IsAt, Occurs
        <5>2. QED
          BY <4>6, <5>1 DEF Places, PositionsOf
      <4>7. CASE p = "results"
        <5>1. PICK k \in DOMAIN results : results[k] = o
          BY <3>0, <3>1, <4>7 DEF IsAt, Occurs
        <5>2. QED
          BY <4>7, <5>1 DEF Places, PositionsOf
      <4>8. CASE p = "stdout"
        <5>1. PICK k \in DOMAIN stdout : stdout[k] = Result(o)
          BY <3>0, <3>1, <4>8 DEF IsAt, Occurs
        <5>2. QED
          BY <4>8, <5>1 DEF Places, PositionsOf
      <4>9. QED
        BY <4>1, <4>2, <4>3, <4>4, <4>5, <4>6, <4>7, <4>8 DEF Place
    <3>3. QED
      BY <3>2
  <2>3. QED
    BY <2>1, <2>2 DEF AccountedFor
<1>2. QED
  BY <1>1, Invariance, PTL

-----------------------------------------------------------------------------
(* The conversation with the generator.                                    *)

\* What is unanswered, in the terms of the invariant.
LEMMA UnansweredIs ==
  ASSUME TypeInv
  PROVE  Unanswered = {o \in received : ~Occurs(Result(o), stdout)}
<1>1. stdout \in Seq(Message)
  BY DEF TypeInv, TypeOK
<1>2. DOMAIN stdout = 1..Len(stdout)
  BY <1>1
<1>3. QED
  BY <1>2 DEF Unanswered, PositionsOf, Occurs

\* Every step of the process is a step of ClientProtocol, or none that the
\* generator can see.
LEMMA ProtocolStep ==
  ASSUME Inv, Inv', [Next]_vars
  PROVE  [Protocol!Next]_(Protocol!vars)
<1> USE DEF inputVars, workerVars, resultVars
<1>0. /\ received \subseteq Operation /\ stdout \in Seq(Message)
      /\ Unanswered = {o \in received : ~Occurs(Result(o), stdout)}
      /\ Unanswered' = {o \in received' : ~Occurs(Result(o), stdout')}
  <2>1. Unanswered' = {o \in received' : ~Occurs(Result(o), stdout')}
    <3>1. stdout' \in Seq(Message)
      BY DEF Inv, TypeInv, TypeOK
    <3>2. DOMAIN stdout' = 1..Len(stdout')
      BY <3>1
    <3>3. QED
      BY <3>2 DEF Unanswered, PositionsOf, Occurs
  <2>2. QED
    BY <2>1, UnansweredIs DEF Inv, TypeInv, TypeOK
<1>1. ASSUME ProtocolPhase' = ProtocolPhase, UNCHANGED <<received, stdout>>
      PROVE  [Protocol!Next]_(Protocol!vars)
  BY <1>0, <1>1 DEF Protocol!vars
<1>2. ASSUME NEW o \in Operation, RecvPrereq(o) \/ RecvOp(o)
      PROVE  Protocol!Preload(o)
  <2>1. /\ main = "preload" /\ main' \in {"preload", "prereq"}
        /\ o \notin received /\ received' = received \cup {o}
        /\ UNCHANGED stdout
    BY <1>2 DEF RecvPrereq, RecvOp
  <2>2. ~Occurs(Result(o), stdout)
    BY <2>1 DEF Inv, PlaceInv, Whereabouts, Known, Place, IsAt
  <2>3. Unanswered' = Unanswered \cup {o} /\ o \notin Unanswered
    BY <1>0, <2>1, <2>2
  <2>4. ProtocolPhase = "preload" /\ ProtocolPhase' = "preload"
    BY <2>1 DEF ProtocolPhase
  <2>5. QED
    BY <2>1, <2>3, <2>4 DEF Protocol!Preload
<1>3. ASSUME UNCHANGED received, NEW x \in {Ready, Finished},
             stdout' = Append(stdout, x)
      PROVE  Unanswered' = Unanswered
  <2>1. \A y : Occurs(y, stdout') <=> Occurs(y, stdout) \/ y = x
    BY <1>0, <1>3, Words, AppendOccurs
  <2>2. QED
    BY <1>0, <1>3, <2>1, Words
<1>4. CASE SendReady
  <2>1. /\ main = "ready" /\ main' = "await_start"
        /\ UNCHANGED received /\ stdout' = Append(stdout, Ready)
    BY <1>4 DEF SendReady
  <2>2. Unanswered' = Unanswered
    BY <1>3, <2>1
  <2>3. ProtocolPhase = "preload" /\ ProtocolPhase' = "ready"
    BY <2>1 DEF ProtocolPhase
  <2>4. Protocol!BecomeReady
    BY <2>1, <2>2, <2>3 DEF Protocol!BecomeReady, Ready, Protocol!Ready
  <2>5. QED
    BY <2>4 DEF Protocol!Next
<1>5. CASE RecvStart
  <2>1. UNCHANGED <<received, stdout>>
    BY <1>5 DEF RecvStart
  <2>2. Unanswered' = Unanswered
    BY <1>0, <2>1
  <2>3. ProtocolPhase = "ready" /\ ProtocolPhase' = "running"
    BY <1>5 DEF RecvStart, ProtocolPhase
  <2>4. Protocol!Start
    BY <2>1, <2>2, <2>3 DEF Protocol!Start
  <2>5. QED
    BY <2>4 DEF Protocol!Next
<1>6. CASE ResultSend
  <2> DEFINE m == Head(results)
  <2>1. /\ main \in {"await_results", "exit", "fatal"} /\ main' = main
        /\ Alive /\ UNCHANGED received
        /\ results # <<>> /\ stdout' = Append(stdout, Result(m))
    BY <1>6 DEF ResultSend, Inv, ShutdownOrder
  <2>2. m \in Operation /\ Occurs(m, results)
    BY <2>1, TailOccurs DEF Inv, TypeInv, TypeOK, PlaceInv, NoRepeat
  <2> HIDE DEF m
  <2>3. m \in received /\ ~Occurs(Result(m), stdout)
    BY <2>2 DEF Inv, PlaceInv, Whereabouts, Known, OnePlace, Place, IsAt
  <2>4. \A o \in Operation : Occurs(Result(o), stdout')
                               <=> Occurs(Result(o), stdout) \/ o = m
    BY <1>0, <2>1, <2>2, AppendOccurs, Words
  <2>5. m \in Unanswered /\ Unanswered' = Unanswered \ {m}
    BY <1>0, <2>1, <2>3, <2>4
  <2>6. ProtocolPhase = "running" /\ ProtocolPhase' = "running"
    BY <2>1 DEF ProtocolPhase, Alive
  <2>7. Protocol!Reply(m)
    BY <2>1, <2>5, <2>6 DEF Protocol!Reply, Result, Protocol!Result
  <2>8. QED
    BY <2>2, <2>7 DEF Protocol!Next
<1>7. CASE SendFinished
  <2>1. UNCHANGED received /\ stdout' = Append(stdout, Finished)
    BY <1>7 DEF SendFinished
  <2>2. Unanswered' = Unanswered
    BY <1>3, <2>1
  <2>3. ProtocolPhase = "running" /\ ProtocolPhase' = "finished"
    BY <1>7 DEF SendFinished, ProtocolPhase
  <2>4. Protocol!Finish
    BY <2>1, <2>2, <2>3 DEF Protocol!Finish, Finished, Protocol!Finished
  <2>5. QED
    BY <2>4 DEF Protocol!Next
<1>8. ASSUME main' = "fatal", main \notin {"exit", "fatal"},
             UNCHANGED <<received, stdout>>
      PROVE  Protocol!Fail
  <2>1. ProtocolPhase \in {"preload", "ready", "running"}
    BY <1>8 DEF ProtocolPhase
  <2>2. ProtocolPhase' = "failed"
    BY <1>8 DEF ProtocolPhase
  <2>3. QED
    BY <1>0, <1>8, <2>1, <2>2 DEF Protocol!Fail
<1>9. ASSUME RecvFails \/ \E w \in Operation : PerformFatal(w)
      PROVE  Protocol!Fail
  BY <1>8, <1>9 DEF RecvFails, PerformFatal, Alive
<1>10. CASE CreateClient
  <2>1. CASE main' = "fatal"
    BY <1>8, <1>10, <2>1 DEF CreateClient, Protocol!Next
  <2>2. CASE main' = "preload"
    BY <1>1, <1>10, <2>2 DEF CreateClient, ProtocolPhase
  <2>3. QED
    BY <1>10, <2>1, <2>2 DEF CreateClient
<1>11. CASE PrereqDone \/ RecvFinalise \/ FlushPrereq \/ FlushDone
  <2>1. ProtocolPhase' = ProtocolPhase
    BY <1>11 DEF PrereqDone, RecvFinalise, FlushPrereq, FlushDone,
       ProtocolPhase
  <2>2. QED
    BY <1>1, <1>11, <2>1 DEF PrereqDone, RecvFinalise, FlushPrereq, FlushDone
<1>12. CASE \/ SpawnWorker \/ CloseOps \/ WaitDone \/ WaitTimeout \/ Stop
            \/ CloseMessenger
            \/ \E w \in Operation : DispatchToIdle(w) \/ Handoff(w)
  <2>1. /\ ProtocolPhase' = ProtocolPhase
        /\ UNCHANGED <<received, stdout>>
    BY <1>12 DEF SpawnWorker, CloseOps, WaitDone, WaitTimeout, Stop,
       CloseMessenger, DispatchToIdle, Handoff, ProtocolPhase
  <2>2. QED
    BY <1>1, <2>1
<1>13. CASE \/ Messenger \/ ResultsCollected \/ ResultsDone
            \/ UNCHANGED vars
            \/ \E w \in Operation : Worker(w) \/ PerformReturns(w)
  <2>1. UNCHANGED <<main, received, stdout>>
    BY <1>13 DEF Messenger, MessengerTake, MessengerForward, MessengerClose,
       ResultsCollected, ResultsDone, vars, Worker, WorkerPark, WorkerExit,
       WorkerSend, WorkerDrop, PerformReturns
  <2>2. QED
    BY <1>1, <2>1 DEF ProtocolPhase
<1>14. QED
  BY <1>2, <1>4, <1>5, <1>6, <1>7, <1>9, <1>10, <1>11, <1>12, <1>13
  DEF Next, Generator, SystemUnderTest, Main, ResultLoop, Ended,
      Protocol!Next

\* The Go client implements the safety part of the conversation of
\* ClientProtocol: ready once, results only after start and only for loaded
\* operations, each at most once, finished last.
THEOREM ProtocolSafety == Spec => Protocol!Init /\ [][Protocol!Next]_(Protocol!vars)
<1>1. Init => Protocol!Init
  BY DEF Init, Protocol!Init, ProtocolPhase, Unanswered
<1>2. Inv /\ Inv' /\ [Next]_vars => [Protocol!Next]_(Protocol!vars)
  BY ProtocolStep
<1>3. QED
  BY <1>1, <1>2, Invariance, PTL DEF Spec

=============================================================================
