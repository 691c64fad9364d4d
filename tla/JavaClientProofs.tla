-------------------------- MODULE JavaClientProofs --------------------------
(***************************************************************************)
(* Proofs about JavaClient for every finite set of operations: type        *)
(* correctness, InTimeReported, and that every step is one ClientProtocol  *)
(* allows (ProtocolSafety).                                                *)
(***************************************************************************)
EXTENDS JavaClient, NaturalsInduction, WellFoundedInduction, TLAPS

-----------------------------------------------------------------------------
(* The inductive invariant.                                                *)

Points == {"preload", "await", "waiting", "connect", "start", "dispatch",
           "collate", "iterate", "report", "raised", "exited", "failed"}

\* Results are written from here on.
Reporting == {"report", "raised", "exited", "failed"}
Tasks == {"none", "prereq", "prereq done", "queued", "performing",
          "callback", "put", "done"}
Message == {Ready, Finished} \cup [kind : {"result"}, op : Operation]

TypeOK ==
  /\ main \in Points /\ operations \subseteq Operation
  /\ task \in [Operation -> Tasks]
  /\ jobs \in Int /\ clock \in Nat /\ stamp \in [Operation -> Int]
  /\ complete \in BOOLEAN
  /\ resp_map \subseteq Operation /\ snapshot \subseteq Operation
  /\ responses \subseteq Operation /\ inTime \subseteq Operation
  /\ stdout \in Seq(Message)

\* An operation waits in the list or has been given to a thread, and only
\* the response of one whose callback is over can be in the map.
Placed ==
  /\ \A o \in operations : task[o] = "none"
  /\ \A o \in resp_map : task[o] = "done"

\* complete.t is set from the time the responses are collected; what was put
\* before is in the map, in what the iterator must show, and then either
\* still to be written or written.
InTime ==
  /\ main \in {"collate", "iterate", "report", "exited"} => complete
  /\ inTime \subseteq resp_map
  /\ main = "iterate" => inTime \subseteq snapshot
  /\ main \in {"report", "exited"} => inTime \subseteq responses \cup Written
  /\ main = "exited" => responses = {}

\* A response is written only once, and only in the last phase.
WrittenOnce ==
  /\ responses \cup Written \subseteq resp_map
  /\ responses \cap Written = {}
  /\ main \notin Reporting => Written = {}
  /\ main \notin Reporting => responses = {}

Inv == TypeOK /\ Placed /\ InTime /\ WrittenOnce

-----------------------------------------------------------------------------
(* The earliest operation.                                                 *)

\* A set of operations that is not empty has an earliest one, so Dispatch
\* takes an operation of the list.
LEMMA EarliestIs ==
  ASSUME NEW S, S \subseteq Operation, S # {}
  PROVE  (CHOOSE o \in S : \A p \in S : o <= p) \in S
<1>1. IsWellFoundedOn(OpToRel(<, Nat), Nat)
  BY NatLessThanWellFounded
<1>2. S \subseteq Nat
  BY OperationAssumption
<1>3. PICK x \in S : \A y \in S : ~(<<y, x>> \in OpToRel(<, Nat))
  BY <1>1, <1>2, WFMin
<1>4. \A y \in S : ~(y < x)
  BY <1>2, <1>3, Zenon DEF OpToRel
<1>5. \A y \in S : x <= y
  BY <1>2, <1>4
<1>6. QED
  BY <1>5

\* Dispatch hands over an operation of the list.
LEMMA DispatchIs ==
  ASSUME TypeOK, Dispatch
  PROVE  \E o \in operations : /\ task' = [task EXCEPT ![o] = "queued"]
                               /\ operations' = operations \ {o}
<1> DEFINE o == CHOOSE o \in operations : \A p \in operations : o <= p
<1>1. operations' = operations \ {o} /\ task' = [task EXCEPT ![o] = "queued"]
  BY DEF Dispatch
<1>2. o \in operations
  BY EarliestIs DEF Dispatch, TypeOK
<1>3. QED
  BY <1>1, <1>2

-----------------------------------------------------------------------------
(* What is written.                                                        *)

\* The messages the client writes.
LEMMA Words ==
  /\ Ready \in Message /\ Finished \in Message
  /\ \A o \in Operation : Result(o) \in Message
  /\ \A o : Result(o) # Ready /\ Result(o) # Finished
  /\ \A o, p : Result(o) = Result(p) => o = p
<1>1. \A o : Result(o).kind = "result" /\ Result(o).op = o
  BY DEF Result
<1>2. Ready.kind = "ready" /\ Finished.kind = "finished"
  BY DEF Ready, Finished
<1>3. \A o : Result(o) # Ready /\ Result(o) # Finished
  BY <1>1, <1>2
<1>4. \A o, p : Result(o) = Result(p) => o = p
  BY <1>1
<1>5. \A o \in Operation : Result(o) \in [kind : {"result"}, op : Operation]
  BY DEF Result
<1>6. QED
  BY <1>3, <1>4, <1>5 DEF Message

\* A message more on stdout is one result more, or none.
LEMMA WrittenGrows ==
  ASSUME stdout \in Seq(Message), NEW m \in Message,
         stdout' = Append(stdout, m)
  PROVE  Written' = {o \in Operation : o \in Written \/ m = Result(o)}
<1>1. /\ Len(stdout) \in Nat /\ Len(stdout') = Len(stdout) + 1
      /\ \A k \in 1..Len(stdout) : stdout'[k] = stdout[k]
      /\ stdout'[Len(stdout) + 1] = m
  OBVIOUS
<1>2. ASSUME NEW o \in Operation
      PROVE  (\E k \in 1..Len(stdout') : stdout'[k] = Result(o))
               <=> \/ \E k \in 1..Len(stdout) : stdout[k] = Result(o)
                   \/ m = Result(o)
  <2>1. ASSUME NEW k \in 1..Len(stdout'), stdout'[k] = Result(o)
        PROVE  \/ \E j \in 1..Len(stdout) : stdout[j] = Result(o)
               \/ m = Result(o)
    <3>1. k \in 1..Len(stdout) \/ k = Len(stdout) + 1
      BY <1>1
    <3>2. QED
      BY <1>1, <2>1, <3>1
  <2>2. ASSUME NEW k \in 1..Len(stdout), stdout[k] = Result(o)
        PROVE  \E j \in 1..Len(stdout') : stdout'[j] = Result(o)
    BY <1>1, <2>2
  <2>3. m = Result(o) => \E j \in 1..Len(stdout') : stdout'[j] = Result(o)
    BY <1>1
  <2>4. QED
    BY <2>1, <2>2, <2>3
<1>3. QED
  BY <1>2 DEF Written

-----------------------------------------------------------------------------
(* Types.                                                                  *)

\* Every step keeps the types.
LEMMA TypeStep ==
  ASSUME TypeOK, [Next]_vars
  PROVE  TypeOK'
<1> USE DEF TypeOK, reportVars
<1>1. CASE Await \/ SetComplete \/ MakeIterator \/ WriteFails
  BY <1>1 DEF Await, SetComplete, MakeIterator, WriteFails, Points
<1>2. CASE SendReady \/ SendFinished
  <2>1. stdout' \in Seq(Message)
    <3>1. PICK m \in Message : stdout' = Append(stdout, m)
      BY <1>2, Words DEF SendReady, SendFinished
    <3>2. QED
      BY <3>1
  <2>2. QED
    BY <1>2, <2>1 DEF SendReady, SendFinished, Points
<1>3. CASE Dispatch
  <2>1. PICK o \in operations : /\ task' = [task EXCEPT ![o] = "queued"]
                                /\ operations' = operations \ {o}
    BY <1>3, DispatchIs
  <2>2. QED
    BY <1>3, <2>1 DEF Dispatch, Tasks
<1>4. CASE IterationEnds
  BY <1>4 DEF IterationEnds, Points
<1>5. CASE SendResult
  <2>1. PICK o \in responses : stdout' = Append(stdout, Result(o))
    BY <1>5 DEF SendResult
  <2>2. stdout' \in Seq(Message)
    BY <2>1, Words
  <2>3. QED
    BY <1>5, <2>2 DEF SendResult
<1>6. CASE \/ WaitReturns \/ RecvFinalise \/ RecvStart \/ RecvFails
            \/ ProcessEnds
  BY <1>6 DEF WaitReturns, RecvFinalise, RecvStart, RecvFails, ProcessEnds, Points
<1>7. ASSUME NEW o \in Operation, RecvPrereq(o) \/ RecvOp(o)
      PROVE  TypeOK'
  <2>1. /\ operations' \subseteq Operation /\ jobs' \in Int
        /\ UNCHANGED <<main, clock, stamp, reportVars>>
    BY <1>7 DEF RecvPrereq, RecvOp
  <2>2. task' \in [Operation -> Tasks]
    BY <1>7 DEF RecvPrereq, RecvOp, Tasks
  <2>3. QED
    BY <2>1, <2>2
<1>8. ASSUME NEW o \in Operation, PoolStep(o)
      PROVE  TypeOK'
  <2>1. CASE WaitGroupDone(o)
    <3>1. task' \in [Operation -> Tasks] /\ main' \in Points
      BY <1>8, <2>1 DEF WaitGroupDone, Tasks, Points
    <3>2. /\ jobs' = jobs - 1
          /\ UNCHANGED <<operations, clock, stamp, reportVars>>
      BY <2>1 DEF WaitGroupDone
    <3>3. jobs' \in Int
      BY <3>2
    <3>4. QED
      BY <3>1, <3>2, <3>3
  <2>2. CASE PerformBegins(o)
    <3>1. task' \in [Operation -> Tasks]
      BY <1>8, <2>2 DEF PerformBegins, Tasks
    <3>2. stamp' \in [Operation -> Int] /\ clock' \in Nat
          /\ UNCHANGED <<main, operations, jobs, reportVars>>
      BY <1>8, <2>2 DEF PerformBegins
    <3>3. QED
      BY <3>1, <3>2
  <2>3. CASE PerformReturns(o)
    <3>1. task' \in [Operation -> Tasks]
      BY <1>8, <2>3 DEF PerformReturns, Tasks
    <3>2. stamp' \in [Operation -> Int]
          /\ UNCHANGED <<main, operations, jobs, clock, reportVars>>
      BY <1>8, <2>3 DEF PerformReturns, ErrorTime
    <3>3. QED
      BY <3>1, <3>2
  <2>4. CASE CallbackTests(o)
    BY <1>8, <2>4 DEF CallbackTests, Tasks
  <2>5. CASE CallbackPuts(o)
    BY <1>8, <2>5 DEF CallbackPuts, Tasks
  <2>6. QED
    BY <1>8, <2>1, <2>2, <2>3, <2>4, <2>5 DEF PoolStep
<1>9. CASE UNCHANGED vars
  BY <1>9 DEF vars
<1>10. QED
  BY <1>1, <1>2, <1>3, <1>4, <1>5, <1>6, <1>7, <1>8, <1>9 DEF Next, MainStep


-----------------------------------------------------------------------------
(* Responses.                                                              *)

\* Every step keeps each operation in one place.
LEMMA PlacedStep ==
  ASSUME TypeOK, Placed, [Next]_vars
  PROVE  Placed'
<1> USE DEF Placed, reportVars
<1>1. CASE UNCHANGED <<operations, task, resp_map>>
  BY <1>1
<1>2. CASE Dispatch
  <2>1. PICK o \in operations : /\ task' = [task EXCEPT ![o] = "queued"]
                                /\ operations' = operations \ {o}
    BY <1>2, DispatchIs
  <2>2. UNCHANGED resp_map
    BY <1>2 DEF Dispatch
  <2>3. QED
    BY <2>1, <2>2 DEF TypeOK
<1>3. ASSUME NEW o \in Operation, RecvPrereq(o) \/ RecvOp(o)
      PROVE  Placed'
  BY <1>3 DEF RecvPrereq, RecvOp, Unseen, TypeOK
<1>4. ASSUME NEW o \in Operation, PoolStep(o)
      PROVE  Placed'
  <2>1. /\ task[o] \notin {"none", "done"}
        /\ UNCHANGED operations
        /\ \/ UNCHANGED resp_map
           \/ resp_map' = resp_map \cup {o} /\ task'[o] = "done"
        /\ \A p \in Operation \ {o} : task'[p] = task[p]
    BY <1>4 DEF PoolStep, WaitGroupDone, PerformBegins, PerformReturns,
       CallbackTests, CallbackPuts, TypeOK
  <2>2. QED
    BY <2>1 DEF TypeOK
<1>5. CASE MainStep /\ ~Dispatch
  BY <1>1, <1>5 DEF MainStep, Await, SendReady, SetComplete, MakeIterator,
     IterationEnds, SendResult, WriteFails, SendFinished
<1>6. CASE \/ WaitReturns \/ RecvFinalise \/ RecvStart \/ RecvFails
            \/ ProcessEnds
  BY <1>1, <1>6 DEF WaitReturns, RecvFinalise, RecvStart, RecvFails, ProcessEnds
<1>7. QED
  BY <1>1, <1>2, <1>3, <1>4, <1>5, <1>6 DEF Next, vars

\* Every step keeps responses in time and written once.
LEMMA ResponseStep ==
  ASSUME TypeOK, InTime, WrittenOnce, [Next]_vars
  PROVE  InTime' /\ WrittenOnce'
<1> USE DEF reportVars, Reporting
<1>0. /\ stdout \in Seq(Message) /\ responses \subseteq Operation
      /\ UNCHANGED stdout => Written' = Written
      /\ complete \in BOOLEAN
  BY DEF TypeOK, Written
\* Steps that leave the responses alone.
<1>1. ASSUME UNCHANGED <<complete, resp_map, snapshot, responses, inTime>>,
             Written' = Written,
             \/ main' \notin {"collate", "iterate", "report", "exited"}
             \/ main' = main
             \/ main = "report" /\ responses = {} /\ main' = "exited",
             main \in Reporting => main' \in Reporting
      PROVE  InTime' /\ WrittenOnce'
  <2>1. InTime'
    BY <1>1 DEF InTime
  <2>2. WrittenOnce'
    BY <1>1 DEF WrittenOnce
  <2>3. QED
    BY <2>1, <2>2
<1>2. CASE SendReady \/ SendFinished
  <2>1. PICK m \in {Ready, Finished} : stdout' = Append(stdout, m)
    BY <1>2 DEF SendReady, SendFinished
  <2>2. Written' = Written
    BY <1>0, <2>1, WrittenGrows, Words DEF Written
  <2>3. QED
    BY <1>1, <1>2, <2>2 DEF SendReady, SendFinished
<1>3. CASE SetComplete
  BY <1>0, <1>3 DEF SetComplete, InTime, WrittenOnce
<1>4. CASE MakeIterator
  BY <1>0, <1>4 DEF MakeIterator, InTime, WrittenOnce
<1>5. CASE IterationEnds
  BY <1>0, <1>5 DEF IterationEnds, InTime, WrittenOnce
<1>6. CASE SendResult
  <2>1. PICK o \in responses : /\ stdout' = Append(stdout, Result(o))
                               /\ responses' = responses \ {o}
    BY <1>6 DEF SendResult
  <2>2. Written' = Written \cup {o}
    BY <1>0, <2>1, WrittenGrows, Words DEF Written
  <2>3. QED
    BY <1>6, <2>1, <2>2 DEF SendResult, InTime, WrittenOnce
<1>7. CASE Await \/ Dispatch \/ WriteFails
  BY <1>0, <1>1, <1>7 DEF Await, Dispatch, WriteFails
<1>8. CASE \/ WaitReturns \/ RecvFinalise \/ RecvStart \/ RecvFails
            \/ ProcessEnds
  BY <1>0, <1>1, <1>8 DEF WaitReturns, RecvFinalise, RecvStart, RecvFails, ProcessEnds
<1>9. ASSUME NEW o \in Operation, RecvPrereq(o) \/ RecvOp(o)
      PROVE  InTime' /\ WrittenOnce'
  BY <1>0, <1>1, <1>9 DEF RecvPrereq, RecvOp
<1>10. ASSUME NEW o \in Operation, PoolStep(o)
       PROVE  InTime' /\ WrittenOnce'
  <2>1. CASE CallbackPuts(o)
    <3>1. /\ UNCHANGED <<main, complete, snapshot, responses, stdout>>
          /\ resp_map' = resp_map \cup {o}
          /\ inTime' = IF complete THEN inTime ELSE inTime \cup {o}
      BY <2>1 DEF CallbackPuts
    <3>2. InTime'
      BY <1>0, <3>1 DEF InTime
    <3>3. WrittenOnce'
      BY <1>0, <3>1 DEF WrittenOnce
    <3>4. QED
      BY <3>2, <3>3
  <2>2. CASE WaitGroupDone(o)
    BY <1>0, <1>1, <2>2 DEF WaitGroupDone
  <2>3. CASE PerformBegins(o) \/ PerformReturns(o) \/ CallbackTests(o)
    BY <1>0, <1>1, <2>3 DEF PerformBegins, PerformReturns, CallbackTests
  <2>4. QED
    BY <1>10, <2>1, <2>2, <2>3 DEF PoolStep
<1>11. CASE UNCHANGED vars
  BY <1>0, <1>1, <1>11 DEF vars
<1>12. QED
  BY <1>2, <1>3, <1>4, <1>5, <1>6, <1>7, <1>8, <1>9, <1>10, <1>11
  DEF Next, MainStep

\* Every step of the client keeps the invariant.
LEMMA Invariance == Spec => []Inv
<1>1. Init => Inv
  <2> SUFFICES ASSUME Init PROVE Inv
    OBVIOUS
  <2>1. TypeOK
    <3>1. ErrorTime \in Int
      BY DEF ErrorTime
    <3>2. stamp \in [Operation -> Int] /\ <<>> \in Seq(Message)
      BY <3>1 DEF Init
    <3>3. task \in [Operation -> Tasks] /\ main \in Points
      BY DEF Init, Points, Tasks
    <3>4. jobs \in Int /\ clock \in Nat
      BY DEF Init
    <3>5. complete \in BOOLEAN
      BY Zenon DEF Init
    <3>6. QED
      BY <3>2, <3>3, <3>4, <3>5 DEF Init, TypeOK
  <2>2. Written = {}
    BY DEF Init, Written
  <2>3. Placed /\ InTime /\ WrittenOnce
    BY <2>2 DEF Init, Placed, InTime, WrittenOnce
  <2>4. QED
    BY <2>1, <2>3 DEF Inv
<1>2. Inv /\ [Next]_vars => Inv'
  BY TypeStep, PlacedStep, ResponseStep DEF Inv
<1>3. QED
  BY <1>1, <1>2, PTL DEF Spec

\* The variables keep their types.
THEOREM TypeCorrect == Spec => []TypeOK
<1>1. Inv => TypeOK
  BY DEF Inv
<1>2. QED
  BY <1>1, Invariance, PTL

\* Whatever a callback put into resp_map before complete.t was set has been
\* written when the client says finished, although callbacks go on reading
\* and writing without synchronisation while it is collected.
THEOREM InTimeIsReported == Spec => []InTimeReported
<1>1. Inv => InTimeReported
  <2> SUFFICES ASSUME Inv, main = "exited", NEW o \in inTime
               PROVE  \E k \in 1..Len(stdout) : stdout[k] = Result(o)
    BY DEF InTimeReported
  <2>1. o \in Written
    BY DEF Inv, InTime
  <2>2. QED
    BY <2>1 DEF Written
<1>2. QED
  BY <1>1, Invariance, PTL

-----------------------------------------------------------------------------
(* The conversation with the generator.                                    *)

\* Operations that have a result or may get one.
Taken == {o \in Operation : task[o] \notin {"none", "prereq", "prereq done"}}

\* Every step of the client is one of the protocol, or none.
LEMMA ProtocolStep ==
  ASSUME Inv, [Next]_vars
  PROVE  [Protocol!Next]_(Protocol!vars)
<1> USE DEF reportVars
<1>0. /\ pending = (operations \cup Taken) \ Written
      /\ pending' = (operations' \cup Taken') \ Written'
      /\ stdout \in Seq(Message) /\ task \in [Operation -> Tasks]
      /\ responses \subseteq Operation /\ operations \subseteq Operation
      /\ UNCHANGED stdout => Written' = Written
      /\ \A o \in responses \cup Written : task[o] = "done"
      /\ responses \cap Written = {}
  BY DEF pending, Taken, Inv, TypeOK, Placed, WrittenOnce, Written
<1>1. ASSUME UNCHANGED <<phase, stdout>>,
             operations' \cup Taken' = operations \cup Taken
      PROVE  [Protocol!Next]_(Protocol!vars)
  BY <1>0, <1>1 DEF Protocol!vars
<1>2. ASSUME NEW m \in {Ready, Finished}, stdout' = Append(stdout, m),
             UNCHANGED <<operations, task>>
      PROVE  UNCHANGED pending
  <2>1. Written' = Written
    BY <1>0, <1>2, WrittenGrows, Words DEF Written
  <2>2. QED
    BY <1>0, <1>2, <2>1 DEF Taken
<1>3. CASE SendReady
  <2>1. phase = "preload" /\ phase' = "ready"
    BY <1>3 DEF SendReady, phase
  <2>2. stdout' = Append(stdout, Ready) /\ UNCHANGED <<operations, task>>
    BY <1>3 DEF SendReady
  <2>3. Protocol!BecomeReady
    BY <1>2, <2>1, <2>2 DEF Protocol!BecomeReady, Ready, Protocol!Ready
  <2>4. QED
    BY <2>3 DEF Protocol!Next
<1>4. CASE SendFinished
  <2>1. phase = "running" /\ phase' = "finished"
    BY <1>4 DEF SendFinished, phase
  <2>2. stdout' = Append(stdout, Finished) /\ UNCHANGED <<operations, task>>
    BY <1>4 DEF SendFinished
  <2>3. Protocol!Finish
    BY <1>2, <2>1, <2>2 DEF Protocol!Finish, Finished, Protocol!Finished
  <2>4. QED
    BY <2>3 DEF Protocol!Next
<1>5. CASE RecvStart
  <2>1. phase = "ready" /\ phase' = "running"
    BY <1>5 DEF RecvStart, phase
  <2>2. UNCHANGED <<stdout, operations, task>>
    BY <1>5 DEF RecvStart
  <2>3. UNCHANGED pending
    BY <1>0, <2>2 DEF Taken
  <2>4. Protocol!Start
    BY <2>1, <2>2, <2>3 DEF Protocol!Start
  <2>5. QED
    BY <2>4 DEF Protocol!Next
<1>6. CASE RecvFails \/ ProcessEnds
  <2>1. phase \in {"preload", "ready", "running"} /\ phase' = "failed"
    BY <1>6 DEF RecvFails, ProcessEnds, phase
  <2>2. UNCHANGED <<stdout, operations, task>>
    BY <1>6 DEF RecvFails, ProcessEnds
  <2>3. UNCHANGED pending
    BY <1>0, <2>2 DEF Taken
  <2>4. Protocol!Fail
    BY <2>1, <2>2, <2>3 DEF Protocol!Fail
  <2>5. QED
    BY <2>4 DEF Protocol!Next
<1>7. CASE SendResult
  <2>1. PICK o \in responses : stdout' = Append(stdout, Result(o))
    BY <1>7 DEF SendResult
  <2>2. Written' = Written \cup {o}
    BY <1>0, <2>1, WrittenGrows, Words DEF Written
  <2>3. UNCHANGED <<main, operations, task>> /\ main = "report"
    BY <1>7 DEF SendResult
  <2>4. phase = "running" /\ UNCHANGED phase
    BY <2>3 DEF phase
  <2>5. o \in pending /\ pending' = pending \ {o}
    <3>1. o \in Taken /\ o \notin Written
      BY <1>0 DEF Taken
    <3>2. UNCHANGED Taken
      BY <2>3 DEF Taken
    <3>3. QED
      BY <1>0, <2>2, <2>3, <3>1, <3>2
  <2>6. Protocol!Reply(o)
    BY <2>1, <2>4, <2>5 DEF Protocol!Reply, Result, Protocol!Result
  <2>7. QED
    BY <1>0, <2>6 DEF Protocol!Next
<1>8. ASSUME NEW o \in Operation, RecvOp(o)
      PROVE  [Protocol!Next]_(Protocol!vars)
  <2>1. /\ main = "preload" /\ task[o] = "none" /\ o \notin operations
        /\ operations' = operations \cup {o}
        /\ UNCHANGED <<main, task, stdout>>
    BY <1>8 DEF RecvOp, Unseen
  <2>2. phase = "preload" /\ UNCHANGED phase
    BY <2>1 DEF phase
  <2>3. o \notin Taken /\ o \notin Written /\ UNCHANGED Taken
    BY <1>0, <2>1 DEF Taken
  <2>4. o \notin pending /\ pending' = pending \cup {o}
    BY <1>0, <2>1, <2>3
  <2>5. Protocol!Preload(o)
    BY <2>1, <2>2, <2>4 DEF Protocol!Preload
  <2>6. QED
    BY <2>5 DEF Protocol!Next
<1>9. ASSUME NEW o \in Operation, RecvPrereq(o)
      PROVE  [Protocol!Next]_(Protocol!vars)
  <2>1. Taken' = Taken
    BY <1>0, <1>9 DEF RecvPrereq, Unseen, Taken
  <2>2. UNCHANGED <<phase, stdout, operations>>
    BY <1>9 DEF RecvPrereq, phase
  <2>3. QED
    BY <1>1, <2>1, <2>2
<1>10. CASE Dispatch
  <2>1. PICK o \in operations : /\ task' = [task EXCEPT ![o] = "queued"]
                                /\ operations' = operations \ {o}
    BY <1>10, DispatchIs DEF Inv
  <2>2. Taken' = Taken \cup {o}
    BY <1>0, <2>1 DEF Taken
  <2>3. UNCHANGED <<phase, stdout>>
    BY <1>10 DEF Dispatch, phase
  <2>4. QED
    BY <1>1, <2>1, <2>2, <2>3
<1>11. ASSUME NEW o \in Operation, PoolStep(o)
       PROVE  [Protocol!Next]_(Protocol!vars)
  <2>1. UNCHANGED <<stdout, operations>>
    BY <1>11 DEF PoolStep, WaitGroupDone, PerformBegins, PerformReturns,
       CallbackTests, CallbackPuts
  <2>2. UNCHANGED phase
    <3>1. CASE WaitGroupDone(o)
      BY <3>1 DEF WaitGroupDone, phase
    <3>2. CASE ~WaitGroupDone(o)
      <4>1. UNCHANGED main
        BY <1>11, <3>2 DEF PoolStep, PerformBegins, PerformReturns,
           CallbackTests, CallbackPuts
      <4>2. QED
        BY <4>1 DEF phase
    <3>3. QED
      BY <3>1, <3>2
  <2>3. /\ \A p \in Operation \ {o} : task'[p] = task[p]
        /\ task[o] = "prereq" => task'[o] = "prereq done"
        /\ task[o] # "prereq" =>
             {task[o], task'[o]} \cap {"none", "prereq", "prereq done"} = {}
    BY <1>0, <1>11 DEF PoolStep, WaitGroupDone, PerformBegins,
       PerformReturns, CallbackTests, CallbackPuts
  <2>4. Taken' = Taken
    BY <2>3 DEF Taken
  <2>5. QED
    BY <1>1, <2>1, <2>2, <2>4
<1>12. CASE \/ Await \/ SetComplete \/ MakeIterator \/ IterationEnds
            \/ WaitReturns \/ RecvFinalise \/ WriteFails
  <2>1. UNCHANGED <<stdout, operations, task>>
    BY <1>12 DEF Await, SetComplete, MakeIterator, IterationEnds,
       WaitReturns, RecvFinalise, WriteFails
  <2>2. UNCHANGED phase
    BY <1>12 DEF Await, SetComplete, MakeIterator, IterationEnds,
       WaitReturns, RecvFinalise, WriteFails, phase
  <2>3. QED
    BY <1>1, <2>1, <2>2 DEF Taken
<1>13. CASE UNCHANGED vars
  BY <1>1, <1>13 DEF vars, Taken, phase
<1>14. QED
  BY <1>3, <1>4, <1>5, <1>6, <1>7, <1>8, <1>9, <1>10, <1>11, <1>12, <1>13
  DEF Next, MainStep

\* The Java client only ever does what ClientProtocol allows: ready once,
\* each loaded operation reported at most once and after start, nothing
\* after finished.  A main thread that raised leaves the conversation where
\* it was; it fails only when the last pool thread has gone.
THEOREM ProtocolSafety == Spec => KeepsProtocol
<1>1. Init => Protocol!Init
  <2> SUFFICES ASSUME Init PROVE Protocol!Init
    OBVIOUS
  <2>1. phase = "preload"
    BY DEF Init, phase
  <2>2. pending = {}
    BY DEF Init, pending
  <2>3. QED
    BY <2>1, <2>2 DEF Init, Protocol!Init
<1>2. Inv /\ [Next]_vars => [Protocol!Next]_(Protocol!vars)
  BY ProtocolStep
<1>3. QED
  BY <1>1, <1>2, Invariance, PTL DEF Spec, KeepsProtocol

=============================================================================
