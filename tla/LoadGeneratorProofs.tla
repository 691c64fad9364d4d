------------------------ MODULE LoadGeneratorProofs ------------------------
(***************************************************************************)
(* Proofs about LoadGenerator, for every number of clients, prerequisites, *)
(* operations and faults and every capacity of the pipes: the ready phase  *)
(* is a barrier, an exception means that a client has died, collate loses, *)
(* repeats and reorders no result, each client is spoken to and speaks as  *)
(* ClientProtocol says, and no operation is counted twice.                 *)
(***************************************************************************)
EXTENDS LoadGenerator, FiniteSetTheorems, TLAPS

-----------------------------------------------------------------------------
(* The inductive invariant.                                                *)

InMessage == {Preload(o) : o \in Operation} \cup {Finalise, Start}
OutMessage == {Result(o) : o \in Operation} \cup {Ready, Finished}

Loading == {"prereqs", "workload", "finalise"}
Collating == {"collate", "join", "done", "uncollected"}

TypeInv ==
  /\ main \in Loading \cup Collating \cup {"ready", "raised"}
  /\ i \in Nat \ {0}
  /\ exec \in {"off", "start", "fault", "sleep", "ended", "died"}
  /\ started \in 0..NumClients
  /\ applied \in Nat
  /\ registered \in SUBSET Client
  /\ remaining \in Nat
  /\ resps \in [Client -> Seq(OutMessage)]
  /\ sent \in [Client -> Seq(InMessage)]
  /\ heard \in [Client -> Nat]
  /\ said \in [Client -> Seq(OutMessage)]
  /\ slurped \in [Client -> Nat]
  /\ consumed \in [Client -> Nat]
  /\ phase \in [Client -> {"preload", "ready", "running", "finished",
                           "exited", "failed"}]
  /\ pending \in [Client -> SUBSET Operation]
  /\ prepared \in SUBSET Prereq

\* Nobody reads what has not been written.
PipeOrder ==
  \A c \in Client :
    /\ heard[c] <= Len(sent[c])
    /\ consumed[c] <= slurped[c]
    /\ slurped[c] <= Len(said[c])

InSent(c, m) == \E k \in 1..Len(sent[c]) : sent[c][k] = m

\* What the generator writes to a client: finalise after all operations,
FinaliseAfterLoads ==
  \A c \in Client : \A j, k \in 1..Len(sent[c]) : \A o \in Operation :
    sent[c][k] = Finalise /\ sent[c][j] = Preload(o) => j < k

\* not before the workload has ended,
NotYetFinalised ==
  main \in {"prereqs", "workload"} => \A c \in Client : ~InSent(c, Finalise)

\* and only once every prerequisite has been written to its client.
PrereqsOut ==
  \A p \in Prereq :
    \/ main = "prereqs" /\ p < i
    \/ main \in {"workload", "finalise", "ready"} \cup Collating
    \/ \E c \in Client : InSent(c, Finalise)
    => InSent(PrereqClient(p), Preload(p))

\* The execute thread exists from collate on; start is not sent before.
ExecuteLate ==
  /\ main \in Loading \cup {"ready"} => exec = "off"
  /\ main \in Collating => exec # "off"
  /\ exec = "off" => \A c \in Client : ~InSent(c, Start)

\* A client has performed the prerequisites it has heard of.
Prepared ==
  \A c \in Client : \A k \in 1..heard[c] : \A p \in Prereq :
    sent[c][k] = Preload(p) => p \in prepared

\* A client's first word is ready, said after it heard finalise; before the
\* execute thread exists it says no more.
ReadyFirst(c) ==
  /\ phase[c] = "preload" => Len(said[c]) = 0
  /\ phase[c] \notin {"preload", "failed"} => Len(said[c]) > 0
  /\ Len(said[c]) > 0 =>
       /\ said[c][1] = Ready
       /\ \E k \in 1..heard[c] : sent[c][k] = Finalise
  /\ exec = "off" =>
       phase[c] \in {"preload", "ready", "failed"} /\ Len(said[c]) <= 1

SaysReady == \A c \in Client : ReadyFirst(c)

\* ready counts the clients that a message was taken from.
Counted == {c \in Client : consumed[c] > 0}
ReadyCount ==
  /\ main \in Loading => Counted = {}
  /\ main = "ready" => i = Cardinality(Counted) + 1
  /\ exec # "off" => Counted = Client

BarrierInv ==
  /\ PipeOrder
  /\ FinaliseAfterLoads /\ NotYetFinalised /\ PrereqsOut
  /\ ExecuteLate
  /\ Prepared
  /\ SaysReady
  /\ ReadyCount

\* finished is a client's last word.
LastWord(c) ==
  /\ phase[c] \in {"finished", "exited"} =>
       Len(said[c]) > 0 /\ said[c][Len(said[c])] = Finished
  /\ \A k \in 1..Len(said[c]) : said[c][k] = Finished =>
       k = Len(said[c]) /\ phase[c] \in {"finished", "exited"}

FinishedLast == \A c \in Client : LastWord(c)

\* collate waits for the clients whose finished it has not taken, and counts
\* them.
Registration ==
  /\ main \in Loading \cup {"ready"} => remaining = NumClients
  /\ main \in Collating =>
       /\ remaining = Cardinality(registered)
       /\ \A c \in Client \ registered :
            /\ phase[c] \in {"finished", "exited"}
            /\ consumed[c] = Len(said[c])
       /\ \A c \in registered :
            phase[c] \in {"finished", "exited"} => consumed[c] < Len(said[c])
  /\ main \in {"join", "done", "uncollected"} => remaining = 0

\* The results collated are those among the messages taken.
Collated ==
  \A c \in Client : ResultsOf(resps[c], said[c], consumed[c])

CollateInv == FinishedLast /\ Registration /\ Collated /\ RaisesOnlyAfterDeath

-----------------------------------------------------------------------------
(* Facts about messages and clients.                                       *)

\* The messages of the protocol are told apart.
LEMMA Words ==
  /\ Finalise # Start
  /\ Ready # Finished
  /\ IsResult(Ready) = FALSE /\ IsResult(Finished) = FALSE
  /\ \A o : Preload(o) # Finalise /\ Preload(o) # Start
  /\ \A o : Result(o) # Ready /\ Result(o) # Finished
  /\ \A o, p : Preload(o) = Preload(p) => o = p
  /\ \A o : IsResult(Result(o))
BY DEF Finalise, Start, Ready, Finished, Preload, Result, IsResult

\* What is written to a pipe is a message.
LEMMA Written ==
  /\ Finalise \in InMessage /\ Start \in InMessage
  /\ Ready \in OutMessage /\ Finished \in OutMessage
  /\ \A o \in Operation : Preload(o) \in InMessage /\ Result(o) \in OutMessage
BY DEF InMessage, OutMessage

\* The clients are finitely many, and it.cycle(clients) names one of them.
LEMMA Clients ==
  /\ IsFiniteSet(Client)
  /\ Cardinality(Client) = NumClients
  /\ \A p \in Nat \ {0} : PrereqClient(p) \in Client
<1>1. IsFiniteSet(Client) /\ Cardinality(Client) = NumClients
  BY CountsAssumption, FS_Interval DEF Client
<1>2. ASSUME NEW p \in Nat \ {0} PROVE PrereqClient(p) \in Client
  BY CountsAssumption DEF PrereqClient, Client
<1>3. QED
  BY <1>1, <1>2

-----------------------------------------------------------------------------
(* Type correctness.                                                       *)

\* The four ways to use a pipe keep its counters and contents well typed.
LEMMA PipeType ==
  ASSUME TypeInv, NEW c \in Client
  PROVE  /\ \A m \in InMessage : Send(c, m) =>
              sent' \in [Client -> Seq(InMessage)]
         /\ \A m : Heard(c, m) => heard' \in [Client -> Nat]
         /\ \A m \in OutMessage : Say(c, m) =>
              said' \in [Client -> Seq(OutMessage)]
         /\ Fetch(c) => /\ slurped' \in [Client -> Nat]
                        /\ consumed' \in [Client -> Nat]
<1>1. ASSUME NEW m \in InMessage, Send(c, m)
      PROVE  sent' \in [Client -> Seq(InMessage)]
  <2>1. sent \in [Client -> Seq(InMessage)]
    BY DEF TypeInv
  <2>2. QED
    BY <1>1, <2>1 DEF Send
<1>2. ASSUME NEW m, Heard(c, m) PROVE heard' \in [Client -> Nat]
  <2>1. heard \in [Client -> Nat]
    BY DEF TypeInv
  <2>2. QED
    BY <1>2, <2>1 DEF Heard
<1>3. ASSUME NEW m \in OutMessage, Say(c, m)
      PROVE  said' \in [Client -> Seq(OutMessage)]
  <2>1. said \in [Client -> Seq(OutMessage)]
    BY DEF TypeInv
  <2>2. QED
    BY <1>3, <2>1 DEF Say
<1>4. ASSUME Fetch(c)
      PROVE  slurped' \in [Client -> Nat] /\ consumed' \in [Client -> Nat]
  <2>1. slurped \in [Client -> Nat] /\ consumed \in [Client -> Nat]
    BY DEF TypeInv
  <2>2. consumed' = [consumed EXCEPT ![c] = @ + 1]
    BY <1>4 DEF Fetch
  <2>3. \/ slurped' = slurped
        \/ \E k \in 1..BufCap : slurped' = [slurped EXCEPT ![c] = @ + k]
    BY <1>4 DEF Fetch
  <2>4. QED
    BY <2>1, <2>2, <2>3, CapsAssumption
<1>5. QED
  BY <1>1, <1>2, <1>3, <1>4

\* The first states have their types.
LEMMA TypeInit == Init => TypeInv
BY CountsAssumption DEF Init, TypeInv, Loading

\* Every step keeps the types.
LEMMA TypeStep ==
  ASSUME TypeInv, [Next]_vars
  PROVE  TypeInv'
<1> USE CountsAssumption
    DEF TypeInv, Loading, Collating, mainVars, execVars, collateVars, pipeIn,
        pipeOut, clientVars
<1>1. CASE SendPrereq
  <2>1. Preload(i) \in InMessage
    BY <1>1, Written DEF SendPrereq, Operation
  <2>2. sent' \in [Client -> Seq(InMessage)]
    BY <1>1, <2>1, Clients, PipeType DEF SendPrereq
  <2>3. QED
    BY <1>1, <2>2 DEF SendPrereq
<1>2. ASSUME NEW c \in Client, SendOp(c) PROVE TypeInv'
  <2>1. Preload(i) \in InMessage
    BY <1>2, Written DEF SendOp, Operation
  <2>2. sent' \in [Client -> Seq(InMessage)]
    BY <1>2, <2>1, PipeType DEF SendOp
  <2>3. QED
    BY <1>2, <2>2 DEF SendOp
<1>3. CASE SendFinalise
  <2>1. i \in Client
    BY <1>3 DEF SendFinalise, Client
  <2>2. sent' \in [Client -> Seq(InMessage)]
    BY <1>3, <2>1, Written, PipeType DEF SendFinalise
  <2>3. QED
    BY <1>3, <2>2 DEF SendFinalise
<1>4. CASE SendStart
  <2>1. started + 1 \in Client
    BY <1>4 DEF SendStart, Client
  <2>2. sent' \in [Client -> Seq(InMessage)]
    BY <1>4, <2>1, Written, PipeType DEF SendStart
  <2>3. QED
    BY <1>4, <2>2 DEF SendStart
<1>5. CASE PrereqsSent BY <1>5 DEF PrereqsSent
<1>6. CASE WorkloadEnds BY <1>6 DEF WorkloadEnds
<1>7. CASE FinaliseSent BY <1>7 DEF FinaliseSent
<1>8. CASE BrokenPipe BY <1>8 DEF BrokenPipe
<1>9. CASE StartExecute BY <1>9 DEF StartExecute
<1>10. CASE CollateEnds BY <1>10 DEF CollateEnds
<1>11. CASE Join BY <1>11 DEF Join
<1>12. ASSUME NEW c \in Client, RecvReady(c) PROVE TypeInv'
  BY <1>12, PipeType, SMTT(30) DEF RecvReady
<1>13. ASSUME NEW c \in Client, RecvEOF(c) PROVE TypeInv'
  BY <1>13 DEF RecvEOF
<1>14. ASSUME NEW c \in Client, RecvCollate(c) PROVE TypeInv'
  <2>1. NextMessage(c) \in OutMessage
    BY <1>14 DEF RecvCollate, HasMessage, NextMessage
  <2>2. /\ slurped' \in [Client -> Nat]
        /\ consumed' \in [Client -> Nat]
    BY <1>14, PipeType DEF RecvCollate
  <2>3. resps' \in [Client -> Seq(OutMessage)]
    BY <1>14, <2>1 DEF RecvCollate
  <2>4. QED
    BY <1>14, <2>2, <2>3 DEF RecvCollate, Unregister
<1>15. CASE StartsSent BY <1>15 DEF StartsSent
<1>16. CASE StartRaises BY <1>16 DEF StartRaises
<1>17. CASE ApplyFault BY <1>17 DEF ApplyFault
<1>18. CASE FaultRaises BY <1>18 DEF FaultRaises
<1>19. CASE SleepEnds BY <1>19 DEF SleepEnds
<1>20. ASSUME NEW c \in Client, NEW o \in Operation, ClientLoad(c, o)
       PROVE  TypeInv'
  BY <1>20, Written, PipeType DEF ClientLoad
<1>21. ASSUME NEW c \in Client, NEW o \in Operation, ClientReply(c, o)
       PROVE  TypeInv'
  BY <1>21, Written, PipeType DEF ClientReply
<1>22. ASSUME NEW c \in Client, ClientReady(c) PROVE TypeInv'
  BY <1>22, Written, PipeType DEF ClientReady
<1>23. ASSUME NEW c \in Client, ClientStart(c) PROVE TypeInv'
  BY <1>23, Written, PipeType DEF ClientStart
<1>24. ASSUME NEW c \in Client, ClientFinish(c) PROVE TypeInv'
  BY <1>24, Written, PipeType DEF ClientFinish
<1>25. ASSUME NEW c \in Client, ClientExit(c) PROVE TypeInv'
  BY <1>25 DEF ClientExit
<1>26. ASSUME NEW c \in Client, ClientDies(c) PROVE TypeInv'
  BY <1>26 DEF ClientDies
<1>27. CASE UNCHANGED vars BY <1>27 DEF vars
<1>28. QED
  BY <1>1, <1>2, <1>3, <1>4, <1>5, <1>6, <1>7, <1>8, <1>9, <1>10, <1>11,
     <1>12, <1>13, <1>14, <1>15, <1>16, <1>17, <1>18, <1>19, <1>20, <1>21,
     <1>22, <1>23, <1>24, <1>25, <1>26, <1>27
  DEF Next, MainThread, ExecuteThread, ClientRuns

-----------------------------------------------------------------------------
(* The barrier.                                                            *)

\* Before the clients are loaded none has been told to start.
LEMMA BarrierInit == Init => BarrierInv
BY CountsAssumption, FS_EmptySet
DEF Init, BarrierInv, PipeOrder, FinaliseAfterLoads, NotYetFinalised,
    PrereqsOut, ExecuteLate, Prepared, SaysReady, ReadyFirst, ReadyCount,
    Counted, InSent, Loading, Collating, Prereq

\* The steps that write to a client's stdin, that read from its stdout, and
\* that touch no pipe and no client.
Writes == SendPrereq \/ SendFinalise \/ SendStart \/ \E c \in Client : SendOp(c)
Reads(c) == RecvReady(c) \/ RecvCollate(c)
Control ==
  \/ PrereqsSent \/ WorkloadEnds \/ FinaliseSent \/ BrokenPipe
  \/ StartExecute \/ CollateEnds \/ Join
  \/ StartsSent \/ StartRaises \/ ApplyFault \/ FaultRaises \/ SleepEnds
  \/ \E c \in Client : RecvEOF(c)
ClientSteps(c) == ClientRuns(c) \/ ClientDies(c)

\* Every step is of one of these kinds.
LEMMA Kinds ==
  ASSUME [Next]_vars
  PROVE  \/ Writes
         \/ \E c \in Client : Reads(c)
         \/ Control
         \/ \E c \in Client : ClientSteps(c)
         \/ UNCHANGED vars
BY DEF Next, MainThread, ExecuteThread, Writes, Reads, Control, ClientSteps

\* What a write does to the pipe, position by position, and who makes it.
LEMMA WriteEffect ==
  ASSUME TypeInv, Writes
  PROVE  \E c \in Client, m \in InMessage :
           /\ sent' \in [Client -> Seq(InMessage)]
           /\ Len(sent'[c]) = Len(sent[c]) + 1
           /\ sent'[c][Len(sent[c]) + 1] = m
           /\ \A k \in 1..Len(sent[c]) : sent'[c][k] = sent[c][k]
           /\ \A d \in Client \ {c} : sent'[d] = sent[d]
           /\ \/ /\ main \in {"prereqs", "workload"} /\ i' = i + 1
                 /\ m = Preload(i) /\ i \in Operation
                 /\ main = "prereqs" => c = PrereqClient(i)
              \/ main = "finalise" /\ m = Finalise
              \/ exec = "start" /\ m = Start /\ i' = i
           /\ UNCHANGED <<main, exec, applied, collateVars, heard, pipeOut,
                          clientVars>>
<1>0. /\ sent \in [Client -> Seq(InMessage)]
      /\ i \in Nat \ {0} /\ started \in 0..NumClients
  BY DEF TypeInv
<1>1. ASSUME NEW c \in Client, NEW m \in InMessage, Send(c, m)
      PROVE  /\ sent' \in [Client -> Seq(InMessage)]
             /\ Len(sent'[c]) = Len(sent[c]) + 1
             /\ sent'[c][Len(sent[c]) + 1] = m
             /\ \A k \in 1..Len(sent[c]) : sent'[c][k] = sent[c][k]
             /\ \A d \in Client \ {c} : sent'[d] = sent[d]
  BY <1>0, <1>1 DEF Send
<1>2. CASE SendPrereq
  <2>1. i \in Operation /\ Preload(i) \in InMessage
    BY <1>0, <1>2, CountsAssumption, Written DEF SendPrereq, Operation
  <2>2. PrereqClient(i) \in Client
    BY <1>0, Clients
  <2>3. QED
    BY <1>1, <1>2, <2>1, <2>2 DEF SendPrereq, execVars
<1>3. CASE SendFinalise
  <2>1. i \in Client
    BY <1>0, <1>3 DEF SendFinalise, Client
  <2>2. QED
    BY <1>1, <1>3, <2>1, Written DEF SendFinalise, execVars
<1>4. CASE SendStart
  <2>1. started + 1 \in Client
    BY <1>0, <1>4, CountsAssumption DEF SendStart, Client
  <2>2. QED
    BY <1>1, <1>4, <2>1, Written DEF SendStart, mainVars
<1>5. ASSUME NEW c \in Client, SendOp(c)
      PROVE  /\ Send(c, Preload(i)) /\ i' = i + 1 /\ main = "workload"
             /\ i \in Operation /\ Preload(i) \in InMessage
             /\ UNCHANGED <<main, exec, applied, collateVars, heard, pipeOut,
                            clientVars>>
  BY <1>0, <1>5, CountsAssumption, Written DEF SendOp, Operation, execVars
<1>6. QED
  BY <1>1, <1>2, <1>3, <1>4, <1>5 DEF Writes

\* What a read does: one message is taken from one client, and main says
\* where the generator is.
LEMMA ReadEffect ==
  ASSUME TypeInv, PipeOrder, NEW c \in Client, Reads(c)
  PROVE  /\ consumed[c] < Len(said[c])
         /\ consumed'[c] = consumed[c] + 1
         /\ consumed'[c] <= slurped'[c] /\ slurped'[c] <= Len(said[c])
         /\ \A d \in Client \ {c} :
              consumed'[d] = consumed[d] /\ slurped'[d] = slurped[d]
         /\ UNCHANGED <<exec, started, applied, pipeIn, said, clientVars>>
<1>0. /\ consumed \in [Client -> Nat] /\ slurped \in [Client -> Nat]
      /\ said \in [Client -> Seq(OutMessage)]
  BY DEF TypeInv
<1>1. Len(said[c]) \in Nat
  BY <1>0
<1>2. consumed[c] < Len(said[c]) /\ Fetch(c)
  BY <1>0 DEF Reads, RecvReady, RecvCollate, HasMessage
<1>3. UNCHANGED <<exec, started, applied, pipeIn, said, clientVars>>
  BY DEF Reads, RecvReady, RecvCollate, execVars
<1>4. consumed' = [consumed EXCEPT ![c] = @ + 1]
  BY <1>2 DEF Fetch
<1>5. \/ slurped' = slurped /\ consumed[c] < slurped[c]
      \/ \E k \in 1..BufCap : /\ slurped' = [slurped EXCEPT ![c] = @ + k]
                              /\ consumed[c] = slurped[c]
                              /\ slurped[c] + k <= Len(said[c])
  BY <1>2 DEF Fetch
<1>6. /\ consumed[c] <= slurped[c] /\ slurped[c] <= Len(said[c])
      /\ consumed[c] \in Nat /\ slurped[c] \in Nat
  BY <1>0 DEF PipeOrder
<1>7. consumed'[c] <= slurped'[c] /\ slurped'[c] <= Len(said[c])
  BY <1>0, <1>1, <1>4, <1>5, <1>6, CapsAssumption
<1>8. QED
  BY <1>0, <1>2, <1>3, <1>4, <1>5, <1>7

\* A client's step leaves the generator alone, and what it is sent.
LEMMA ClientFrame ==
  ASSUME NEW c \in Client, ClientSteps(c)
  PROVE  UNCHANGED <<main, i, exec, started, applied, registered, remaining,
                     resps, sent, slurped, consumed>>
BY DEF ClientSteps, ClientRuns, ClientLoad, ClientReply, ClientReady,
       ClientStart, ClientFinish, ClientExit, ClientDies, mainVars, execVars,
       collateVars, pipeIn, pipeOut

\* So does a step that touches no pipe leave the pipes and the clients.
LEMMA ControlFrame ==
  ASSUME Control
  PROVE  UNCHANGED <<resps, sent, heard, said, slurped, consumed, phase,
                     pending, prepared>>
BY DEF Control, PrereqsSent, WorkloadEnds, FinaliseSent, BrokenPipe,
       StartExecute, CollateEnds, Join, StartsSent, StartRaises, ApplyFault,
       FaultRaises, SleepEnds, RecvEOF, mainVars, execVars, collateVars,
       pipeIn, pipeOut, clientVars

\* Hearing a message, position by position.
LEMMA HearEffect ==
  ASSUME TypeInv, NEW c \in Client, NEW m, Heard(c, m)
  PROVE  /\ heard[c] \in Nat /\ heard[c] + 1 <= Len(sent[c])
         /\ sent[c][heard[c] + 1] = m
         /\ heard'[c] = heard[c] + 1
         /\ \A d \in Client \ {c} : heard'[d] = heard[d]
<1>1. heard \in [Client -> Nat] /\ Len(sent[c]) \in Nat
  BY DEF TypeInv
<1>2. QED
  BY <1>1 DEF Heard

\* Saying a message, position by position.
LEMMA SayEffect ==
  ASSUME TypeInv, NEW c \in Client, NEW m \in OutMessage, Say(c, m)
  PROVE  /\ Len(said[c]) \in Nat
         /\ Len(said'[c]) = Len(said[c]) + 1
         /\ said'[c][Len(said[c]) + 1] = m
         /\ \A k \in 1..Len(said[c]) : said'[c][k] = said[c][k]
         /\ \A d \in Client \ {c} : said'[d] = said[d]
<1>1. said \in [Client -> Seq(OutMessage)]
  BY DEF TypeInv
<1>2. QED
  BY <1>1 DEF Say

\* Both ends of a pipe keep their order.
LEMMA PipeOrderStep ==
  ASSUME TypeInv, TypeInv', PipeOrder, [Next]_vars
  PROVE  PipeOrder'
<1>0. \A d \in Client : /\ Len(sent[d]) \in Nat /\ Len(said[d]) \in Nat
                        /\ heard[d] \in Nat /\ slurped[d] \in Nat
  BY DEF TypeInv
<1>1. CASE Writes
  <2>1. /\ UNCHANGED <<heard, said, slurped, consumed>>
        /\ \A d \in Client : /\ Len(sent'[d]) \in Nat
                             /\ Len(sent[d]) <= Len(sent'[d])
    BY <1>0, <1>1, WriteEffect DEF pipeOut
  <2>2. QED
    BY <1>0, <2>1 DEF PipeOrder
<1>2. ASSUME NEW c \in Client, Reads(c) PROVE PipeOrder'
  BY <1>2, ReadEffect DEF PipeOrder, pipeIn
<1>3. CASE Control
  BY <1>3, ControlFrame DEF PipeOrder
<1>4. ASSUME NEW c \in Client, ClientSteps(c) PROVE PipeOrder'
  <2>1. \A d \in Client : heard'[d] <= Len(sent[d])
    <3>1. UNCHANGED heard \/ \E m : Heard(c, m)
      BY <1>4 DEF ClientSteps, ClientRuns, ClientLoad, ClientReply,
         ClientReady, ClientStart, ClientFinish, ClientExit, ClientDies, pipeIn
    <3>2. QED
      BY <3>1, HearEffect DEF PipeOrder
  <2>2. \A d \in Client : Len(said'[d]) \in Nat /\ Len(said[d]) <= Len(said'[d])
    <3>1. UNCHANGED said \/ \E m \in OutMessage : Say(c, m)
      BY <1>4, Written DEF ClientSteps, ClientRuns, ClientLoad, ClientReply,
         ClientReady, ClientStart, ClientFinish, ClientExit, ClientDies, pipeOut
    <3>2. QED
      BY <1>0, <3>1, SayEffect
  <2>3. QED
    BY <1>0, <1>4, <2>1, <2>2, ClientFrame DEF PipeOrder
<1>5. CASE UNCHANGED vars
  BY <1>5 DEF vars, pipeIn, pipeOut, PipeOrder
<1>6. QED
  BY <1>1, <1>2, <1>3, <1>4, <1>5, Kinds

\* What the generator writes keeps its order.
LEMMA ScriptStep ==
  ASSUME TypeInv, TypeInv', BarrierInv, [Next]_vars
  PROVE  FinaliseAfterLoads' /\ NotYetFinalised' /\ PrereqsOut'
<1>0. /\ \A d \in Client : Len(sent[d]) \in Nat /\ Len(sent'[d]) \in Nat
      /\ i \in Nat \ {0}
  BY SMTT(30) DEF TypeInv
<1> USE DEF BarrierInv
<1>1. CASE Writes
  <2> PICK c \in Client, m \in InMessage :
         /\ Len(sent'[c]) = Len(sent[c]) + 1
         /\ sent'[c][Len(sent[c]) + 1] = m
         /\ \A k \in 1..Len(sent[c]) : sent'[c][k] = sent[c][k]
         /\ \A d \in Client \ {c} : sent'[d] = sent[d]
         /\ \/ /\ main \in {"prereqs", "workload"} /\ i' = i + 1
               /\ m = Preload(i) /\ i \in Operation
               /\ main = "prereqs" => c = PrereqClient(i)
            \/ main = "finalise" /\ m = Finalise
            \/ exec = "start" /\ m = Start /\ i' = i
         /\ main' = main
    BY <1>1, WriteEffect
  <2>1. ASSUME NEW d \in Client, NEW x, InSent(d, x)
        PROVE  InSent(d, x)'
    <3>1. PICK k \in 1..Len(sent[d]) : sent[d][k] = x
      BY <2>1 DEF InSent
    <3>2. k \in 1..Len(sent'[d]) /\ sent'[d][k] = x
      BY <1>0, <3>1
    <3>3. QED
      BY <3>2 DEF InSent
  <2>2. ASSUME NEW d \in Client, NEW x, InSent(d, x)'
        PROVE  InSent(d, x) \/ (d = c /\ x = m)
    <3>1. PICK k \in 1..Len(sent'[d]) : sent'[d][k] = x
      BY <2>2 DEF InSent
    <3>2. CASE d = c /\ k = Len(sent[c]) + 1
      BY <3>1, <3>2
    <3>3. CASE ~(d = c /\ k = Len(sent[c]) + 1)
      <4>1. k \in 1..Len(sent[d]) /\ sent[d][k] = x
        BY <1>0, <3>1, <3>3
      <4>2. QED
        BY <4>1 DEF InSent
    <3>4. QED
      BY <3>2, <3>3
  <2>3. InSent(c, m)'
    BY <1>0 DEF InSent
  <2>4. main \in {"prereqs", "workload"} => m # Finalise
    BY Words DEF ExecuteLate, Loading
  <2>5. NotYetFinalised'
    BY <2>2, <2>4 DEF NotYetFinalised
  <2>6. FinaliseAfterLoads'
    <3> SUFFICES ASSUME NEW d \in Client, NEW j \in 1..Len(sent'[d]),
                        NEW k \in 1..Len(sent'[d]), NEW o \in Operation,
                        sent'[d][k] = Finalise, sent'[d][j] = Preload(o)
                 PROVE  j < k
      BY DEF FinaliseAfterLoads
    <3>1. CASE d # c
      BY <3>1 DEF FinaliseAfterLoads
    <3>2. CASE d = c /\ j = Len(sent[c]) + 1
      <4>1. m = Preload(o)
        BY <3>2
      <4>2. main \in {"prereqs", "workload"} /\ m # Finalise
        BY <4>1, Words DEF ExecuteLate, Loading
      <4>3. InSent(c, Finalise)'
        BY <3>2 DEF InSent
      <4>4. QED
        BY <2>2, <4>2, <4>3 DEF NotYetFinalised
    <3>3. CASE d = c /\ j \in 1..Len(sent[c]) /\ k = Len(sent[c]) + 1
      BY <1>0, <3>3
    <3>4. CASE d = c /\ j \in 1..Len(sent[c]) /\ k \in 1..Len(sent[c])
      BY <3>4 DEF FinaliseAfterLoads
    <3>5. QED
      BY <1>0, <3>1, <3>2, <3>3, <3>4
  <2>7. PrereqsOut'
    <3> SUFFICES ASSUME NEW p \in Prereq,
                        \/ main = "prereqs" /\ p < i'
                        \/ main \in {"workload", "finalise", "ready"}
                                      \cup Collating
                        \/ \E d \in Client : InSent(d, Finalise)'
                 PROVE  InSent(PrereqClient(p), Preload(p))'
      BY DEF PrereqsOut
    <3>0. p \in Nat \ {0}
      BY CountsAssumption DEF Prereq
    <3>1. PrereqClient(p) \in Client
      BY <3>0, Clients
    <3>2. CASE main = "prereqs"
      <4>1. \A d \in Client : ~InSent(d, Finalise)'
        BY <2>5, <3>2 DEF NotYetFinalised
      <4>2. p < i'
        BY <3>2, <4>1 DEF Collating
      <4>3. exec = "off"
        BY <3>2 DEF ExecuteLate, Loading
      <4>4. i' = i + 1 /\ m = Preload(i) /\ c = PrereqClient(i)
        BY <3>2, <4>3
      <4>5. CASE p = i
        BY <2>3, <4>4, <4>5
      <4>6. CASE p < i
        BY <2>1, <3>1, <3>2, <4>6 DEF PrereqsOut
      <4>7. QED
        BY <1>0, <3>0, <4>2, <4>4, <4>5, <4>6
    <3>3. CASE main # "prereqs"
      <4>1. InSent(PrereqClient(p), Preload(p))
        <5>1. \/ main \in {"workload", "finalise", "ready"} \cup Collating
              \/ \E d \in Client : InSent(d, Finalise)
          BY <2>2, <3>3, Words DEF ExecuteLate, Loading, Collating
        <5>2. QED
          BY <5>1 DEF PrereqsOut
      <4>2. QED
        BY <2>1, <3>1, <4>1
    <3>4. QED
      BY <3>2, <3>3
  <2>8. QED
    BY <2>5, <2>6, <2>7
<1>2. CASE Control
  <2>1. UNCHANGED sent
    BY <1>2, ControlFrame
  <2>2. /\ main' \in {"prereqs", "workload"} => main \in {"prereqs", "workload"}
        /\ main' = "prereqs" => main = "prereqs" /\ i' = i
        /\ main' \in {"workload", "finalise", "ready"} \cup Collating =>
             \/ main \in {"workload", "finalise", "ready"} \cup Collating
             \/ main = "prereqs" /\ i > NumPrereqs
    BY <1>2 DEF Control, PrereqsSent, WorkloadEnds, FinaliseSent, BrokenPipe,
       StartExecute, CollateEnds, Join, StartsSent, StartRaises, ApplyFault,
       FaultRaises, SleepEnds, RecvEOF, mainVars, Collating
  <2>3. FinaliseAfterLoads'
    BY <2>1 DEF FinaliseAfterLoads
  <2>4. NotYetFinalised'
    BY <2>1, <2>2 DEF NotYetFinalised, InSent
  <2>5. PrereqsOut'
    <3>1. \A p \in Prereq : i > NumPrereqs => p < i
      BY <1>0, CountsAssumption DEF Prereq
    <3>2. \A d, x : InSent(d, x)' <=> InSent(d, x)
      BY <2>1 DEF InSent
    <3>3. QED
      BY <2>2, <3>1, <3>2 DEF PrereqsOut
  <2>6. QED
    BY <2>3, <2>4, <2>5
<1>3. CASE /\ UNCHANGED sent
           /\ \/ UNCHANGED <<main, i>>
              \/ main = "ready" /\ main' \in {"ready", "raised"}
  BY <1>3 DEF FinaliseAfterLoads, NotYetFinalised, PrereqsOut, InSent
<1>4. ASSUME NEW c \in Client, Reads(c)
      PROVE  /\ UNCHANGED sent
             /\ \/ UNCHANGED <<main, i>>
                \/ main = "ready" /\ main' \in {"ready", "raised"}
  BY <1>4 DEF Reads, RecvReady, RecvCollate, mainVars, pipeIn
<1>5. QED
  BY <1>1, <1>2, <1>3, <1>4, Kinds, ClientFrame DEF vars, mainVars, pipeIn

\* start is sent only by the execute thread.
LEMMA ExecuteLateStep ==
  ASSUME TypeInv, TypeInv', BarrierInv, [Next]_vars
  PROVE  ExecuteLate'
<1>0. \A d \in Client : Len(sent[d]) \in Nat /\ Len(sent'[d]) \in Nat
  BY SMTT(30) DEF TypeInv
<1> USE DEF BarrierInv
<1>1. CASE Writes
  <2> PICK c \in Client, m \in InMessage :
         /\ Len(sent'[c]) = Len(sent[c]) + 1
         /\ sent'[c][Len(sent[c]) + 1] = m
         /\ \A k \in 1..Len(sent[c]) : sent'[c][k] = sent[c][k]
         /\ \A d \in Client \ {c} : sent'[d] = sent[d]
         /\ m = Start => exec = "start"
         /\ UNCHANGED <<main, exec>>
    BY <1>1, WriteEffect, Words
  <2>1. ASSUME exec = "off", NEW d \in Client, InSent(d, Start)'
        PROVE  FALSE
    <3>1. PICK k \in 1..Len(sent'[d]) : sent'[d][k] = Start
      BY <2>1 DEF InSent
    <3>2. CASE d = c /\ k = Len(sent[c]) + 1
      BY <2>1, <3>1, <3>2
    <3>3. CASE ~(d = c /\ k = Len(sent[c]) + 1)
      <4>1. k \in 1..Len(sent[d]) /\ sent[d][k] = Start
        BY <1>0, <3>1, <3>3
      <4>2. QED
        BY <2>1, <4>1 DEF ExecuteLate, InSent
    <3>4. QED
      BY <3>2, <3>3
  <2>2. QED
    BY <2>1 DEF ExecuteLate
<1>2. CASE Control
  <2>1. UNCHANGED sent
    BY <1>2, ControlFrame
  <2>2. /\ main' \in Loading \cup {"ready"} =>
             main \in Loading \cup {"ready"} /\ exec' = exec
        /\ main' \in Collating => (main \in Collating \/ exec' = "start")
        /\ exec' = "off" <=> exec = "off" /\ main' \notin {"collate"}
    BY <1>2 DEF Control, PrereqsSent, WorkloadEnds, FinaliseSent, BrokenPipe,
       StartExecute, CollateEnds, Join, StartsSent, StartRaises, ApplyFault,
       FaultRaises, SleepEnds, RecvEOF, Over, ResultsWritten, mainVars, execVars, Loading,
       Collating, ExecuteLate
  <2>3. QED
    BY <2>1, <2>2 DEF ExecuteLate, InSent, Collating
<1>3. ASSUME NEW c \in Client, Reads(c) PROVE ExecuteLate'
  BY <1>3 DEF Reads, RecvReady, RecvCollate, mainVars, execVars, pipeIn,
     ExecuteLate, InSent, Loading, Collating
<1>4. CASE UNCHANGED <<main, exec, sent>>
  BY <1>4 DEF ExecuteLate, InSent
<1>5. QED
  BY <1>1, <1>2, <1>3, <1>4, Kinds, ClientFrame
  DEF vars, mainVars, execVars, pipeIn

\* A prerequisite is performed when it is heard.
LEMMA PreparedStep ==
  ASSUME TypeInv, TypeInv', BarrierInv, [Next]_vars
  PROVE  Prepared'
<1>0. \A d \in Client : /\ heard[d] \in Nat /\ Len(sent[d]) \in Nat
                        /\ heard[d] <= Len(sent[d])
  BY DEF TypeInv, BarrierInv, PipeOrder
<1> USE DEF BarrierInv
<1>1. CASE Writes
  <2>1. /\ UNCHANGED <<heard, prepared>>
        /\ \A d \in Client : \A k \in 1..heard[d] : sent'[d][k] = sent[d][k]
    BY <1>0, <1>1, WriteEffect DEF clientVars
  <2>2. QED
    BY <2>1 DEF Prepared
<1>2. ASSUME NEW c \in Client, NEW m, Heard(c, m), UNCHANGED sent,
             prepared \subseteq prepared',
             \A p \in Prereq : m = Preload(p) => p \in prepared'
      PROVE  Prepared'
  <2> SUFFICES ASSUME NEW d \in Client, NEW k \in 1..heard'[d],
                      NEW p \in Prereq, sent[d][k] = Preload(p)
               PROVE  p \in prepared'
    BY <1>2 DEF Prepared
  <2>1. CASE d = c /\ k = heard[c] + 1
    BY <1>2, <2>1, HearEffect
  <2>2. CASE ~(d = c /\ k = heard[c] + 1)
    <3>1. k \in 1..heard[d]
      BY <1>0, <1>2, <2>2, HearEffect
    <3>2. QED
      BY <1>2, <3>1 DEF Prepared
  <2>3. QED
    BY <2>1, <2>2
<1>3. ASSUME NEW c \in Client, NEW o \in Operation, ClientLoad(c, o)
      PROVE  Prepared'
  <2>1. \A p \in Prereq : Preload(o) = Preload(p) => p \in prepared'
    BY <1>3, Words DEF ClientLoad
  <2>2. QED
    BY <1>2, <1>3, <2>1 DEF ClientLoad
<1>4. ASSUME NEW c \in Client, ClientReady(c) PROVE Prepared'
  BY <1>2, <1>4, Words DEF ClientReady
<1>5. ASSUME NEW c \in Client, ClientStart(c) PROVE Prepared'
  BY <1>2, <1>5, Words DEF ClientStart
<1>6. CASE UNCHANGED <<sent, heard, prepared>>
  BY <1>6 DEF Prepared
<1>7. ASSUME NEW c \in Client, Reads(c) PROVE UNCHANGED <<sent, heard, prepared>>
  BY <1>7 DEF Reads, RecvReady, RecvCollate, pipeIn, clientVars
<1>8. QED
  BY <1>1, <1>3, <1>4, <1>5, <1>6, <1>7, Kinds, ControlFrame
  DEF vars, pipeIn, clientVars, ClientSteps, ClientRuns, ClientReply,
      ClientFinish, ClientExit, ClientDies

\* A client keeps to its part of the conversation.
LEMMA SaysReadyStep ==
  ASSUME TypeInv, TypeInv', BarrierInv, [Next]_vars
  PROVE  SaysReady'
<1>0. /\ \A d \in Client : /\ heard[d] \in Nat /\ Len(sent[d]) \in Nat
                           /\ Len(said[d]) \in Nat /\ heard[d] <= Len(sent[d])
      /\ phase \in [Client -> {"preload", "ready", "running", "finished",
                               "exited", "failed"}]
  BY SMTT(30) DEF TypeInv, BarrierInv, PipeOrder
<1> USE DEF BarrierInv
<1>1. CASE Writes
  <2>1. /\ UNCHANGED <<heard, said, phase, exec>>
        /\ \A d \in Client : \A k \in 1..heard[d] : sent'[d][k] = sent[d][k]
    BY <1>0, <1>1, WriteEffect DEF clientVars, pipeOut
  <2>2. QED
    BY <2>1 DEF SaysReady, ReadyFirst
<1>2. ASSUME UNCHANGED <<said, sent, heard, phase>>,
             exec' = "off" => exec = "off"
      PROVE  SaysReady'
  BY <1>2 DEF SaysReady, ReadyFirst
<1>3. CASE Control
  <2>1. exec' = "off" => exec = "off"
    BY <1>3 DEF Control, PrereqsSent, WorkloadEnds, FinaliseSent, BrokenPipe,
       StartExecute, CollateEnds, Join, StartsSent, StartRaises, ApplyFault,
       FaultRaises, SleepEnds, RecvEOF, execVars
  <2>2. QED
    BY <1>2, <1>3, <2>1, ControlFrame
<1>4. ASSUME NEW c \in Client, Reads(c) PROVE SaysReady'
  BY <1>2, <1>4 DEF Reads, RecvReady, RecvCollate, pipeIn, clientVars, execVars
<1>5. ASSUME NEW c \in Client, NEW o \in Operation, ClientLoad(c, o)
      PROVE  SaysReady'
  <2>1. UNCHANGED <<exec, sent, said, phase>> /\ Heard(c, Preload(o))
    BY <1>5 DEF ClientLoad, execVars, pipeOut
  <2>2. \A d \in Client : \A k \in 1..heard[d] : k \in 1..heard'[d]
    BY <1>0, <2>1, HearEffect
  <2>3. QED
    BY <2>1, <2>2 DEF SaysReady, ReadyFirst
<1>6. ASSUME NEW c \in Client, ClientReady(c) PROVE SaysReady'
  <2>1. /\ phase[c] = "preload" /\ Heard(c, Finalise) /\ Say(c, Ready)
        /\ phase' = [phase EXCEPT ![c] = "ready"]
        /\ UNCHANGED <<exec, sent>>
    BY <1>6 DEF ClientReady, execVars
  <2>2. Len(said[c]) = 0
    BY <2>1 DEF SaysReady, ReadyFirst
  <2>3. /\ Len(said'[c]) = 1 /\ said'[c][1] = Ready
        /\ \A d \in Client \ {c} : said'[d] = said[d]
    <3>1. Ready \in OutMessage
      BY Written
    <3>2. /\ Len(said'[c]) = Len(said[c]) + 1
          /\ said'[c][Len(said[c]) + 1] = Ready
          /\ \A d \in Client \ {c} : said'[d] = said[d]
      BY <2>1, <3>1, SayEffect
    <3>3. QED
      BY <2>2, <3>2
  <2>4. /\ heard'[c] \in 1..heard'[c] /\ sent[c][heard'[c]] = Finalise
        /\ \A d \in Client \ {c} : heard'[d] = heard[d]
    BY <2>1, HearEffect
  <2>5. ASSUME NEW d \in Client \ {c}
        PROVE  phase'[d] = phase[d] /\ said'[d] = said[d] /\ heard'[d] = heard[d]
    BY <1>0, <2>1, <2>3, <2>4
  <2>6. phase'[c] = "ready"
    BY <1>0, <2>1
  <2>7. ReadyFirst(c)'
    BY <2>1, <2>3, <2>4, <2>6 DEF ReadyFirst
  <2>8. \A d \in Client \ {c} : ReadyFirst(d)'
    BY <2>1, <2>5 DEF SaysReady, ReadyFirst
  <2>9. QED
    BY <2>7, <2>8 DEF SaysReady
<1>7. ASSUME NEW c \in Client, ClientStart(c) PROVE SaysReady'
  <2>1. /\ phase[c] = "ready" /\ Heard(c, Start)
        /\ phase' = [phase EXCEPT ![c] = "running"]
        /\ UNCHANGED <<exec, sent, said>>
    BY <1>7 DEF ClientStart, execVars, pipeOut
  <2>2. exec # "off"
    <3>1. InSent(c, Start)
      BY <1>0, <2>1, HearEffect DEF InSent
    <3>2. QED
      BY <3>1 DEF ExecuteLate
  <2>3. \A d \in Client : \A k \in 1..heard[d] : k \in 1..heard'[d]
    BY <1>0, <2>1, HearEffect
  <2>4. QED
    BY <1>0, <2>1, <2>2, <2>3 DEF SaysReady, ReadyFirst
<1>8. ASSUME NEW c \in Client, NEW m \in OutMessage, Say(c, m),
             phase[c] = "running", phase'[c] # "preload",
             \A d \in Client \ {c} : phase'[d] = phase[d],
             UNCHANGED <<exec, sent, heard>>
      PROVE  SaysReady'
  <2>1. exec # "off" /\ Len(said[c]) > 0
    BY <1>8 DEF SaysReady, ReadyFirst
  <2>2. /\ Len(said'[c]) > 0 /\ said'[c][1] = said[c][1]
        /\ \A d \in Client \ {c} : said'[d] = said[d]
    BY <1>8, <2>1, SayEffect
  <2>3. QED
    BY <1>8, <2>1, <2>2 DEF SaysReady, ReadyFirst
<1>9. ASSUME NEW c \in Client, NEW o \in Operation, ClientReply(c, o)
      PROVE  SaysReady'
  BY <1>8, <1>9, Written DEF ClientReply, execVars, pipeIn
<1>10. ASSUME NEW c \in Client, ClientFinish(c) PROVE SaysReady'
  BY <1>0, <1>8, <1>10, Written DEF ClientFinish, execVars, pipeIn
<1>11. ASSUME NEW c \in Client, ClientExit(c) PROVE SaysReady'
  BY <1>0, <1>11 DEF ClientExit, execVars, pipeIn, pipeOut, SaysReady,
     ReadyFirst
<1>12. ASSUME NEW c \in Client, ClientDies(c) PROVE SaysReady'
  BY <1>0, <1>12 DEF ClientDies, execVars, pipeIn, pipeOut, SaysReady,
     ReadyFirst
<1>13. CASE UNCHANGED vars
  BY <1>2, <1>13 DEF vars, execVars, pipeIn, pipeOut, clientVars
<1>14. QED
  BY <1>1, <1>3, <1>4, <1>5, <1>6, <1>7, <1>9, <1>10, <1>11, <1>12, <1>13,
     Kinds
  DEF ClientSteps, ClientRuns

\* ready takes one message from every client, although it does not ask whose
\* message it takes.
LEMMA ReadyCountStep ==
  ASSUME TypeInv, TypeInv', BarrierInv, [Next]_vars
  PROVE  ReadyCount'
<1>0. /\ \A d \in Client : consumed[d] \in Nat /\ Len(said[d]) \in Nat
      /\ i \in Nat \ {0}
  BY DEF TypeInv
<1> USE DEF BarrierInv
<1>1. /\ IsFiniteSet(Counted) /\ Cardinality(Counted) \in Nat
      /\ Cardinality(Counted) = NumClients => Counted = Client
      /\ Cardinality(Counted) <= NumClients
  <2>1. Counted \in SUBSET Client
    BY DEF Counted
  <2>2. QED
    BY <2>1, Clients, FS_Subset, FS_CardinalityType
<1>2. ASSUME UNCHANGED <<main, i, exec, consumed>> PROVE ReadyCount'
  BY <1>2 DEF ReadyCount, Counted
<1>3. CASE Writes
  <2>1. UNCHANGED <<main, exec, consumed>> /\ (main = "ready" => i' = i)
    BY <1>3, WriteEffect DEF pipeOut
  <2>2. QED
    BY <2>1 DEF ReadyCount, Counted
<1>4. CASE Control
  <2>1. Counted' = Counted
    BY <1>4, ControlFrame DEF Counted
  <2>2. /\ main' \in Loading => main \in Loading
        /\ main' = "ready" => \/ main = "ready" /\ i' = i
                              \/ main \in Loading /\ i' = 1
        /\ exec' # "off" => exec # "off" \/ (main = "ready" /\ i > NumClients)
    BY <1>4 DEF Control, PrereqsSent, WorkloadEnds, FinaliseSent, BrokenPipe,
       StartExecute, CollateEnds, Join, StartsSent, StartRaises, ApplyFault,
       FaultRaises, SleepEnds, RecvEOF, mainVars, execVars, Loading
  <2>3. main = "ready" /\ i > NumClients => Counted = Client
    BY <1>1, CountsAssumption DEF ReadyCount
  <2>4. main \in Loading /\ i' = 1 => i' = Cardinality(Counted) + 1
    BY FS_EmptySet DEF ReadyCount
  <2>5. QED
    BY <2>1, <2>2, <2>3, <2>4 DEF ReadyCount
<1>5. ASSUME NEW c \in Client, RecvReady(c) PROVE ReadyCount'
  <2>0. Reads(c)
    BY <1>5 DEF Reads
  <2>1. main = "ready" /\ exec = "off" /\ exec' = "off"
    BY <1>5 DEF RecvReady, ExecuteLate, execVars
  <2>2. consumed[c] = 0 /\ consumed'[c] = 1 /\ said[c][1] = Ready
    BY <1>0, <2>0, <2>1, ReadEffect DEF SaysReady, ReadyFirst
  <2>3. main' = "ready" /\ i' = i + 1
    BY <1>5, <2>1, <2>2 DEF RecvReady, NextMessage
  <2>4. Counted' = Counted \cup {c} /\ c \notin Counted
    BY <1>0, <2>0, <2>2, ReadEffect DEF Counted
  <2>5. Cardinality(Counted') = Cardinality(Counted) + 1
    BY <1>1, <2>4, FS_AddElement
  <2>6. i' = Cardinality(Counted') + 1
    BY <1>0, <1>1, <2>1, <2>3, <2>5 DEF ReadyCount
  <2>7. QED
    BY <2>1, <2>3, <2>6 DEF ReadyCount, Loading
<1>6. ASSUME NEW c \in Client, RecvCollate(c) PROVE ReadyCount'
  <2>0. Reads(c) /\ main = "collate" /\ main' = "collate" /\ exec' = exec
    BY <1>6 DEF Reads, RecvCollate, mainVars, execVars
  <2>1. Counted = Client
    BY <2>0 DEF ReadyCount, ExecuteLate, Collating
  <2>2. Counted' = Client
    BY <1>0, <2>0, <2>1, ReadEffect DEF Counted
  <2>3. QED
    BY <2>0, <2>2 DEF ReadyCount, Loading
<1>7. QED
  BY <1>2, <1>3, <1>4, <1>5, <1>6, Kinds, ClientFrame
  DEF Reads, vars, mainVars, execVars, pipeOut

\* The barrier's invariant is inductive.
LEMMA BarrierStep ==
  ASSUME TypeInv, TypeInv', BarrierInv, [Next]_vars
  PROVE  BarrierInv'
BY PipeOrderStep, ScriptStep, ExecuteLateStep, PreparedStep, SaysReadyStep,
   ReadyCountStep
DEF BarrierInv

\* When start has been sent, every client has heard finalise, so it has heard
\* all its prerequisites, and together these are all there are.
LEMMA BarrierHolds ==
  ASSUME TypeInv, BarrierInv
  PROVE  StartBarrier
<1> USE DEF BarrierInv
<1> SUFFICES ASSUME NEW c \in Client, phase[c] \in {"running", "finished"},
                    NEW p \in Prereq
             PROVE  p \in prepared
  BY DEF StartBarrier, TypeInv
<1>1. exec # "off"
  BY DEF SaysReady, ReadyFirst
<1> DEFINE d == PrereqClient(p)
<1>2. d \in Client /\ p \in Operation
  BY CountsAssumption, Clients DEF Prereq, Operation
<1>3. Len(said[d]) > 0
  <2>1. consumed[d] > 0
    BY <1>1, <1>2 DEF ReadyCount, Counted
  <2>2. QED
    BY <1>2, <2>1 DEF TypeInv, PipeOrder
<1>4. PICK k \in 1..heard[d] : sent[d][k] = Finalise
  BY <1>2, <1>3 DEF SaysReady, ReadyFirst
<1>5. k \in 1..Len(sent[d]) /\ heard[d] \in Nat
  BY <1>2 DEF PipeOrder, TypeInv
<1>6. PICK j \in 1..Len(sent[d]) : sent[d][j] = Preload(p)
  <2>1. InSent(d, Finalise)
    BY <1>4, <1>5 DEF InSent
  <2>2. InSent(d, Preload(p))
    BY <1>2, <2>1 DEF PrereqsOut
  <2>3. QED
    BY <2>2 DEF InSent
<1>7. j < k
  BY <1>2, <1>4, <1>5, <1>6 DEF FinaliseAfterLoads
<1>8. j \in 1..heard[d]
  BY <1>5, <1>7
<1>9. QED
  BY <1>2, <1>6, <1>8 DEF Prepared

-----------------------------------------------------------------------------
(* collate.                                                                *)

\* No message, no result.
LEMMA ResultsOfNone ==
  ASSUME NEW s
  PROVE  ResultsOf(<<>>, s, 0)
<1> DEFINE at == [j \in 1..Len(<<>>) |-> j]
<1>1. 1..Len(<<>>) = {} /\ 1..0 = {}
  OBVIOUS
<1>2. at \in [1..Len(<<>>) -> 1..0]
  BY <1>1
<1>3. QED
  BY <1>1, <1>2 DEF ResultsOf

\* A message that is no result adds none.
LEMMA ResultsOfOther ==
  ASSUME NEW r, NEW s, NEW n \in Nat, ResultsOf(r, s, n), ~IsResult(s[n + 1])
  PROVE  ResultsOf(r, s, n + 1)
<1>1. PICK at \in [1..Len(r) -> 1..n] :
        /\ \A j, k \in 1..Len(r) : j < k => at[j] < at[k]
        /\ \A j \in 1..Len(r) : r[j] = s[at[j]]
        /\ \A k \in 1..n : IsResult(s[k]) <=> \E j \in 1..Len(r) : at[j] = k
  BY DEF ResultsOf
<1>2. at \in [1..Len(r) -> 1..(n + 1)]
  BY <1>1
<1>3. \A j \in 1..Len(r) : at[j] # n + 1
  BY <1>1
<1>4. ASSUME NEW k \in 1..(n + 1)
      PROVE  IsResult(s[k]) <=> \E j \in 1..Len(r) : at[j] = k
  <2>1. CASE k = n + 1
    BY <1>3, <2>1
  <2>2. CASE k # n + 1
    BY <1>1, <2>2
  <2>3. QED
    BY <2>1, <2>2
<1>5. QED
  BY <1>1, <1>2, <1>4 DEF ResultsOf

\* A result that is kept is the last of them.
LEMMA ResultsOfResult ==
  ASSUME NEW r \in Seq(OutMessage), NEW s, NEW n \in Nat, ResultsOf(r, s, n),
         IsResult(s[n + 1]), s[n + 1] \in OutMessage
  PROVE  ResultsOf(Append(r, s[n + 1]), s, n + 1)
<1>1. PICK at \in [1..Len(r) -> 1..n] :
        /\ \A j, k \in 1..Len(r) : j < k => at[j] < at[k]
        /\ \A j \in 1..Len(r) : r[j] = s[at[j]]
        /\ \A k \in 1..n : IsResult(s[k]) <=> \E j \in 1..Len(r) : at[j] = k
  BY DEF ResultsOf
<1> DEFINE q == Append(r, s[n + 1])
           L == Len(r) + 1
           to == [j \in 1..L |-> IF j = L THEN n + 1 ELSE at[j]]
<1>2. /\ Len(r) \in Nat /\ Len(q) = L
      /\ \A j \in 1..Len(r) : q[j] = r[j]
      /\ q[L] = s[n + 1]
  OBVIOUS
<1>3. /\ to[L] = n + 1 /\ L \in 1..L
      /\ \A j \in 1..Len(r) : j \in 1..L /\ to[j] = at[j] /\ at[j] \in 1..n
      /\ \A j \in 1..L : j = L \/ j \in 1..Len(r)
  BY <1>1, <1>2
<1> HIDE DEF to, q
<1>4. to \in [1..L -> 1..(n + 1)]
  BY <1>1, <1>2 DEF to
<1>5. \A j, k \in 1..L : j < k => to[j] < to[k]
  BY <1>1, <1>2, <1>3
<1>6. \A j \in 1..L : q[j] = s[to[j]]
  BY <1>1, <1>2, <1>3
<1>7. ASSUME NEW k \in 1..(n + 1)
      PROVE  IsResult(s[k]) <=> \E j \in 1..L : to[j] = k
  <2>1. CASE k = n + 1
    BY <1>3, <2>1
  <2>2. CASE k # n + 1
    <3>1. k \in 1..n
      BY <2>2
    <3>2. IsResult(s[k]) <=> \E j \in 1..Len(r) : at[j] = k
      BY <1>1, <3>1
    <3>3. (\E j \in 1..Len(r) : at[j] = k) <=> \E j \in 1..L : to[j] = k
      BY <1>3, <2>2
    <3>4. QED
      BY <3>2, <3>3
  <2>3. QED
    BY <2>1, <2>2
<1>8. ResultsOf(q, s, n + 1)
  <2>1. Len(q) = L
    BY <1>2
  <2> HIDE DEF L
  <2>2. QED
    BY <1>4, <1>5, <1>6, <1>7, <2>1 DEF ResultsOf
<1>9. QED
  BY <1>8 DEF q

\* Only the messages taken matter.
LEMMA ResultsOfPrefix ==
  ASSUME NEW r, NEW s, NEW t, NEW n \in Nat, ResultsOf(r, s, n),
         \A k \in 1..n : t[k] = s[k]
  PROVE  ResultsOf(r, t, n)
<1>1. PICK at \in [1..Len(r) -> 1..n] :
        /\ \A j, k \in 1..Len(r) : j < k => at[j] < at[k]
        /\ \A j \in 1..Len(r) : r[j] = s[at[j]]
        /\ \A k \in 1..n : IsResult(s[k]) <=> \E j \in 1..Len(r) : at[j] = k
  BY DEF ResultsOf
<1>2. \A j \in 1..Len(r) : r[j] = t[at[j]]
  BY <1>1
<1>3. QED
  BY <1>1, <1>2 DEF ResultsOf

\* Before the run nothing has been collected.
LEMMA CollateInit == Init => CollateInv
<1> SUFFICES ASSUME Init PROVE CollateInv
  OBVIOUS
<1>1. FinishedLast
  BY DEF Init, FinishedLast, LastWord
<1>2. Registration /\ RaisesOnlyAfterDeath
  BY DEF Init, Registration, Collating, RaisesOnlyAfterDeath
<1>3. Collated
  BY ResultsOfNone DEF Init, Collated
<1>4. QED
  BY <1>1, <1>2, <1>3 DEF CollateInv

\* A client says nothing after finished.
LEMMA FinishedLastStep ==
  ASSUME TypeInv, TypeInv', BarrierInv, FinishedLast, [Next]_vars
  PROVE  FinishedLast'
<1>0. /\ \A d \in Client : Len(said[d]) \in Nat
      /\ phase \in [Client -> {"preload", "ready", "running", "finished",
                               "exited", "failed"}]
  BY DEF TypeInv
<1>1. ASSUME UNCHANGED <<said, phase>> PROVE FinishedLast'
  BY <1>1 DEF FinishedLast, LastWord
<1>2. ASSUME NEW c \in Client, ClientRuns(c) \/ ClientDies(c),
             LastWord(c)'
      PROVE  FinishedLast'
  <2>1. \A d \in Client \ {c} : said'[d] = said[d] /\ phase'[d] = phase[d]
    BY <1>0, <1>2, SayEffect, Written DEF ClientRuns, ClientLoad, ClientReply,
       ClientReady, ClientStart, ClientFinish, ClientExit, ClientDies, pipeOut
  <2>2. QED
    BY <1>2, <2>1 DEF FinishedLast, LastWord
<1>3. ASSUME NEW c \in Client, NEW m \in OutMessage, Say(c, m),
             phase[c] \in {"preload", "running"},
             \/ m # Finished /\ phase'[c] \in {"ready", "running"}
             \/ m = Finished /\ phase'[c] = "finished"
      PROVE  LastWord(c)'
  <2>1. \A k \in 1..Len(said[c]) : said[c][k] # Finished
    BY <1>3 DEF FinishedLast, LastWord
  <2>2. /\ Len(said'[c]) = Len(said[c]) + 1
        /\ said'[c][Len(said[c]) + 1] = m
        /\ \A k \in 1..Len(said[c]) : said'[c][k] = said[c][k]
    BY <1>3, SayEffect
  <2>3. \A k \in 1..Len(said'[c]) :
          said'[c][k] = Finished => k = Len(said'[c]) /\ m = Finished
    BY <1>0, <2>1, <2>2
  <2>4. QED
    BY <1>0, <1>3, <2>2, <2>3 DEF LastWord
<1>4. ASSUME NEW c \in Client, ClientReady(c) PROVE LastWord(c)'
  BY <1>0, <1>3, <1>4, Words, Written DEF ClientReady
<1>5. ASSUME NEW c \in Client, NEW o \in Operation, ClientReply(c, o)
      PROVE  LastWord(c)'
  BY <1>0, <1>3, <1>5, Words, Written DEF ClientReply
<1>6. ASSUME NEW c \in Client, ClientFinish(c) PROVE LastWord(c)'
  BY <1>0, <1>3, <1>6, Words, Written DEF ClientFinish
<1>7. ASSUME NEW c \in Client,
             ClientStart(c) \/ ClientExit(c) \/ ClientDies(c)
      PROVE  LastWord(c)'
  BY <1>0, <1>7 DEF ClientStart, ClientExit, ClientDies, pipeOut, FinishedLast,
     LastWord
<1>8. ASSUME NEW c \in Client, NEW o \in Operation, ClientLoad(c, o)
      PROVE  UNCHANGED <<said, phase>>
  BY <1>8 DEF ClientLoad, pipeOut
<1>9. ASSUME NEW c \in Client, Reads(c) PROVE UNCHANGED <<said, phase>>
  BY <1>9 DEF Reads, RecvReady, RecvCollate, clientVars
<1>10. CASE Writes
  BY <1>1, <1>10, WriteEffect DEF pipeOut, clientVars
<1>11. QED
  BY <1>1, <1>2, <1>4, <1>5, <1>6, <1>7, <1>8, <1>9, <1>10, Kinds,
     ControlFrame
  DEF ClientSteps, ClientRuns, vars, pipeOut, clientVars

\* collate counts a client off when it takes its finished, and only then.
LEMMA RegistrationStep ==
  ASSUME TypeInv, TypeInv', BarrierInv, FinishedLast, Registration,
         [Next]_vars
  PROVE  Registration'
<1>0. /\ \A d \in Client : /\ Len(said[d]) \in Nat /\ consumed[d] \in Nat
                           /\ consumed[d] <= Len(said[d])
      /\ phase \in [Client -> {"preload", "ready", "running", "finished",
                               "exited", "failed"}]
      /\ registered \in SUBSET Client /\ IsFiniteSet(registered)
      /\ remaining \in Nat
  <2>1. registered \in SUBSET Client
    BY DEF TypeInv
  <2>2. IsFiniteSet(registered)
    BY <2>1, Clients, FS_Subset
  <2>3. QED
    BY <2>1, <2>2, SMTT(30) DEF TypeInv, BarrierInv, PipeOrder
<1>1. ASSUME UNCHANGED <<main, registered, remaining, said, consumed, phase>>
      PROVE  Registration'
  BY <1>1 DEF Registration
<1>2. CASE Writes
  BY <1>1, <1>2, WriteEffect DEF collateVars, pipeOut, clientVars
<1>3. CASE StartExecute
  <2>1. /\ main = "ready" /\ main' = "collate" /\ registered' = Client
        /\ UNCHANGED <<remaining, said, consumed, phase>>
    BY <1>3 DEF StartExecute, pipeOut, clientVars
  <2>2. exec = "off"
    BY <2>1 DEF BarrierInv, ExecuteLate
  <2>3. \A d \in Client : phase[d] \notin {"finished", "exited"}
    BY <2>2 DEF BarrierInv, SaysReady, ReadyFirst
  <2>4. remaining = Cardinality(Client)
    BY <2>1, Clients DEF Registration
  <2>5. QED
    BY <2>1, <2>3, <2>4 DEF Registration, Loading
<1>4. CASE Control /\ ~StartExecute
  <2>1. /\ UNCHANGED <<registered, remaining>>
        /\ main' \in Loading \cup {"ready"} => main \in Loading \cup {"ready"}
        /\ main' \in Collating => main \in Collating
        /\ main' \in {"join", "done", "uncollected"} =>
             main \in {"join", "done", "uncollected"} \/ remaining = 0
    BY <1>4 DEF Control, PrereqsSent, WorkloadEnds, FinaliseSent, BrokenPipe,
       CollateEnds, Join, StartsSent, StartRaises, ApplyFault, FaultRaises,
       SleepEnds, RecvEOF, mainVars, collateVars, Loading, Collating
  <2>2. UNCHANGED <<said, consumed, phase>>
    BY <1>4, ControlFrame
  <2>3. QED
    BY <2>1, <2>2 DEF Registration
<1>5. ASSUME NEW c \in Client, RecvReady(c) PROVE Registration'
  BY <1>5 DEF RecvReady, collateVars, Registration, Loading, Collating
<1>6. ASSUME NEW c \in Client, RecvCollate(c) PROVE Registration'
  <2>0. /\ Reads(c) /\ main = "collate" /\ main' = "collate"
        /\ c \in registered
        /\ UNCHANGED <<said, phase>>
    BY <1>6 DEF Reads, RecvCollate, mainVars, clientVars
  <2>1. /\ consumed[c] < Len(said[c]) /\ consumed'[c] = consumed[c] + 1
        /\ \A d \in Client \ {c} : consumed'[d] = consumed[d]
    BY <2>0, ReadEffect DEF BarrierInv
  <2>2. /\ remaining = Cardinality(registered)
        /\ \A d \in Client \ registered :
             phase[d] \in {"finished", "exited"} /\ consumed[d] = Len(said[d])
        /\ \A d \in registered :
             phase[d] \in {"finished", "exited"} => consumed[d] < Len(said[d])
    BY <2>0 DEF Registration, Collating
  <2>3. CASE NextMessage(c) = Finished
    <3>1. registered' = registered \ {c} /\ remaining' = remaining - 1
      BY <1>6, <2>3 DEF RecvCollate, Unregister
    <3>2. said[c][consumed[c] + 1] = Finished /\ consumed[c] + 1 \in 1..Len(said[c])
      BY <1>0, <2>1, <2>3 DEF NextMessage
    <3>3. consumed'[c] = Len(said[c]) /\ phase[c] \in {"finished", "exited"}
      BY <2>1, <3>2 DEF FinishedLast, LastWord
    <3>4. remaining' = Cardinality(registered')
      BY <1>0, <2>0, <2>2, <3>1, FS_RemoveElement
    <3>5. /\ \A d \in Client \ registered' :
               phase[d] \in {"finished", "exited"} /\ consumed'[d] = Len(said[d])
          /\ \A d \in registered' :
               phase[d] \in {"finished", "exited"} => consumed'[d] < Len(said[d])
      BY <1>0, <2>1, <2>2, <3>1, <3>3
    <3>6. QED
      BY <2>0, <3>4, <3>5 DEF Registration, Loading
  <2>4. CASE NextMessage(c) # Finished
    <3>1. registered' = registered /\ remaining' = remaining
      BY <1>6, <2>4 DEF RecvCollate, Unregister
    <3>2. ASSUME phase[c] \in {"finished", "exited"}
          PROVE  consumed'[c] < Len(said[c])
      <4>1. said[c][Len(said[c])] = Finished
        BY <3>2 DEF FinishedLast, LastWord
      <4>2. consumed[c] + 1 # Len(said[c])
        BY <2>4, <4>1 DEF NextMessage
      <4>3. QED
        BY <1>0, <2>1, <4>2
    <3>3. /\ \A d \in Client \ registered' :
               phase[d] \in {"finished", "exited"} /\ consumed'[d] = Len(said[d])
          /\ \A d \in registered' :
               phase[d] \in {"finished", "exited"} => consumed'[d] < Len(said[d])
      BY <1>0, <2>0, <2>1, <2>2, <3>1, <3>2
    <3>4. QED
      BY <2>0, <2>2, <3>1, <3>3 DEF Registration, Loading
  <2>5. QED
    BY <2>3, <2>4
<1>7. ASSUME NEW c \in Client, ClientSteps(c) PROVE Registration'
  <2>1. UNCHANGED <<main, registered, remaining, consumed>>
    BY <1>7, ClientFrame
  <2>2. \A d \in Client :
          /\ phase[d] \in {"finished", "exited"} =>
               phase'[d] \in {"finished", "exited"} /\ said'[d] = said[d]
          /\ phase'[d] \in {"finished", "exited"} =>
               \/ phase[d] \in {"finished", "exited"}
               \/ consumed[d] < Len(said'[d])
    <3>1. CASE UNCHANGED phase /\ UNCHANGED said
      BY <3>1
    <3>2. ASSUME phase[c] \in {"preload", "ready", "running"},
                 phase'[c] \in {"ready", "running", "failed"},
                 \A d \in Client \ {c} : phase'[d] = phase[d] /\ said'[d] = said[d]
          PROVE  \A d \in Client :
                   /\ phase[d] \in {"finished", "exited"} =>
                        /\ phase'[d] \in {"finished", "exited"}
                        /\ said'[d] = said[d]
                   /\ phase'[d] \in {"finished", "exited"} =>
                        phase[d] \in {"finished", "exited"}
      BY <3>2
    <3>3. CASE ClientFinish(c)
      BY <1>0, <3>3, SayEffect, Written DEF ClientFinish
    <3>4. CASE ClientExit(c)
      BY <1>0, <3>4 DEF ClientExit, pipeOut
    <3>5. CASE \E o \in Operation : ClientLoad(c, o)
      BY <3>1, <3>5 DEF ClientLoad, pipeOut
    <3>6. CASE \E o \in Operation : ClientReply(c, o)
      BY <1>0, <3>2, <3>6, SayEffect, Written DEF ClientReply
    <3>7. CASE ClientReady(c)
      BY <1>0, <3>2, <3>7, SayEffect, Written DEF ClientReady
    <3>8. CASE ClientStart(c) \/ ClientDies(c)
      BY <1>0, <3>2, <3>8 DEF ClientStart, ClientDies, pipeOut
    <3>9. QED
      BY <1>7, <3>3, <3>4, <3>5, <3>6, <3>7, <3>8 DEF ClientSteps, ClientRuns
  <2>3. QED
    BY <1>0, <2>1, <2>2 DEF Registration
<1>8. QED
  BY <1>1, <1>2, <1>3, <1>4, <1>5, <1>6, <1>7, Kinds
  DEF Reads, vars, mainVars, collateVars, pipeOut, clientVars

\* Every message taken is looked at once, and kept if it is a result.
LEMMA CollatedStep ==
  ASSUME TypeInv, TypeInv', BarrierInv, Collated, [Next]_vars
  PROVE  Collated'
<1>0. /\ \A d \in Client : /\ Len(said[d]) \in Nat /\ consumed[d] \in Nat
                           /\ consumed[d] <= Len(said[d])
                           /\ resps[d] \in Seq(OutMessage)
      /\ said \in [Client -> Seq(OutMessage)]
      /\ resps \in [Client -> Seq(OutMessage)]
  BY SMTT(30) DEF TypeInv, BarrierInv, PipeOrder
<1>1. ASSUME UNCHANGED <<resps, said, consumed>> PROVE Collated'
  BY <1>1 DEF Collated
<1>2. CASE Writes
  BY <1>1, <1>2, WriteEffect DEF collateVars, pipeOut
<1>3. ASSUME NEW c \in Client, RecvReady(c) PROVE Collated'
  <2>0. Reads(c) /\ main = "ready" /\ UNCHANGED <<resps, said>>
    BY <1>3 DEF Reads, RecvReady, collateVars
  <2>1. exec = "off" /\ Len(said[c]) <= 1
    BY <2>0 DEF BarrierInv, ExecuteLate, SaysReady, ReadyFirst
  <2>2. /\ consumed[c] < Len(said[c]) /\ consumed'[c] = consumed[c] + 1
        /\ \A d \in Client \ {c} : consumed'[d] = consumed[d]
    BY <2>0, ReadEffect DEF BarrierInv
  <2>3. consumed[c] = 0 /\ said[c][1] = Ready
    BY <1>0, <2>1, <2>2 DEF BarrierInv, SaysReady, ReadyFirst
  <2>4. ResultsOf(resps[c], said[c], consumed[c] + 1)
    BY <1>0, <2>3, Words, ResultsOfOther DEF Collated
  <2>5. QED
    BY <2>0, <2>2, <2>4 DEF Collated
<1>4. ASSUME NEW c \in Client, RecvCollate(c) PROVE Collated'
  <2>0. Reads(c) /\ UNCHANGED said
    BY <1>4 DEF Reads, RecvCollate
  <2>1. /\ consumed[c] < Len(said[c]) /\ consumed'[c] = consumed[c] + 1
        /\ \A d \in Client \ {c} : consumed'[d] = consumed[d]
    BY <2>0, ReadEffect DEF BarrierInv
  <2> DEFINE m == said[c][consumed[c] + 1]
  <2>2. m \in OutMessage
    BY <1>0, <2>1, SMTT(30)
  <2>3. resps' = IF IsResult(m) THEN [resps EXCEPT ![c] = Append(@, m)]
                                ELSE resps
    BY <1>4 DEF RecvCollate, NextMessage
  <2>4. ResultsOf(resps[c], said[c], consumed[c])
    BY DEF Collated
  <2>5. ResultsOf(resps'[c], said[c], consumed[c] + 1)
    <3>1. CASE IsResult(m)
      <4>1. resps'[c] = Append(resps[c], m)
        BY <1>0, <2>3, <3>1
      <4>2. QED
        BY <1>0, <2>2, <2>4, <3>1, <4>1, ResultsOfResult
    <3>2. CASE ~IsResult(m)
      BY <1>0, <2>3, <2>4, <3>2, ResultsOfOther
    <3>3. QED
      BY <3>1, <3>2
  <2>6. \A d \in Client \ {c} : resps'[d] = resps[d]
    BY <1>0, <2>3
  <2>7. QED
    BY <2>0, <2>1, <2>5, <2>6 DEF Collated
<1>5. ASSUME NEW c \in Client, ClientSteps(c) PROVE Collated'
  <2>1. UNCHANGED <<resps, consumed>>
    BY <1>5, ClientFrame
  <2>2. UNCHANGED said \/ \E m \in OutMessage : Say(c, m)
    BY <1>5, Written DEF ClientSteps, ClientRuns, ClientLoad, ClientReply,
       ClientReady, ClientStart, ClientFinish, ClientExit, ClientDies, pipeOut
  <2>3. \A d \in Client : \A k \in 1..consumed[d] : said'[d][k] = said[d][k]
    BY <1>0, <2>2, SayEffect
  <2>4. ASSUME NEW d \in Client
        PROVE  ResultsOf(resps[d], said'[d], consumed[d])
    BY <1>0, <2>3, ResultsOfPrefix DEF Collated
  <2>5. QED
    BY <2>1, <2>4 DEF Collated
<1>6. QED
  BY <1>1, <1>2, <1>3, <1>4, <1>5, Kinds, ControlFrame
  DEF Reads, vars, collateVars, pipeOut

\* An exception is raised only where a client has died.
LEMMA RaiseStep ==
  ASSUME TypeInv, BarrierInv, FinishedLast, Registration,
         RaisesOnlyAfterDeath, [Next]_vars
  PROVE  RaisesOnlyAfterDeath'
<1>0. /\ \A d \in Client : /\ Len(said[d]) \in Nat /\ consumed[d] \in Nat
                           /\ slurped[d] \in Nat
                           /\ consumed[d] <= slurped[d]
                           /\ slurped[d] <= Len(said[d])
      /\ phase \in [Client -> {"preload", "ready", "running", "finished",
                               "exited", "failed"}]
      /\ i \in Nat \ {0}
  BY DEF TypeInv, BarrierInv, PipeOrder
<1>1. ASSUME main' = "raised" => main = "raised",
             \A d \in Client : phase[d] = "failed" => phase'[d] = "failed"
      PROVE  RaisesOnlyAfterDeath'
  BY <1>1 DEF RaisesOnlyAfterDeath
<1>2. ASSUME NEW c \in Client, phase[c] = "failed", UNCHANGED phase
      PROVE  RaisesOnlyAfterDeath'
  BY <1>2 DEF RaisesOnlyAfterDeath
<1>3. CASE Writes
  BY <1>1, <1>3, WriteEffect DEF clientVars
<1>4. ASSUME exec = "off", NEW c \in Client, Gone(c)
      PROVE  phase[c] = "failed"
  BY <1>4 DEF BarrierInv, SaysReady, ReadyFirst, Gone
<1>5. CASE BrokenPipe
  <2>1. main \in Loading /\ UNCHANGED phase
    BY <1>5 DEF BrokenPipe, Loading, clientVars
  <2>2. \E c \in Client : Gone(c)
    <3>1. PrereqClient(i) \in Client
      BY <1>0, Clients
    <3>2. i <= NumClients => i \in Client
      BY <1>0, CountsAssumption DEF Client
    <3>3. QED
      BY <1>5, <3>1, <3>2 DEF BrokenPipe
  <2>3. QED
    BY <1>2, <1>4, <2>1, <2>2 DEF BarrierInv, ExecuteLate
<1>6. ASSUME NEW c \in Client, RecvEOF(c) PROVE RaisesOnlyAfterDeath'
  <2>1. consumed[c] = Len(said[c]) /\ Gone(c) /\ UNCHANGED phase
    BY <1>0, <1>6 DEF RecvEOF, Readable, HasMessage, clientVars
  <2>2. CASE main = "ready"
    BY <1>2, <1>4, <2>1, <2>2 DEF BarrierInv, ExecuteLate
  <2>3. CASE main = "collate" /\ c \in registered
    <3>1. phase[c] \notin {"finished", "exited"}
      BY <1>0, <2>1, <2>3 DEF Registration, Collating
    <3>2. QED
      BY <1>2, <2>1, <3>1 DEF Gone
  <2>4. QED
    BY <1>6, <2>2, <2>3 DEF RecvEOF
<1>7. CASE Control /\ ~BrokenPipe /\ ~\E c \in Client : RecvEOF(c)
  <2>1. main' = "raised" => main = "raised"
    BY <1>7 DEF Control, PrereqsSent, WorkloadEnds, FinaliseSent,
       StartExecute, CollateEnds, Join, StartsSent, StartRaises, ApplyFault,
       FaultRaises, SleepEnds, mainVars
  <2>2. QED
    BY <1>1, <1>7, <2>1, ControlFrame
<1>8. ASSUME NEW c \in Client, RecvReady(c) PROVE RaisesOnlyAfterDeath'
  <2>0. Reads(c) /\ main = "ready" /\ UNCHANGED phase
    BY <1>8 DEF Reads, RecvReady, clientVars
  <2>1. exec = "off" /\ Len(said[c]) <= 1
    BY <2>0 DEF BarrierInv, ExecuteLate, SaysReady, ReadyFirst
  <2>2. consumed[c] = 0 /\ said[c][1] = Ready
    BY <1>0, <2>0, <2>1, ReadEffect DEF BarrierInv, SaysReady, ReadyFirst
  <2>3. main' = "ready"
    BY <1>8, <2>2 DEF RecvReady, NextMessage
  <2>4. QED
    BY <1>1, <2>0, <2>3
<1>9. ASSUME NEW c \in Client, RecvCollate(c) PROVE RaisesOnlyAfterDeath'
  BY <1>1, <1>9 DEF RecvCollate, mainVars, clientVars
<1>10. ASSUME NEW c \in Client, ClientSteps(c) PROVE RaisesOnlyAfterDeath'
  <2>1. \A d \in Client : phase[d] = "failed" => phase'[d] = "failed"
    BY <1>0, <1>10 DEF ClientSteps, ClientRuns, ClientLoad, ClientReply,
       ClientReady, ClientStart, ClientFinish, ClientExit, ClientDies
  <2>2. QED
    BY <1>1, <1>10, <2>1, ClientFrame
<1>11. QED
  BY <1>1, <1>3, <1>5, <1>6, <1>7, <1>8, <1>9, <1>10, Kinds
  DEF Reads, vars, mainVars, clientVars

-----------------------------------------------------------------------------
(* The theorems.                                                           *)

Inv == TypeInv /\ BarrierInv /\ CollateInv

\* The invariant holds of every reachable state.
LEMMA Invariance == Spec => []Inv
<1>1. Init => Inv
  BY TypeInit, BarrierInit, CollateInit DEF Inv
<1>2. Inv /\ [Next]_vars => Inv'
  <2> SUFFICES ASSUME Inv, [Next]_vars PROVE Inv'
    OBVIOUS
  <2>1. TypeInv'
    BY TypeStep DEF Inv
  <2>2. BarrierInv'
    BY <2>1, BarrierStep DEF Inv
  <2>3. CollateInv'
    BY <2>1, FinishedLastStep, RegistrationStep, CollatedStep, RaiseStep
    DEF Inv, CollateInv
  <2>4. QED
    BY <2>1, <2>2, <2>3 DEF Inv
<1>3. QED
  BY <1>1, <1>2, PTL DEF Spec

\* Every variable of the generator and its clients keeps its type.
THEOREM TypeCorrect == Spec => []TypeInv
<1>1. Inv => TypeInv
  BY DEF Inv
<1>2. QED
  BY <1>1, Invariance, PTL

\* The ready phase is a barrier: with any number of clients, none performs an
\* operation of the workload before all prerequisites have been performed.
THEOREM ReadyIsABarrier == Spec => []StartBarrier
<1>1. Inv => StartBarrier
  BY BarrierHolds DEF Inv
<1>2. QED
  BY <1>1, Invariance, PTL

\* Until its results are written the generator raises an exception only when
\* a client has died, whatever the pipes hold and however much one read of
\* the buffered reader fetches.
THEOREM RaisesMeanDeath == Spec => []RaisesOnlyAfterDeath
<1>1. Inv => RaisesOnlyAfterDeath
  BY DEF Inv, CollateInv
<1>2. QED
  BY <1>1, Invariance, PTL

\* When the generator has written its results, they are exactly what the
\* clients reported, in each client's order: collate loses and repeats none.
THEOREM ResultsAreExact == Spec => []ResultsExact
<1>1. Inv => ResultsExact
  <2> SUFFICES ASSUME Inv, ResultsWritten, NEW c \in Client
               PROVE  /\ \E k \in DOMAIN said[c] : said[c][k] = Finished
                      /\ ResultsOf(resps[c], said[c], Len(said[c]))
    BY DEF ResultsExact
  <2> USE DEF Inv, CollateInv, ResultsWritten
  <2>0. said[c] \in Seq(OutMessage) /\ registered \in SUBSET Client
    BY DEF TypeInv
  <2>1. registered = {}
    <3>1. Cardinality(registered) = 0
      BY DEF Registration, Collating
    <3>2. IsFiniteSet(registered)
      BY <2>0, Clients, FS_Subset
    <3>3. QED
      BY <3>1, <3>2, FS_EmptySet
  <2>2. phase[c] \in {"finished", "exited"} /\ consumed[c] = Len(said[c])
    BY <2>1 DEF Registration, Collating
  <2>3. Len(said[c]) > 0 /\ said[c][Len(said[c])] = Finished
    BY <2>2 DEF FinishedLast, LastWord
  <2>4. Len(said[c]) \in DOMAIN said[c]
    BY <2>0, <2>3
  <2>5. QED
    BY <2>2, <2>3, <2>4 DEF Collated
<1>2. QED
  BY <1>1, Invariance, PTL

-----------------------------------------------------------------------------
(* The conversation with each client.                                      *)

\* Operations are written in the order of their numbers, each to one client
\* and once.
DealtOnce ==
  \A c, d \in Client :
    \A j \in 1..Len(sent[c]), k \in 1..Len(sent[d]) : \A o \in Operation :
      /\ main \in {"prereqs", "workload"} /\ sent[c][j] = Preload(o) => o < i
      /\ sent[c][j] = Preload(o) /\ sent[d][k] = Preload(o) => c = d /\ j = k

\* What a client has to answer it has heard, and what it has answered it
\* has heard, has no more to answer, and has answered once.
AnsweredOnce ==
  \A c \in Client :
    /\ \A o \in pending[c] : \E k \in 1..heard[c] : sent[c][k] = Preload(o)
    /\ \A j \in 1..Len(said[c]) : \A o \in Operation :
         said[c][j] = Result(o) =>
           /\ o \notin pending[c]
           /\ \E k \in 1..heard[c] : sent[c][k] = Preload(o)
           /\ \A k \in 1..Len(said[c]) : said[c][k] = Result(o) => j = k

\* A step that writes nothing to a client keeps what was dealt.
LEMMA DealtFrame ==
  ASSUME DealtOnce, UNCHANGED sent,
         main' \in {"prereqs", "workload"} =>
           main \in {"prereqs", "workload"} /\ i' = i
  PROVE  DealtOnce'
BY DEF DealtOnce

\* The next operation has a number of its own.
LEMMA DealtStep ==
  ASSUME TypeInv, TypeInv', BarrierInv, DealtOnce, [Next]_vars
  PROVE  DealtOnce'
<1>0. /\ \A d \in Client : Len(sent[d]) \in Nat /\ Len(sent'[d]) \in Nat
      /\ i \in Nat \ {0}
  BY DEF TypeInv
<1>1. CASE Writes
  <2> PICK c \in Client, m \in InMessage :
         /\ Len(sent'[c]) = Len(sent[c]) + 1
         /\ sent'[c][Len(sent[c]) + 1] = m
         /\ \A k \in 1..Len(sent[c]) : sent'[c][k] = sent[c][k]
         /\ \A d \in Client \ {c} : sent'[d] = sent[d]
         /\ \/ /\ main \in {"prereqs", "workload"} /\ i' = i + 1
               /\ m = Preload(i) /\ i \in Operation
               /\ main = "prereqs" => c = PrereqClient(i)
            \/ main = "finalise" /\ m = Finalise
            \/ exec = "start" /\ m = Start /\ i' = i
         /\ main' = main
    BY <1>1, WriteEffect
  <2>1. \A o \in Operation : m = Preload(o) =>
          main \in {"prereqs", "workload"} /\ o = i /\ i' = i + 1
    BY Words
  <2>2. \A d \in Client : \A j \in 1..Len(sent'[d]) :
          \/ j \in 1..Len(sent[d]) /\ sent'[d][j] = sent[d][j]
          \/ d = c /\ j = Len(sent[c]) + 1 /\ sent'[d][j] = m
    BY <1>0
  <2>3. main \in {"prereqs", "workload"} => i' \in {i, i + 1}
    BY DEF Loading
  <2>4. \A d \in Client : \A j, o : j \in 1..Len(sent[d]) /\ o \in Operation
          /\ main \in {"prereqs", "workload"} /\ sent[d][j] = Preload(o) => o < i
    BY DEF DealtOnce
  <2>5. ASSUME NEW d \in Client, NEW j \in 1..Len(sent'[d]), NEW o \in Operation,
               main' \in {"prereqs", "workload"}, sent'[d][j] = Preload(o)
        PROVE  o < i'
    <3>0. o \in Nat
      BY CountsAssumption DEF Operation
    <3>1. CASE d = c /\ j = Len(sent[c]) + 1 /\ sent'[d][j] = m
      BY <1>0, <2>1, <2>5, <3>0, <3>1
    <3>2. CASE j \in 1..Len(sent[d]) /\ sent'[d][j] = sent[d][j]
      <4>1. o < i
        BY <2>4, <2>5, <3>2
      <4> QED BY <1>0, <2>3, <2>5, <3>0, <4>1
    <3> QED BY <2>2, <3>1, <3>2
  <2>6. ASSUME NEW d \in Client, NEW j \in 1..Len(sent[d]), NEW o \in Operation,
               sent[d][j] = Preload(o), m = Preload(o)
        PROVE  FALSE
    <3>1. o < i /\ o = i
      BY <2>1, <2>4, <2>6
    <3> QED BY <1>0, <3>1
  <2>7. ASSUME NEW d \in Client, NEW e \in Client, NEW j \in 1..Len(sent'[d]),
               NEW k \in 1..Len(sent'[e]), NEW o \in Operation,
               sent'[d][j] = Preload(o), sent'[e][k] = Preload(o)
        PROVE  d = e /\ j = k
    <3>1. CASE /\ j \in 1..Len(sent[d]) /\ sent'[d][j] = sent[d][j]
               /\ k \in 1..Len(sent[e]) /\ sent'[e][k] = sent[e][k]
      <4>1. sent[d][j] = Preload(o) /\ sent[e][k] = Preload(o)
        BY <2>7, <3>1
      <4>2. \A x, y \in Client : \A a \in 1..Len(sent[x]), b \in 1..Len(sent[y]) :
              sent[x][a] = Preload(o) /\ sent[y][b] = Preload(o)
                => x = y /\ a = b
        BY <2>7 DEF DealtOnce
      <4> QED BY <3>1, <4>1, <4>2
    <3>2. CASE /\ d = c /\ j = Len(sent[c]) + 1 /\ sent'[d][j] = m
               /\ k \in 1..Len(sent[e]) /\ sent'[e][k] = sent[e][k]
      <4>1. m = Preload(o) /\ sent[e][k] = Preload(o)
        BY <2>7, <3>2
      <4> QED BY <2>6, <3>2, <4>1
    <3>3. CASE /\ e = c /\ k = Len(sent[c]) + 1 /\ sent'[e][k] = m
               /\ j \in 1..Len(sent[d]) /\ sent'[d][j] = sent[d][j]
      <4>1. m = Preload(o) /\ sent[d][j] = Preload(o)
        BY <2>7, <3>3
      <4> QED BY <2>6, <3>3, <4>1
    <3>4. CASE /\ d = c /\ j = Len(sent[c]) + 1
               /\ e = c /\ k = Len(sent[c]) + 1
      BY <3>4
    <3>5. \/ j \in 1..Len(sent[d]) /\ sent'[d][j] = sent[d][j]
          \/ d = c /\ j = Len(sent[c]) + 1 /\ sent'[d][j] = m
      BY <2>2, <2>7
    <3>6. \/ k \in 1..Len(sent[e]) /\ sent'[e][k] = sent[e][k]
          \/ e = c /\ k = Len(sent[c]) + 1 /\ sent'[e][k] = m
      BY <2>2, <2>7
    <3> QED BY <3>1, <3>2, <3>3, <3>4, <3>5, <3>6
  <2> QED BY <2>5, <2>7 DEF DealtOnce
<1>2. CASE Control
  <2>1. /\ UNCHANGED sent
        /\ main' \in {"prereqs", "workload"} =>
             main \in {"prereqs", "workload"} /\ i' = i
    BY <1>2, ControlFrame
       DEF Control, PrereqsSent, WorkloadEnds, FinaliseSent, BrokenPipe,
       StartExecute, CollateEnds, Join, StartsSent, StartRaises, ApplyFault,
       FaultRaises, SleepEnds, RecvEOF, mainVars
  <2> QED BY <2>1, DealtFrame
<1>3. ASSUME NEW c \in Client, Reads(c)
      PROVE  DealtOnce'
  <2>1. /\ UNCHANGED sent
        /\ main' \in {"prereqs", "workload"} =>
             main \in {"prereqs", "workload"} /\ i' = i
    BY <1>3 DEF Reads, RecvReady, RecvCollate, mainVars, pipeIn
  <2> QED BY <2>1, DealtFrame
<1>4. CASE UNCHANGED <<sent, main, i>>
  BY <1>4, DealtFrame
<1> QED BY <1>1, <1>2, <1>3, <1>4, Kinds, ClientFrame
        DEF vars, mainVars, pipeIn

\* The steps that leave a client's questions and answers alone.
LEMMA AnsweredFrame ==
  ASSUME AnsweredOnce, UNCHANGED <<heard, said, pending>>,
         \A d \in Client : \A k \in 1..heard[d] : sent'[d][k] = sent[d][k]
  PROVE  AnsweredOnce'
BY DEF AnsweredOnce

\* A client answers what it has heard, and nothing twice.
LEMMA AnsweredStep ==
  ASSUME TypeInv, TypeInv', BarrierInv, DealtOnce, AnsweredOnce, [Next]_vars
  PROVE  AnsweredOnce'
<1>0. \A d \in Client : /\ heard[d] \in Nat /\ Len(sent[d]) \in Nat
                        /\ Len(said[d]) \in Nat /\ heard[d] <= Len(sent[d])
                        /\ pending[d] \subseteq Operation
  BY DEF TypeInv, BarrierInv, PipeOrder
<1>1. CASE Writes
  <2>1. /\ UNCHANGED <<heard, said, pending>>
        /\ \A d \in Client : \A k \in 1..heard[d] : sent'[d][k] = sent[d][k]
    BY <1>0, <1>1, WriteEffect DEF clientVars, pipeOut
  <2> QED BY <2>1, AnsweredFrame
<1>2. ASSUME NEW c \in Client, NEW m, Heard(c, m), UNCHANGED sent
      PROVE  /\ \A d \in Client : heard[d] <= heard'[d] /\ heard'[d] \in Nat
             /\ \A d \in Client \ {c} : heard'[d] = heard[d]
             /\ heard'[c] \in 1..heard'[c] /\ sent'[c][heard'[c]] = m
  BY <1>0, <1>2, HearEffect
<1>3. ASSUME NEW c \in Client, NEW o \in Operation, ClientLoad(c, o)
      PROVE  AnsweredOnce'
  <2>1. /\ Heard(c, Preload(o)) /\ UNCHANGED <<sent, said>>
        /\ pending' = [pending EXCEPT ![c] = @ \cup {o}]
        /\ phase[c] = "preload"
    BY <1>3 DEF ClientLoad, pipeOut
  <2>2. Len(said[c]) = 0
    BY <2>1 DEF BarrierInv, SaysReady, ReadyFirst
  <2>3. \A d \in Client : pending'[d] = IF d = c THEN pending[d] \cup {o}
                                        ELSE pending[d]
    BY <2>1 DEF TypeInv
  <2>4. /\ \A d \in Client : heard[d] <= heard'[d] /\ heard'[d] \in Nat
        /\ heard'[c] \in 1..heard'[c] /\ sent[c][heard'[c]] = Preload(o)
    BY <1>2, <2>1
  <2>5. \A d \in Client : \A p \in pending'[d] :
          \E k \in 1..heard'[d] : sent[d][k] = Preload(p)
    <3> SUFFICES ASSUME NEW d \in Client, NEW p \in pending'[d]
                 PROVE  \E k \in 1..heard'[d] : sent[d][k] = Preload(p)
      OBVIOUS
    <3>1. CASE p \in pending[d]
      <4>1. PICK k \in 1..heard[d] : sent[d][k] = Preload(p)
        BY <3>1 DEF AnsweredOnce
      <4>2. k \in 1..heard'[d]
        BY <1>0, <2>4
      <4> QED BY <4>1, <4>2
    <3>2. CASE d = c /\ p = o
      BY <2>4, <3>2
    <3> QED BY <2>3, <3>1, <3>2
  <2>6. ASSUME NEW d \in Client, NEW j \in 1..Len(said[d]), NEW p \in Operation,
               said[d][j] = Result(p)
        PROVE  /\ p \notin pending'[d]
               /\ \E k \in 1..heard'[d] : sent[d][k] = Preload(p)
               /\ \A k \in 1..Len(said[d]) : said[d][k] = Result(p) => j = k
    <3>1. d # c
      BY <2>2
    <3>2. PICK a \in 1..heard[d] : sent[d][a] = Preload(p)
      BY <2>6 DEF AnsweredOnce
    <3>3. a \in 1..heard'[d]
      BY <1>0, <2>4
    <3>4. /\ p \notin pending[d]
          /\ \A k \in 1..Len(said[d]) : said[d][k] = Result(p) => j = k
      BY <2>6 DEF AnsweredOnce
    <3> QED BY <2>3, <3>1, <3>2, <3>3, <3>4
  <2> QED BY <2>1, <2>5, <2>6 DEF AnsweredOnce
<1>4. ASSUME NEW c \in Client, ClientStart(c)
      PROVE  AnsweredOnce'
  <2>1. Heard(c, Start) /\ UNCHANGED <<sent, said, pending>>
    BY <1>4 DEF ClientStart, pipeOut
  <2>2. \A d \in Client : heard[d] <= heard'[d] /\ heard'[d] \in Nat
    BY <1>2, <2>1
  <2>3. \A d \in Client : \A k \in 1..heard[d] : k \in 1..heard'[d]
    BY <1>0, <2>2
  <2> QED BY <2>1, <2>3 DEF AnsweredOnce
<1>5. ASSUME NEW c \in Client, ClientReady(c) \/ ClientFinish(c)
      PROVE  AnsweredOnce'
  <2>1. PICK m \in {Ready, Finished} :
          Say(c, m) /\ UNCHANGED <<sent, pending>>
    BY <1>5 DEF ClientReady, ClientFinish, pipeIn
  <2>2. \A d \in Client : heard[d] <= heard'[d] /\ heard'[d] \in Nat
    <3>1. heard' = heard \/ (Heard(c, Finalise) /\ UNCHANGED sent)
      BY <1>5 DEF ClientReady, ClientFinish, pipeIn
    <3> QED BY <1>0, <1>2, <3>1
  <2>3. \A d \in Client : \A k \in 1..heard[d] : k \in 1..heard'[d]
    BY <1>0, <2>2
  <2>4. \A d \in Client : \A j \in 1..Len(said'[d]) : \A o \in Operation :
          said'[d][j] = Result(o) => j \in 1..Len(said[d]) /\ said[d][j] = Result(o)
    <3>1. /\ Len(said'[c]) = Len(said[c]) + 1
          /\ said'[c][Len(said[c]) + 1] = m
          /\ \A k \in 1..Len(said[c]) : said'[c][k] = said[c][k]
          /\ \A d \in Client \ {c} : said'[d] = said[d]
      BY <2>1, SayEffect, Written
    <3>2. \A o : m # Result(o)
      BY <2>1, Words
    <3> QED BY <1>0, <3>1, <3>2
  <2> QED BY <2>1, <2>3, <2>4, SMTT(30) DEF AnsweredOnce
<1>6. ASSUME NEW c \in Client, NEW o \in Operation, ClientReply(c, o)
      PROVE  AnsweredOnce'
  <2>1. /\ Say(c, Result(o)) /\ UNCHANGED <<sent, heard>> /\ o \in pending[c]
        /\ pending' = [pending EXCEPT ![c] = @ \ {o}]
    BY <1>6 DEF ClientReply, pipeIn
  <2>2. \A d \in Client : pending'[d] = IF d = c THEN pending[d] \ {o}
                                        ELSE pending[d]
    BY <2>1 DEF TypeInv
  <2>3. /\ Len(said'[c]) = Len(said[c]) + 1
        /\ said'[c][Len(said[c]) + 1] = Result(o)
        /\ \A k \in 1..Len(said[c]) : said'[c][k] = said[c][k]
        /\ \A d \in Client \ {c} : said'[d] = said[d]
    BY <2>1, SayEffect, Written
  <2>4. \A k \in 1..Len(said[c]) : said[c][k] # Result(o)
    BY <2>1 DEF AnsweredOnce
  <2>5. \A d \in Client : \A j \in 1..Len(said'[d]) :
          \/ j \in 1..Len(said[d]) /\ said'[d][j] = said[d][j]
          \/ d = c /\ j = Len(said[c]) + 1 /\ said'[d][j] = Result(o)
    BY <1>0, <2>3
  <2>6. ASSUME NEW d \in Client, NEW j \in 1..Len(said'[d]), NEW p \in Operation,
               said'[d][j] = Result(p)
        PROVE  /\ p \notin pending'[d]
               /\ \E k \in 1..heard[d] : sent[d][k] = Preload(p)
               /\ \A k \in 1..Len(said'[d]) : said'[d][k] = Result(p) => j = k
    <3>1. CASE d = c /\ j = Len(said[c]) + 1 /\ said'[d][j] = Result(o)
      <4>1. p = o
        BY <2>6, <3>1 DEF Result
      <4>2. o \notin pending'[d]
        BY <2>2, <3>1
      <4>3. \E k \in 1..heard[d] : sent[d][k] = Preload(o)
        BY <2>1, <3>1 DEF AnsweredOnce
      <4>4. \A k \in 1..Len(said'[d]) : said'[d][k] = Result(o) => j = k
        BY <2>4, <2>5, <3>1
      <4> QED BY <4>1, <4>2, <4>3, <4>4
    <3>2. CASE j \in 1..Len(said[d]) /\ said'[d][j] = said[d][j]
      <4>1. said[d][j] = Result(p)
        BY <2>6, <3>2
      <4>2. /\ p \notin pending[d]
            /\ \E k \in 1..heard[d] : sent[d][k] = Preload(p)
            /\ \A k \in 1..Len(said[d]) : said[d][k] = Result(p) => j = k
        BY <3>2, <4>1 DEF AnsweredOnce
      <4>3. d = c => p # o
        BY <2>4, <3>2, <4>1
      <4>4. \A k \in 1..Len(said'[d]) : said'[d][k] = Result(p) => j = k
        BY <2>5, <4>2, <4>3 DEF Result
      <4> QED BY <2>2, <4>2, <4>4
    <3> QED BY <2>5, <3>1, <3>2
  <2>7. \A d \in Client : \A p \in pending'[d] :
          \E k \in 1..heard[d] : sent[d][k] = Preload(p)
    BY <2>2 DEF AnsweredOnce
  <2> QED BY <2>1, <2>6, <2>7 DEF AnsweredOnce
<1>7. CASE UNCHANGED <<sent, heard, said, pending>>
  BY <1>7, AnsweredFrame
<1>8. ASSUME NEW c \in Client, Reads(c) PROVE UNCHANGED <<sent, heard, said, pending>>
  BY <1>8 DEF Reads, RecvReady, RecvCollate, pipeIn, clientVars
<1> QED
  BY <1>1, <1>3, <1>4, <1>5, <1>6, <1>7, <1>8, Kinds, ControlFrame
  DEF vars, pipeIn, pipeOut, clientVars, ClientSteps, ClientRuns, ClientExit,
      ClientDies

\* Both hold of every reachable state.
LEMMA DialogueInvariance == Spec => [](Inv /\ DealtOnce /\ AnsweredOnce)
<1>1. Init => DealtOnce /\ AnsweredOnce
  <2> SUFFICES ASSUME Init PROVE DealtOnce /\ AnsweredOnce
    OBVIOUS
  <2>1. \A c \in Client : sent[c] = <<>> /\ said[c] = <<>> /\ pending[c] = {}
    BY DEF Init
  <2> QED BY <2>1 DEF DealtOnce, AnsweredOnce
<1>2. Inv /\ Inv' /\ DealtOnce /\ AnsweredOnce /\ [Next]_vars
        => DealtOnce' /\ AnsweredOnce'
  BY DealtStep, AnsweredStep DEF Inv
<1> QED BY <1>1, <1>2, Invariance, PTL DEF Spec

\* Client c's side of the conversation: to the generator a client that has
\* finished and one whose process has ended are the same.
Talk(c) == INSTANCE ClientProtocol
  WITH phase <- IF phase[c] = "exited" THEN "finished" ELSE phase[c],
       pending <- pending[c], stdout <- said[c]

\* The generator loads no operation twice: one that a client hears is not
\* among those it has heard.
LEMMA HeardAnew ==
  ASSUME TypeInv, BarrierInv, DealtOnce, AnsweredOnce,
         NEW c \in Client, NEW o \in Operation, Heard(c, Preload(o))
  PROVE  o \notin pending[c]
<1> SUFFICES ASSUME o \in pending[c] PROVE FALSE
  OBVIOUS
<1>1. PICK k \in 1..heard[c] : sent[c][k] = Preload(o)
  BY DEF AnsweredOnce
<1>2. /\ heard[c] \in Nat /\ Len(sent[c]) \in Nat
      /\ heard[c] + 1 <= Len(sent[c]) /\ sent[c][heard[c] + 1] = Preload(o)
  BY HearEffect DEF TypeInv
<1>3. k \in 1..Len(sent[c]) /\ heard[c] + 1 \in 1..Len(sent[c])
  BY <1>2
<1>4. k = heard[c] + 1
  BY <1>1, <1>2, <1>3 DEF DealtOnce
<1> QED BY <1>2, <1>4

\* A client's own step is a step of the conversation, or its exit.
LEMMA OwnStep ==
  ASSUME TypeInv, BarrierInv, DealtOnce, AnsweredOnce,
         NEW c \in Client, ClientSteps(c)
  PROVE  [Talk(c)!Next]_(Talk(c)!vars)
<1>0. /\ phase \in [Client -> {"preload", "ready", "running", "finished",
                               "exited", "failed"}]
      /\ pending \in [Client -> SUBSET Operation]
      /\ said \in [Client -> Seq(OutMessage)]
  BY DEF TypeInv
<1>1. ASSUME NEW o \in Operation, ClientLoad(c, o)
      PROVE  Talk(c)!Preload(o)
  <2>1. o \notin pending[c]
    BY <1>1, HeardAnew DEF ClientLoad
  <2> QED BY <1>0, <1>1, <2>1 DEF ClientLoad, pipeOut, Talk!Preload
<1>2. ASSUME NEW o \in Operation, ClientReply(c, o)
      PROVE  Talk(c)!Reply(o)
  BY <1>0, <1>2 DEF ClientReply, Say, Result, Talk!Reply, Talk!Result
<1>3. CASE ClientReady(c)
  <2>1. Talk(c)!BecomeReady
    BY <1>0, <1>3 DEF ClientReady, Say, Ready, Talk!BecomeReady, Talk!Ready
  <2> QED BY <2>1 DEF Talk!Next
<1>4. CASE ClientStart(c)
  <2>1. Talk(c)!Start
    BY <1>0, <1>4 DEF ClientStart, pipeOut, Talk!Start
  <2> QED BY <2>1 DEF Talk!Next
<1>5. CASE ClientFinish(c)
  <2>1. Talk(c)!Finish
    BY <1>0, <1>5 DEF ClientFinish, Say, Finished, Talk!Finish, Talk!Finished
  <2> QED BY <2>1 DEF Talk!Next
<1>6. CASE ClientExit(c)
  <2>1. UNCHANGED Talk(c)!vars
    BY <1>0, <1>6 DEF ClientExit, pipeOut, Talk!vars
  <2> QED BY <2>1
<1>7. CASE ClientDies(c)
  <2>1. Talk(c)!Fail
    BY <1>0, <1>7 DEF ClientDies, pipeOut, Talk!Fail
  <2> QED BY <2>1 DEF Talk!Next
<1> QED
  BY <1>1, <1>2, <1>3, <1>4, <1>5, <1>6, <1>7
  DEF ClientSteps, ClientRuns, Talk!Next

\* A step of one client, or of the generator, is nothing to another client.
LEMMA OthersStep ==
  ASSUME TypeInv, NEW c \in Client, UNCHANGED <<phase[c], pending[c], said[c]>>
  PROVE  [Talk(c)!Next]_(Talk(c)!vars)
BY DEF Talk!vars

LEMMA TalkStep ==
  ASSUME TypeInv, TypeInv', BarrierInv, DealtOnce, AnsweredOnce, [Next]_vars,
         NEW c \in Client
  PROVE  [Talk(c)!Next]_(Talk(c)!vars)
<1>0. /\ DOMAIN phase = Client /\ DOMAIN pending = Client
      /\ said \in [Client -> Seq(OutMessage)]
  BY DEF TypeInv
<1>1. CASE Writes
  <2>1. UNCHANGED <<phase, pending, said>>
    BY <1>1, WriteEffect DEF clientVars, pipeOut
  <2> QED BY <2>1, OthersStep
<1>2. CASE Control
  <2>1. UNCHANGED <<phase, pending, said>>
    BY <1>2, ControlFrame
  <2> QED BY <2>1, OthersStep
<1>3. CASE UNCHANGED vars
  <2>1. UNCHANGED <<phase, pending, said>>
    BY <1>3 DEF vars, clientVars, pipeOut
  <2> QED BY <2>1, OthersStep
<1>4. ASSUME NEW d \in Client, Reads(d)
      PROVE  [Talk(c)!Next]_(Talk(c)!vars)
  <2>1. UNCHANGED <<phase, pending, said>>
    BY <1>4 DEF Reads, RecvReady, RecvCollate, clientVars
  <2> QED BY <2>1, OthersStep
<1>5. ASSUME NEW d \in Client, ClientSteps(d)
      PROVE  [Talk(c)!Next]_(Talk(c)!vars)
  <2>1. CASE d = c
    BY <1>5, <2>1, OwnStep
  <2>2. CASE d # c
    <3>1. UNCHANGED <<phase[c], pending[c], said[c]>>
      BY <1>0, <1>5, <2>2
      DEF ClientSteps, ClientRuns, ClientLoad, ClientReply, ClientReady,
          ClientStart, ClientFinish, ClientExit, ClientDies, Say, pipeOut
    <3> QED BY <3>1, OthersStep
  <2> QED BY <2>1, <2>2
<1> QED BY <1>1, <1>2, <1>3, <1>4, <1>5, Kinds

\* The generator keeps its side of the conversation with every client, and
\* its clients keep theirs: each conversation is one that ClientProtocol
\* allows, which the Go, Java and OCaml clients are proved to keep too.  The
\* generator does nothing to a client that those would not expect: it loads
\* no operation twice, none after finalise, and starts no client that is not
\* ready.
THEOREM ClientsConverse ==
  ASSUME NEW c \in Client
  PROVE  Spec => Talk(c)!Init /\ [][Talk(c)!Next]_(Talk(c)!vars)
<1>1. Init => Talk(c)!Init
  BY DEF Init, Talk!Init
<1>2. /\ Inv /\ DealtOnce /\ AnsweredOnce
      /\ Inv' /\ [Next]_vars
      => [Talk(c)!Next]_(Talk(c)!vars)
  BY TalkStep DEF Inv
<1> QED BY <1>1, <1>2, DialogueInvariance, PTL DEF Spec

-----------------------------------------------------------------------------
(* The results.                                                            *)

\* Each result collated is the answer to an operation that the generator
\* wrote to that client, and no operation is answered in two results.
OneResultEach ==
  \A c, d \in Client : \A j \in 1..Len(resps[c]), k \in 1..Len(resps[d]) :
    /\ \E o \in Operation : resps[c][j] = Result(o) /\ InSent(c, Preload(o))
    /\ resps[c][j] = resps[d][k] => c = d /\ j = k

\* Where a collated result was read.
LEMMA ReadFrom ==
  ASSUME TypeInv, PipeOrder, Collated, NEW c \in Client
  PROVE  \E at \in [1..Len(resps[c]) -> 1..Len(said[c])] :
           /\ \A j, k \in 1..Len(resps[c]) : j # k => at[j] # at[k]
           /\ \A j \in 1..Len(resps[c]) :
                /\ resps[c][j] = said[c][at[j]]
                /\ \E o \in Operation : resps[c][j] = Result(o)
<1>0. /\ said \in [Client -> Seq(OutMessage)] /\ Len(said[c]) \in Nat
      /\ consumed[c] \in Nat /\ consumed[c] <= Len(said[c])
      /\ Len(resps[c]) \in Nat
  BY DEF TypeInv, PipeOrder
<1>1. PICK at \in [1..Len(resps[c]) -> 1..consumed[c]] :
        /\ \A j, k \in 1..Len(resps[c]) : j < k => at[j] < at[k]
        /\ \A j \in 1..Len(resps[c]) : resps[c][j] = said[c][at[j]]
        /\ \A k \in 1..consumed[c] :
             IsResult(said[c][k]) <=> \E j \in 1..Len(resps[c]) : at[j] = k
  BY DEF Collated, ResultsOf
<1>2. \A j \in 1..Len(resps[c]) :
        /\ at[j] \in 1..consumed[c] /\ at[j] \in 1..Len(said[c])
        /\ at[j] \in Nat
  BY <1>0, <1>1
<1>3. at \in [1..Len(resps[c]) -> 1..Len(said[c])]
  BY <1>1, <1>2
<1>4. \A j, k \in 1..Len(resps[c]) : j # k => at[j] # at[k]
  BY <1>0, <1>1, <1>2
<1>5. ASSUME NEW j \in 1..Len(resps[c])
      PROVE  \E o \in Operation : resps[c][j] = Result(o)
  <2>1. IsResult(said[c][at[j]])
    BY <1>1, <1>2
  <2>2. said[c][at[j]] \in OutMessage
    BY <1>0, <1>2
  <2>3. \E o \in Operation : said[c][at[j]] = Result(o)
    BY <2>1, <2>2 DEF OutMessage, IsResult, Ready, Finished
  <2> QED BY <1>1, <2>3
<1> QED BY <1>1, <1>3, <1>4, <1>5

\* The results file attributes every result to an operation the workload
\* yielded for that very client, and holds at most one result for each,
\* over all clients and however the pipes are read.
THEOREM NoOperationCountsTwice == Spec => []OneResultEach
<1>1. Inv /\ DealtOnce /\ AnsweredOnce => OneResultEach
  <2> SUFFICES ASSUME Inv, DealtOnce, AnsweredOnce,
                      NEW c \in Client, NEW d \in Client,
                      NEW j \in 1..Len(resps[c]), NEW k \in 1..Len(resps[d])
               PROVE  /\ \E o \in Operation : /\ resps[c][j] = Result(o)
                                              /\ InSent(c, Preload(o))
                      /\ resps[c][j] = resps[d][k] => c = d /\ j = k
    BY DEF OneResultEach
  <2>0. TypeInv /\ PipeOrder /\ Collated
    BY DEF Inv, BarrierInv, CollateInv
  <2>1. PICK at \in [1..Len(resps[c]) -> 1..Len(said[c])] :
          /\ \A a, b \in 1..Len(resps[c]) : a # b => at[a] # at[b]
          /\ \A a \in 1..Len(resps[c]) :
               /\ resps[c][a] = said[c][at[a]]
               /\ \E o \in Operation : resps[c][a] = Result(o)
    BY <2>0, ReadFrom
  <2>2. PICK bt \in [1..Len(resps[d]) -> 1..Len(said[d])] :
          \A a \in 1..Len(resps[d]) : resps[d][a] = said[d][bt[a]]
    BY <2>0, ReadFrom
  <2>3. PICK o \in Operation : resps[c][j] = Result(o)
    BY <2>1
  <2>4. at[j] \in 1..Len(said[c]) /\ said[c][at[j]] = Result(o)
    BY <2>1, <2>3
  <2>5. \A e \in Client : \A a \in 1..Len(said[e]) : said[e][a] = Result(o) =>
          /\ \E b \in 1..Len(sent[e]) : sent[e][b] = Preload(o)
          /\ \A b \in 1..Len(said[e]) : said[e][b] = Result(o) => a = b
    <3> SUFFICES ASSUME NEW e \in Client, NEW a \in 1..Len(said[e]),
                        said[e][a] = Result(o)
                 PROVE  /\ \E b \in 1..Len(sent[e]) : sent[e][b] = Preload(o)
                        /\ \A b \in 1..Len(said[e]) :
                             said[e][b] = Result(o) => a = b
      OBVIOUS
    <3>1. /\ \E b \in 1..heard[e] : sent[e][b] = Preload(o)
          /\ \A b \in 1..Len(said[e]) : said[e][b] = Result(o) => a = b
      BY DEF AnsweredOnce
    <3>2. /\ heard[e] \in Nat /\ Len(sent[e]) \in Nat
          /\ heard[e] <= Len(sent[e])
      BY <2>0 DEF TypeInv, PipeOrder
    <3>3. \A b \in 1..heard[e] : b \in 1..Len(sent[e])
      BY <3>2
    <3> QED BY <3>1, <3>3
  <2>6. InSent(c, Preload(o))
    BY <2>4, <2>5 DEF InSent
  <2>7. ASSUME resps[c][j] = resps[d][k] PROVE c = d /\ j = k
    <3>1. bt[k] \in 1..Len(said[d]) /\ said[d][bt[k]] = Result(o)
      BY <2>2, <2>3, <2>7
    <3>2. PICK a \in 1..Len(sent[c]) : sent[c][a] = Preload(o)
      BY <2>4, <2>5
    <3>3. PICK b \in 1..Len(sent[d]) : sent[d][b] = Preload(o)
      BY <2>5, <3>1
    <3>4. c = d
      BY <3>2, <3>3 DEF DealtOnce
    <3>5. /\ k \in 1..Len(resps[c]) /\ at[k] \in 1..Len(said[c])
          /\ said[c][at[k]] = Result(o)
      BY <2>1, <2>3, <2>7, <3>4
    <3>6. at[j] = at[k]
      BY <2>4, <2>5, <3>5
    <3>7. j = k
      BY <2>1, <3>4, <3>5, <3>6
    <3> QED BY <3>4, <3>7
  <2> QED BY <2>3, <2>6, <2>7
<1> QED BY <1>1, DialogueInvariance, PTL

=============================================================================
