--------------------------- MODULE LoadGenerator ---------------------------
(***************************************************************************)
(* The load generator, reckon/client_runner.py: test_steps (preload,       *)
(* ready, the execute thread, collate, join) and the end of run_test, with *)
(* the clients it talks to over their stdin and stdout.                    *)
(*                                                                         *)
(* A client is any process that keeps the conversation of ClientProtocol   *)
(* and may die at any point of it.  Its stdout is a kernel pipe read       *)
(* through a Python BufferedReader (Popen's bufsize=4096): one read may    *)
(* move several messages into the reader's buffer, which select() on the   *)
(* file descriptor does not see.  Both pipes are kept as the whole history *)
(* of messages with counters for how far each side has got:                *)
(*                                                                         *)
(*     consumed[c] <= slurped[c] <= Len(said[c])     stdout of client c    *)
(*     heard[c] <= Len(sent[c])                      stdin of client c     *)
(*                                                                         *)
(* consumed+1..slurped is in the BufferedReader, slurped+1..Len(said) in   *)
(* the kernel.  Messages are whole: a size and its payload are written by  *)
(* one call, and a read that got part of a message blocks for the rest.    *)
(***************************************************************************)
EXTENDS Naturals, Sequences, FiniteSets

CONSTANTS
  NumClients,   \* the length of the list clients
  NumPrereqs,   \* how many prerequisites the workload has
  MaxOps,       \* bound: operations the workload yields before duration
  NumFaults,    \* the length of the list failures
  PipeCap,      \* messages a kernel pipe holds
  BufCap        \* messages a BufferedReader fetches with one read

ASSUME CountsAssumption ==
  /\ NumClients \in Nat \ {0}
  /\ NumPrereqs \in Nat \ {0}   \* preload logs under the last one's client
  /\ MaxOps \in Nat
  /\ NumFaults \in Nat /\ NumFaults >= 2     \* assert(len(failures) >= 2)
ASSUME CapsAssumption ==
  /\ PipeCap \in Nat \ {0}
  /\ BufCap \in Nat \ {0}

Client == 1..NumClients

\* Operations are numbered in the order the generator sends them.
Prereq == 1..NumPrereqs
Operation == 1..(NumPrereqs + MaxOps)

VARIABLES
  main,        \* program point of the generator's main thread
  i,           \* its loop counter: operations or clients dealt with
  exec,        \* program point of the execute thread
  started,     \* clients it has sent start to
  applied,     \* faults applied, in order
  registered,  \* clients registered with collate's selector
  remaining,   \* remaining_clients
  resps,       \* results collated, kept apart by client
  sent,        \* per client: messages written to its stdin
  heard,       \* per client: how many of those it has read
  said,        \* per client: messages it has written to its stdout
  slurped,     \* per client: how many of those have left the kernel pipe
  consumed,    \* per client: how many of those recv() has returned
  phase,       \* per client: where it is in the conversation
  pending,     \* per client: loaded operations not yet answered
  prepared     \* history: prerequisites that have been performed

mainVars == <<main, i>>
execVars == <<exec, started, applied>>
collateVars == <<registered, remaining, resps>>
pipeIn == <<sent, heard>>
pipeOut == <<said, slurped, consumed>>
clientVars == <<phase, pending, prepared>>
vars == <<mainVars, execVars, collateVars, pipeIn, pipeOut, clientVars>>

Ready == [kind |-> "ready"]
Finished == [kind |-> "finished"]
Result(o) == [kind |-> "result", op |-> o]
IsResult(m) == m.kind = "result"
Preload(o) == [kind |-> "preload", op |-> o]
Finalise == [kind |-> "finalise"]
Start == [kind |-> "start"]

\* The clients are started and prepare_test_start, which may raise too, has
\* returned.
Init ==
  /\ main = "prereqs" /\ i = 1
  /\ exec = "off" /\ started = 0 /\ applied = 0
  /\ registered = {} /\ remaining = NumClients /\ resps = [c \in Client |-> <<>>]
  /\ sent = [c \in Client |-> <<>>] /\ heard = [c \in Client |-> 0]
  /\ said = [c \in Client |-> <<>>]
  /\ slurped = [c \in Client |-> 0] /\ consumed = [c \in Client |-> 0]
  /\ phase = [c \in Client |-> "preload"]
  /\ pending = [c \in Client |-> {}]
  /\ prepared = {}

\* The results are written, and the logs of the nodes collected or not.
ResultsWritten == main \in {"done", "uncollected"}

\* The generator's process is over: it has written the results, or an
\* exception left run_test before.  Its daemon thread ends with it.
Over == ResultsWritten \/ main = "raised"

\* A process that has ended: its end of both pipes is closed.
Gone(c) == phase[c] \in {"exited", "failed"}

-----------------------------------------------------------------------------
(* Client.send and Client.recv of reckon_types.py.                         *)

StdinHasRoom(c) == Len(sent[c]) - heard[c] < PipeCap
CanSend(c) == ~Gone(c) /\ StdinHasRoom(c)
Send(c, m) == sent' = [sent EXCEPT ![c] = Append(@, m)]

\* select() reports client c's stdout: data in the kernel pipe or its end.
Readable(c) == slurped[c] < Len(said[c]) \/ Gone(c)

\* recv() has a message to return, or must raise EOFError.
HasMessage(c) == consumed[c] < Len(said[c])
NextMessage(c) == said[c][consumed[c] + 1]

\* As Fetch, but what a read returns beyond the message is thrown away.
Fetch_Unbuffered(c) ==
  \/ /\ consumed[c] < slurped[c]
     /\ consumed' = [consumed EXCEPT ![c] = @ + 1]
     /\ UNCHANGED slurped
  \/ /\ consumed[c] = slurped[c]
     /\ \E k \in 1..BufCap :
          /\ slurped[c] + k <= Len(said[c])
          /\ slurped' = [slurped EXCEPT ![c] = @ + k]
          /\ consumed' = [consumed EXCEPT ![c] = @ + k]

\* The message comes from the reader's buffer when there is one; otherwise
\* a read moves between one and BufCap messages out of the kernel pipe.
Fetch(c) ==
  \/ /\ consumed[c] < slurped[c]
     /\ consumed' = [consumed EXCEPT ![c] = @ + 1]
     /\ UNCHANGED slurped
  \/ /\ consumed[c] = slurped[c]
     /\ \E k \in 1..BufCap :
          /\ slurped[c] + k <= Len(said[c])
          /\ slurped' = [slurped EXCEPT ![c] = @ + k]
     /\ consumed' = [consumed EXCEPT ![c] = @ + 1]

-----------------------------------------------------------------------------
(* preload                                                                 *)

\* it.cycle(clients): the client that prerequisite p goes to.
PrereqClient(p) == ((p - 1) % NumClients) + 1

SendPrereq ==
  /\ main = "prereqs"
  /\ i <= NumPrereqs
  /\ CanSend(PrereqClient(i))
  /\ Send(PrereqClient(i), Preload(i))
  /\ i' = i + 1
  /\ UNCHANGED <<main, execVars, collateVars, heard, pipeOut, clientVars>>

PrereqsSent ==
  /\ main = "prereqs"
  /\ i > NumPrereqs
  /\ main' = "workload"
  /\ UNCHANGED <<i, execVars, collateVars, pipeIn, pipeOut, clientVars>>

\* The workload yields an operation, before duration, for client c.
SendOp(c) ==
  /\ main = "workload"
  /\ i <= NumPrereqs + MaxOps
  /\ CanSend(c)
  /\ Send(c, Preload(i))
  /\ i' = i + 1
  /\ UNCHANGED <<main, execVars, collateVars, heard, pipeOut, clientVars>>

\* The workload yields an operation at or past duration: break.
WorkloadEnds ==
  /\ main = "workload"
  /\ main' = "finalise"
  /\ i' = 1
  /\ UNCHANGED <<execVars, collateVars, pipeIn, pipeOut, clientVars>>

SendFinalise ==
  /\ main = "finalise"
  /\ i <= NumClients
  /\ CanSend(i)
  /\ Send(i, Finalise)
  /\ i' = i + 1
  /\ UNCHANGED <<main, execVars, collateVars, heard, pipeOut, clientVars>>

\* preload returns and ready registers every client.
FinaliseSent ==
  /\ main = "finalise"
  /\ i > NumClients
  /\ main' = "ready"
  /\ i' = 1
  /\ UNCHANGED <<execVars, collateVars, pipeIn, pipeOut, clientVars>>

\* A write to a client that has gone raises BrokenPipeError.
BrokenPipe ==
  /\ \/ main = "prereqs" /\ i <= NumPrereqs /\ Gone(PrereqClient(i))
     \/ main = "workload" /\ \E c \in Client : Gone(c)
     \/ main = "finalise" /\ i <= NumClients /\ Gone(i)
  /\ main' = "raised"
  /\ UNCHANGED <<i, execVars, collateVars, pipeIn, pipeOut, clientVars>>

-----------------------------------------------------------------------------
(* ready                                                                   *)

\* One message from any readable client, as often as there are clients.
RecvReady(c) ==
  /\ main = "ready"
  /\ i <= NumClients
  /\ Readable(c) /\ HasMessage(c)
  /\ Fetch(c)
  /\ IF NextMessage(c) = Ready
     THEN main' = main /\ i' = i + 1
     ELSE main' = "raised" /\ i' = i           \* the assert
  /\ UNCHANGED <<execVars, collateVars, pipeIn, said, clientVars>>

\* As StartExecute, with ready returning one client early.
StartExecute_OneShort ==
  /\ main = "ready"
  /\ i >= NumClients
  /\ main' = "collate"
  /\ exec' = "start"
  /\ registered' = Client
  /\ UNCHANGED <<i, started, applied, remaining, resps, pipeIn, pipeOut,
                 clientVars>>

\* ready returns, test_steps starts the execute thread and enters collate,
\* which registers every client with a new selector.
StartExecute ==
  /\ main = "ready"
  /\ i > NumClients
  /\ main' = "collate"
  /\ exec' = "start"
  /\ registered' = Client
  /\ UNCHANGED <<i, started, applied, remaining, resps, pipeIn, pipeOut,
                 clientVars>>

\* A readable client without a message is at end of file: EOFError.
RecvEOF(c) ==
  /\ \/ main = "ready" /\ i <= NumClients
     \/ main = "collate" /\ remaining > 0 /\ c \in registered
  /\ Readable(c) /\ ~HasMessage(c)
  /\ main' = "raised"
  /\ UNCHANGED <<i, execVars, collateVars, pipeIn, pipeOut, clientVars>>

-----------------------------------------------------------------------------
(* execute, a daemon thread                                                *)

SendStart ==
  /\ ~Over
  /\ exec = "start"
  /\ started < NumClients
  /\ CanSend(started + 1)
  /\ Send(started + 1, Start)
  /\ started' = started + 1
  /\ UNCHANGED <<mainVars, exec, applied, collateVars, heard, pipeOut,
                 clientVars>>

StartsSent ==
  /\ ~Over
  /\ exec = "start"
  /\ started = NumClients
  /\ exec' = "fault"
  /\ UNCHANGED <<mainVars, started, applied, collateVars, pipeIn, pipeOut,
                 clientVars>>

\* The client start is being sent to has gone: BrokenPipeError ends the
\* thread, and only the thread.
StartRaises ==
  /\ ~Over
  /\ exec = "start"
  /\ started < NumClients
  /\ Gone(started + 1)
  /\ exec' = "died"
  /\ UNCHANGED <<mainVars, started, applied, collateVars, pipeIn, pipeOut,
                 clientVars>>

\* roundrobin alternates the faults with the sleeps between them; the last
\* fault is followed by writing the log.
ApplyFault ==
  /\ ~Over
  /\ exec = "fault"
  /\ applied' = applied + 1
  /\ exec' = IF applied' = NumFaults THEN "ended" ELSE "sleep"
  /\ UNCHANGED <<mainVars, started, collateVars, pipeIn, pipeOut, clientVars>>

\* apply_fault raises (no leader found, a host already gone).
FaultRaises ==
  /\ ~Over
  /\ exec = "fault"
  /\ exec' = "died"
  /\ UNCHANGED <<mainVars, started, applied, collateVars, pipeIn, pipeOut,
                 clientVars>>

SleepEnds ==
  /\ ~Over
  /\ exec = "sleep"
  /\ exec' = "fault"
  /\ UNCHANGED <<mainVars, started, applied, collateVars, pipeIn, pipeOut,
                 clientVars>>

-----------------------------------------------------------------------------
(* collate, and the rest of test_steps and run_test                        *)

\* As Unregister, without the call of unregister_selector.
Unregister_Forgotten(c) == UNCHANGED registered

\* A client that said finished leaves the selector.
Unregister(c) ==
  registered' = IF NextMessage(c) = Finished THEN registered \ {c}
                                             ELSE registered

\* A result is kept, finished counts the client off, and any other message
\* is printed and ignored.
RecvCollate(c) ==
  /\ main = "collate"
  /\ remaining > 0
  /\ c \in registered
  /\ Readable(c) /\ HasMessage(c)
  /\ Fetch(c)
  /\ Unregister(c)
  /\ remaining' = IF NextMessage(c) = Finished THEN remaining - 1
                                               ELSE remaining
  /\ resps' = IF IsResult(NextMessage(c))
              THEN [resps EXCEPT ![c] = Append(@, NextMessage(c))]
              ELSE resps
  /\ UNCHANGED <<mainVars, execVars, pipeIn, said, clientVars>>

CollateEnds ==
  /\ main = "collate"
  /\ remaining = 0
  /\ main' = "join"
  /\ UNCHANGED <<i, execVars, collateVars, pipeIn, pipeOut, clientVars>>

\* t_execute.join returns and run_test writes the results.  After that
\* handle_test_end may raise (a host without node_type, no log to move).
Join ==
  /\ main = "join"
  /\ exec \in {"ended", "died"}
  /\ main' \in {"done", "uncollected"}
  /\ UNCHANGED <<i, execVars, collateVars, pipeIn, pipeOut, clientVars>>

-----------------------------------------------------------------------------
(* The clients.                                                            *)

Heard(c, m) ==
  /\ heard[c] < Len(sent[c])
  /\ sent[c][heard[c] + 1] = m
  /\ heard' = [heard EXCEPT ![c] = @ + 1]

StdoutHasRoom(c) == Len(said[c]) - slurped[c] < PipeCap
Say(c, m) ==
  /\ StdoutHasRoom(c)
  /\ said' = [said EXCEPT ![c] = Append(@, m)]

\* A loaded prerequisite is performed before the next message is read.
ClientLoad(c, o) ==
  /\ phase[c] = "preload"
  /\ Heard(c, Preload(o))
  /\ pending' = [pending EXCEPT ![c] = @ \cup {o}]
  /\ prepared' = prepared \cup ({o} \cap Prereq)
  /\ UNCHANGED <<mainVars, execVars, collateVars, sent, pipeOut, phase>>

ClientReady(c) ==
  /\ phase[c] = "preload"
  /\ Heard(c, Finalise)
  /\ Say(c, Ready)
  /\ phase' = [phase EXCEPT ![c] = "ready"]
  /\ UNCHANGED <<mainVars, execVars, collateVars, sent, slurped, consumed,
                 pending, prepared>>

ClientStart(c) ==
  /\ phase[c] = "ready"
  /\ Heard(c, Start)
  /\ phase' = [phase EXCEPT ![c] = "running"]
  /\ UNCHANGED <<mainVars, execVars, collateVars, sent, pipeOut, pending,
                 prepared>>

ClientReply(c, o) ==
  /\ phase[c] = "running"
  /\ o \in pending[c]
  /\ Say(c, Result(o))
  /\ pending' = [pending EXCEPT ![c] = @ \ {o}]
  /\ UNCHANGED <<mainVars, execVars, collateVars, pipeIn, slurped, consumed,
                 phase, prepared>>

\* The client stops replying: the remaining operations are cut off.
ClientFinish(c) ==
  /\ phase[c] = "running"
  /\ Say(c, Finished)
  /\ phase' = [phase EXCEPT ![c] = "finished"]
  /\ UNCHANGED <<mainVars, execVars, collateVars, pipeIn, slurped, consumed,
                 pending, prepared>>

\* As ClientExit, for a client that lingers after finished.
ClientExit_Lingers(c) == FALSE /\ phase[c] = "finished" /\ UNCHANGED vars

\* After finished the process ends, and select sees the end of its stdout.
ClientExit(c) ==
  /\ phase[c] = "finished"
  /\ phase' = [phase EXCEPT ![c] = "exited"]
  /\ UNCHANGED <<mainVars, execVars, collateVars, pipeIn, pipeOut, pending,
                 prepared>>

\* A fatal error, at any point before finished is written.
ClientDies(c) ==
  /\ phase[c] \in {"preload", "ready", "running"}
  /\ phase' = [phase EXCEPT ![c] = "failed"]
  /\ UNCHANGED <<mainVars, execVars, collateVars, pipeIn, pipeOut, pending,
                 prepared>>

-----------------------------------------------------------------------------
MainThread ==
  \/ SendPrereq \/ PrereqsSent \/ WorkloadEnds
  \/ SendFinalise \/ FinaliseSent \/ BrokenPipe
  \/ StartExecute \/ CollateEnds \/ Join
  \/ \E c \in Client :
       SendOp(c) \/ RecvReady(c) \/ RecvEOF(c) \/ RecvCollate(c)

ExecuteThread ==
  \/ SendStart \/ StartsSent \/ StartRaises
  \/ ApplyFault \/ FaultRaises \/ SleepEnds

\* What a client does on its own account.
ClientRuns(c) ==
  \/ \E o \in Operation : ClientLoad(c, o) \/ ClientReply(c, o)
  \/ ClientReady(c) \/ ClientStart(c) \/ ClientFinish(c) \/ ClientExit(c)

Next ==
  \/ MainThread
  \/ ExecuteThread
  \/ \E c \in Client : ClientRuns(c) \/ ClientDies(c)
  \/ Over /\ UNCHANGED vars

\* Both Python threads and every client process are scheduled; operations
\* of the preload phase return, and a started client finishes
\* (GoClient!Finishes) or dies.  No client has to die.  A Java client of
\* which JavaClient!Held stays true is outside this assumption.
Fairness ==
  /\ WF_vars(MainThread)
  /\ WF_vars(ExecuteThread)
  /\ \A c \in Client : WF_vars(ClientRuns(c))

Spec == Init /\ [][Next]_vars
FairSpec == Spec /\ Fairness

-----------------------------------------------------------------------------
\* No client performs an operation of the workload before every client has
\* performed every prerequisite it was given: the ready phase is a barrier,
\* although it only counts messages and never asks which client sent them.
StartBarrier ==
  (\E c \in Client : phase[c] \in {"running", "finished"})
    => prepared = Prereq

\* r is what the first n messages of s hold in results: some enumeration of
\* their positions, in order, reads off r and misses none.
ResultsOf(r, s, n) ==
  \E at \in [1..Len(r) -> 1..n] :
    /\ \A j, k \in 1..Len(r) : j < k => at[j] < at[k]
    /\ \A j \in 1..Len(r) : r[j] = s[at[j]]
    /\ \A k \in 1..n : IsResult(s[k]) <=> \E j \in 1..Len(r) : at[j] = k

\* The results written at the end are exactly the results the clients
\* reported, each once and in each client's order, none lost in a read
\* buffer or left in a pipe; and every client has finished.
ResultsExact ==
  ResultsWritten =>
    \A c \in Client :
      /\ \E k \in DOMAIN said[c] : said[c][k] = Finished
      /\ ResultsOf(resps[c], said[c], Len(said[c]))

\* From preload on, and until the results are written, the generator raises
\* no exception unless a client has died: in particular the clients that
\* finished and left do not trip collate, and ready's assertion holds.
RaisesOnlyAfterDeath ==
  main = "raised" => \E c \in Client : phase[c] = "failed"

\* The generator always ends, with results or with an exception: although
\* select cannot see messages that sit in a read buffer, a dead client does
\* not block it, and neither does an execute thread that died before it had
\* started every client.
Terminates == <>Over

=============================================================================
