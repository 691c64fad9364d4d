--------------------------- MODULE ClientProtocol ---------------------------
(***************************************************************************)
(* What the load generator relies on of one client process, whatever       *)
(* language it is written in: the conversation on the client's stdin and   *)
(* stdout.  The generator loads operations, the client says ready, waits   *)
(* for start, answers some of the operations it was given, each at most    *)
(* once, says finished and never speaks again.  A client may fail at any   *)
(* point before that, after which its stdout is at end of file.            *)
(***************************************************************************)
EXTENDS Naturals, Sequences

CONSTANT Operation      \* the operations a generator may load

VARIABLES
  phase,      \* how far the conversation has got
  pending,    \* loaded operations that have not been answered
  stdout      \* the messages the client has written, oldest first

vars == <<phase, pending, stdout>>

\* The messages a client writes (reckon_types.py: Ready, Result, Finished).
Ready == [kind |-> "ready"]
Result(o) == [kind |-> "result", op |-> o]
Finished == [kind |-> "finished"]
ClientMessage == {Ready, Finished} \cup [kind : {"result"}, op : Operation]

Init ==
  /\ phase = "preload"
  /\ pending = {}
  /\ stdout = <<>>

\* The generator loads operation o, which it has not loaded before.
Preload(o) ==
  /\ phase = "preload"
  /\ o \notin pending
  /\ pending' = pending \cup {o}
  /\ UNCHANGED <<phase, stdout>>

\* After finalise the client reports that it is ready.
BecomeReady ==
  /\ phase = "preload"
  /\ phase' = "ready"
  /\ stdout' = Append(stdout, Ready)
  /\ UNCHANGED pending

\* The generator's start message arrives.
Start ==
  /\ phase = "ready"
  /\ phase' = "running"
  /\ UNCHANGED <<pending, stdout>>

\* The client answers a loaded operation.
Reply(o) ==
  /\ phase = "running"
  /\ o \in pending
  /\ pending' = pending \ {o}
  /\ stdout' = Append(stdout, Result(o))
  /\ UNCHANGED phase

\* The client says finished; what is still pending is cut off.
Finish ==
  /\ phase = "running"
  /\ phase' = "finished"
  /\ stdout' = Append(stdout, Finished)
  /\ UNCHANGED pending

\* The process dies (log.Fatal, an uncaught exception) without finishing.
Fail ==
  /\ phase \in {"preload", "ready", "running"}
  /\ phase' = "failed"
  /\ UNCHANGED <<pending, stdout>>

Next ==
  \/ \E o \in Operation : Preload(o) \/ Reply(o)
  \/ BecomeReady
  \/ Start
  \/ Finish
  \/ Fail

\* A started client finishes or fails; nothing is promised about how soon it
\* is ready, because loading performs operations on the system under test.
\* (Of the Java client only KeepsProtocol holds, without this fairness.)
Fairness == WF_vars(Finish)

Spec == Init /\ [][Next]_vars /\ Fairness

=============================================================================
