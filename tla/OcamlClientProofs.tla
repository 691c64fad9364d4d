------------------------- MODULE OcamlClientProofs -------------------------
(***************************************************************************)
(* Proofs about OcamlClient for every finite set of operations and every   *)
(* client id: type correctness, ReportsWhatItHeard, and that every step is *)
(* one ClientProtocol allows (ProtocolSafety).                             *)
(***************************************************************************)
EXTENDS OcamlClient, NaturalsInduction, WellFoundedInduction, TLAPS

-----------------------------------------------------------------------------
(* The inductive invariant.                                                *)

Points == {"preload", "prereq", "start", "execute", "aim", "collate",
           "exited", "failed"}
Message == {Ready, Finished} \cup [kind : {"result"}, op : Operation]

\* The ids op_id_gen has given out.
Issued == {OpIdGen(n) : n \in 1..(x - 1)}

TypeOK ==
  /\ fresh \subseteq Operation /\ reqs \subseteq Operation
  /\ main \in Points /\ x \in Nat \ {0}
  /\ cur \in [rid : Nat, op : Nat]
  /\ prereqs \in [DOMAIN prereqs -> BOOLEAN]
  /\ operations \in [DOMAIN operations -> Operation]
  /\ DOMAIN prereqs \subseteq Issued /\ DOMAIN operations \subseteq Issued
  /\ results \subseteq DOMAIN operations /\ collating \subseteq results
  /\ inflight \subseteq [rid : Nat, op : Nat]
  /\ stop \in BOOLEAN
  /\ stdout \in Seq(Message) /\ heard \subseteq Operation

\* The operations that were submitted, or are about to be.
Submitted == {operations[k] : k \in DOMAIN operations}
Aimed == IF main = "aim" THEN {cur.op} ELSE {}

\* Where an operation is: not sent yet, waiting, about to be submitted, or
\* submitted, and then under one id.
Apart ==
  /\ fresh \cap reqs = {} /\ fresh \cap (Submitted \cup Aimed) = {}
  /\ reqs \cap (Submitted \cup Aimed) = {} /\ Submitted \cap Aimed = {}
  /\ \A j, k \in DOMAIN operations : operations[j] = operations[k] => j = k

\* An id belongs to a prerequisite or to an operation, never to both.
OwnIds ==
  /\ DOMAIN prereqs \cap DOMAIN operations = {}
  /\ main \in {"prereq", "aim"} => cur.op \in Operation
  /\ main = "prereq" => cur.rid \in DOMAIN prereqs
  /\ main = "aim" =>
       cur.rid \in Issued \ (DOMAIN prereqs \cup DOMAIN operations)

\* A request under way is a prerequisite, which is no operation, or the
\* operation that was submitted under its id.
IsPrereq(r) ==
  /\ r.rid \in DOMAIN prereqs
  /\ r.op \notin fresh \cup reqs \cup Submitted \cup Aimed
Traced ==
  /\ main = "prereq" => IsPrereq(cur)
  /\ \A r \in inflight :
       \/ IsPrereq(r)
       \/ r.rid \in DOMAIN operations /\ operations[r.rid] = r.op

\* What was heard is what the table holds, and from the time it is written
\* out each of it is still to be written or written.
Heard ==
  /\ heard = {operations[k] : k \in results}
  /\ stop <=> main \in {"collate", "exited"}
  /\ Written \cap {operations[k] : k \in collating} = {}
  /\ IF stop THEN heard = Written \cup {operations[k] : k \in collating}
     ELSE Written = {} /\ collating = {}
  /\ main = "exited" => collating = {}

Inv == TypeOK /\ Apart /\ OwnIds /\ Traced /\ Heard

-----------------------------------------------------------------------------
(* The least element, tables, ids and messages.                            *)

\* A set of numbers that is not empty has a least one, so NextOp and
\* SendResult take a member of their sets.
LEMMA LeastIs ==
  ASSUME NEW S, S \subseteq Nat, S # {}
  PROVE  (CHOOSE o \in S : \A p \in S : o <= p) \in S
<1>1. IsWellFoundedOn(OpToRel(<, Nat), Nat)
  BY NatLessThanWellFounded
<1>2. PICK n \in S : \A y \in S : ~(<<y, n>> \in OpToRel(<, Nat))
  BY <1>1, WFMin
<1>3. \A y \in S : ~(y < n)
  BY <1>2, Zenon DEF OpToRel
<1>4. \A y \in S : n <= y
  BY <1>3
<1>5. QED
  BY <1>4

\* Setting an entry of a table adds its key.
LEMMA SetDomain ==
  ASSUME NEW t, NEW k, NEW d
  PROVE  DOMAIN Set(t, k, d) = DOMAIN t \cup {k}
BY DEF Set

\* Setting an entry keeps a table a table.
LEMMA SetType ==
  ASSUME NEW T, NEW t, t \in [DOMAIN t -> T], NEW k, NEW d \in T
  PROVE  Set(t, k, d) \in [DOMAIN Set(t, k, d) -> T]
<1>1. \A j \in DOMAIN t \cup {k} : (IF j = k THEN d ELSE t[j]) \in T
  OBVIOUS
<1>2. QED
  BY <1>1 DEF Set

\* op_id_gen gives a new id each time.
LEMMA NewId ==
  ASSUME x \in Nat \ {0}
  PROVE  /\ Issued \subseteq Nat /\ OpIdGen(x) \in Nat
         /\ OpIdGen(x) \notin Issued
         /\ x' = x + 1 => Issued' = Issued \cup {OpIdGen(x)}
         /\ x' = x => Issued' = Issued
<1>1. \A n \in Nat : OpIdGen(n) \in Nat
  BY CidAssumption DEF OpIdGen
<1>2. \A n, m \in Nat : OpIdGen(n) = OpIdGen(m) => n = m
  BY CidAssumption DEF OpIdGen
<1>3. Issued \subseteq Nat /\ OpIdGen(x) \in Nat
  BY <1>1 DEF Issued
<1>4. OpIdGen(x) \notin Issued
  <2>1. ASSUME NEW n \in 1..(x - 1)
        PROVE  OpIdGen(n) # OpIdGen(x)
    BY <1>2
  <2>2. QED
    BY <2>1 DEF Issued
<1>5. ASSUME x' = x + 1
      PROVE  Issued' = Issued \cup {OpIdGen(x)}
  <2>1. 1..(x' - 1) = (1..(x - 1)) \cup {x}
    BY <1>5
  <2>2. Issued' = {OpIdGen(n) : n \in 1..(x' - 1)}
    BY DEF Issued, OpIdGen
  <2>3. QED
    BY <2>1, <2>2 DEF Issued
<1>6. x' = x => Issued' = Issued
  BY DEF Issued, OpIdGen
<1>7. QED
  BY <1>3, <1>4, <1>5, <1>6

\* The messages the client writes.
LEMMA Words ==
  /\ Ready \in Message /\ Finished \in Message
  /\ \A o \in Operation : Result(o) \in Message
  /\ \A o : Result(o) # Ready /\ Result(o) # Finished
  /\ \A o, p : Result(o) = Result(p) => o = p
<1>1. \A o : Result(o).kind = "result" /\ Result(o).op = o
  BY DEF Result
<1>2. Ready.kind = "ready" /\ Finished.kind = "finished"
  BY DEF Ready, Finished
<1>3. \A o : Result(o) # Ready /\ Result(o) # Finished
  BY <1>1, <1>2
<1>4. \A o, p : Result(o) = Result(p) => o = p
  BY <1>1
<1>5. \A o \in Operation : Result(o) \in [kind : {"result"}, op : Operation]
  BY DEF Result
<1>6. QED
  BY <1>3, <1>4, <1>5 DEF Message

\* A message more on stdout is one result more, or none.
LEMMA WrittenGrows ==
  ASSUME stdout \in Seq(Message), NEW m \in Message,
         stdout' = Append(stdout, m)
  PROVE  Written' = {o \in Operation : o \in Written \/ m = Result(o)}
<1>1. /\ Len(stdout) \in Nat /\ Len(stdout') = Len(stdout) + 1
      /\ \A k \in 1..Len(stdout) : stdout'[k] = stdout[k]
      /\ stdout'[Len(stdout) + 1] = m
  OBVIOUS
<1>2. ASSUME NEW o \in Operation
      PROVE  (\E k \in 1..Len(stdout') : stdout'[k] = Result(o))
               <=> \/ \E k \in 1..Len(stdout) : stdout[k] = Result(o)
                   \/ m = Result(o)
  <2>1. ASSUME NEW k \in 1..Len(stdout'), stdout'[k] = Result(o)
        PROVE  \/ \E j \in 1..Len(stdout) : stdout[j] = Result(o)
               \/ m = Result(o)
    <3>1. k \in 1..Len(stdout) \/ k = Len(stdout) + 1
      BY <1>1
    <3>2. QED
      BY <1>1, <2>1, <3>1
  <2>2. ASSUME NEW k \in 1..Len(stdout), stdout[k] = Result(o)
        PROVE  \E j \in 1..Len(stdout') : stdout'[j] = Result(o)
    BY <1>1, <2>2
  <2>3. m = Result(o) => \E j \in 1..Len(stdout') : stdout'[j] = Result(o)
    BY <1>1
  <2>4. QED
    BY <2>1, <2>2, <2>3
<1>3. QED
  BY <1>2 DEF Written

-----------------------------------------------------------------------------
(* What the steps of the main fiber take.                                  *)

\* The operation that is taken is one that was left.
LEMMA NextOpIs ==
  ASSUME TypeOK, NextOp
  PROVE  \E o \in reqs : /\ cur' = Request(OpIdGen(x), o)
                         /\ reqs' = reqs \ {o}
<1> DEFINE o == CHOOSE o \in reqs : \A p \in reqs : o <= p
<1>1. cur' = Request(OpIdGen(x), o) /\ reqs' = reqs \ {o}
  BY DEF NextOp
<1>2. o \in reqs
  BY LeastIs, OperationAssumption DEF NextOp, TypeOK
<1>3. QED
  BY <1>1, <1>2

\* The result that is sent is of an operation on record.
LEMMA SendResultIs ==
  ASSUME TypeOK, SendResult
  PROVE  \E k \in collating :
           /\ collating' = collating \ {k}
           /\ k \in DOMAIN operations
           /\ operations[k] \in Operation
           /\ stdout' = Append(stdout, Result(operations[k]))
<1> DEFINE k == CHOOSE r \in collating : \A q \in collating : r <= q
<1>1. k \in collating
  BY LeastIs, NewId DEF SendResult, TypeOK
<1>2. /\ collating' = collating \ {k}
      /\ stdout' = IF k \in DOMAIN operations
                   THEN Append(stdout, Result(operations[k])) ELSE stdout
  BY DEF SendResult
<1>3. k \in DOMAIN operations /\ operations[k] \in Operation
  BY <1>1 DEF TypeOK
<1>4. QED
  BY <1>1, <1>2, <1>3

-----------------------------------------------------------------------------
(* Types.                                                                  *)

\* Every step keeps the types.
LEMMA TypeStep ==
  ASSUME TypeOK, OwnIds, [Next]_vars
  PROVE  TypeOK'
<1>0. /\ Operation \subseteq Nat /\ OpIdGen(x) \in Nat /\ Issued \subseteq Nat
      /\ x' = x + 1 => Issued' = Issued \cup {OpIdGen(x)}
      /\ x' = x => Issued' = Issued
      /\ TRUE \in BOOLEAN /\ FALSE \in BOOLEAN
  BY NewId, OperationAssumption DEF TypeOK
<1> USE DEF TypeOK
<1>1. ASSUME NEW o \in Operation, RecvPrereq(o)
      PROVE  TypeOK'
  <2> DEFINE r == Request(OpIdGen(x), o)
  <2>1. r \in [rid : Nat, op : Nat] /\ r.rid = OpIdGen(x)
    BY <1>0 DEF Request
  <2>2. PICK b \in BOOLEAN : prereqs' = Set(prereqs, r.rid, b)
    BY <1>0, <1>1 DEF RecvPrereq
  <2>3. prereqs' \in [DOMAIN prereqs' -> BOOLEAN]
    BY <2>2, SetType
  <2>4. DOMAIN prereqs' = DOMAIN prereqs \cup {OpIdGen(x)}
    BY <2>1, <2>2, SetDomain, Zenon
  <2>5. inflight' \subseteq inflight \cup {r} /\ cur' = r
    BY <1>1 DEF RecvPrereq, Reaches, Lost
  <2>6. x' = x + 1 /\ x' \in Nat \ {0}
    BY <1>1 DEF RecvPrereq
  <2>7. /\ fresh' \subseteq Operation /\ main' \in Points
        /\ UNCHANGED <<reqs, operations, results, stop, collating, stdout,
                       heard>>
    BY <1>1 DEF RecvPrereq, Points
  <2> HIDE DEF r
  <2>8. QED
    BY <1>0, <2>1, <2>3, <2>4, <2>5, <2>6, <2>7
<1>2. ASSUME NEW o \in Operation, RecvOp(o)
      PROVE  TypeOK'
  BY <1>0, <1>2 DEF RecvOp
<1>3. CASE RetryReaches
  BY <1>0, <1>3 DEF RetryReaches, Reaches
<1>4. CASE RetryRaises
  <2>1. prereqs' = Set(prereqs, cur.rid, TRUE)
    BY <1>4 DEF RetryRaises
  <2>2. prereqs' \in [DOMAIN prereqs' -> BOOLEAN]
    BY <1>0, <2>1, SetType
  <2>3. DOMAIN prereqs' = DOMAIN prereqs
    <3>1. cur.rid \in DOMAIN prereqs
      BY <1>4 DEF RetryRaises, OwnIds
    <3>2. DOMAIN prereqs' = DOMAIN prereqs \cup {cur.rid}
      BY <2>1, SetDomain, Zenon
    <3>3. QED
      BY <3>1, <3>2
  <2>4. QED
    BY <1>0, <1>4, <2>2, <2>3 DEF RetryRaises
<1>5. CASE PrereqDone
  <2>1. NoRequest \in [rid : Nat, op : Nat]
    BY DEF NoRequest, Request
  <2>2. QED
    BY <1>0, <1>5, <2>1 DEF PrereqDone, Points
<1>6. CASE RecvFinalise \/ SendFinished
  <2>1. PICK m \in Message : stdout' = Append(stdout, m)
    BY <1>6, Words DEF RecvFinalise, SendFinished
  <2>2. stdout' \in Seq(Message)
    BY <2>1
  <2>3. QED
    BY <1>0, <1>6, <2>2 DEF RecvFinalise, SendFinished, Points
<1>7. CASE RecvStart \/ RecvFails
  BY <1>0, <1>7 DEF RecvStart, RecvFails, Points
<1>8. CASE NextOp
  <2>1. PICK o \in reqs : /\ cur' = Request(OpIdGen(x), o)
                          /\ reqs' = reqs \ {o}
    BY <1>8, NextOpIs
  <2>2. cur' \in [rid : Nat, op : Nat]
    BY <1>0, <2>1 DEF Request
  <2>3. x' = x + 1 /\ x' \in Nat \ {0}
    BY <1>8 DEF NextOp
  <2>4. QED
    BY <1>0, <1>8, <2>1, <2>2, <2>3 DEF NextOp, Points
<1>9. CASE Submit
  <2>1. operations' = Set(operations, cur.rid, cur.op) /\ main = "aim"
    BY <1>9 DEF Submit
  <2>2. cur.op \in Operation /\ cur.rid \in Issued
    BY <2>1 DEF OwnIds
  <2>3. operations' \in [DOMAIN operations' -> Operation]
    BY <2>1, <2>2, SetType
  <2>4. DOMAIN operations' = DOMAIN operations \cup {cur.rid}
    BY <2>1, SetDomain
  <2>5. NoRequest \in [rid : Nat, op : Nat]
    BY DEF NoRequest, Request
  <2>6. /\ inflight' \subseteq inflight \cup {cur}
        /\ results' \subseteq results \cup {cur.rid} /\ results \subseteq results'
        /\ heard' \subseteq heard \cup {cur.op}
    BY <1>9 DEF Submit, Reaches, Lost
  <2>7. QED
    BY <1>0, <1>9, <2>2, <2>3, <2>4, <2>5, <2>6 DEF Submit, Points
<1>10. CASE StopAndCollate
  BY <1>0, <1>10 DEF StopAndCollate, Points
<1>11. CASE SendResult
  <2>1. PICK o \in Operation : /\ stdout' = Append(stdout, Result(o))
                               /\ collating' \subseteq collating
    BY <1>11, SendResultIs
  <2>2. stdout' \in Seq(Message)
    BY <2>1, Words
  <2>3. QED
    BY <1>0, <1>11, <2>1, <2>2 DEF SendResult
<1>12. ASSUME NEW r \in inflight, Respond(r)
       PROVE  TypeOK'
  <2>1. /\ \/ UNCHANGED prereqs
           \/ r.rid \in DOMAIN prereqs /\ prereqs' = Set(prereqs, r.rid, TRUE)
        /\ \/ UNCHANGED results
           \/ r.rid \in DOMAIN operations /\ results' = results \cup {r.rid}
        /\ UNCHANGED collating
    BY <1>12 DEF Respond, Callback
  <2>2. prereqs' \in [DOMAIN prereqs' -> BOOLEAN]
    <3>1. CASE UNCHANGED prereqs
      BY <3>1, Zenon
    <3>2. CASE prereqs' = Set(prereqs, r.rid, TRUE)
      BY <1>0, <3>2, SetType
    <3>3. QED
      BY <2>1, <3>1, <3>2
  <2>3. DOMAIN prereqs' = DOMAIN prereqs
    <3>1. CASE UNCHANGED prereqs
      BY <3>1
    <3>2. CASE /\ r.rid \in DOMAIN prereqs
               /\ prereqs' = Set(prereqs, r.rid, TRUE)
      <4>1. DOMAIN prereqs' = DOMAIN prereqs \cup {r.rid}
        BY <3>2, SetDomain, Zenon
      <4>2. QED
        BY <3>2, <4>1
    <3>3. QED
      BY <2>1, <3>1, <3>2
  <2>4. heard' \subseteq Operation
    BY <1>12 DEF Respond
  <2>5. QED
    BY <1>0, <1>12, <2>1, <2>2, <2>3, <2>4 DEF Respond
<1>13. CASE UNCHANGED vars
  BY <1>0, <1>13 DEF vars
<1>14. QED
  BY <1>1, <1>2, <1>3, <1>4, <1>5, <1>6, <1>7, <1>8, <1>9, <1>10, <1>11,
     <1>12, <1>13 DEF Next, MainStep


-----------------------------------------------------------------------------
(* Where operations and ids are.                                           *)

Known == fresh \cup reqs \cup Submitted \cup Aimed

\* A step that keeps what requests under way stand for.
LEMMA StillTraced ==
  ASSUME Traced, Known' \subseteq Known, DOMAIN prereqs \subseteq DOMAIN prereqs',
         \A k \in DOMAIN operations : /\ k \in DOMAIN operations'
                                      /\ operations'[k] = operations[k],
         main' = "prereq" => IsPrereq(cur)',
         \A r \in inflight' \ inflight :
           \/ IsPrereq(r)'
           \/ r.rid \in DOMAIN operations' /\ operations'[r.rid] = r.op
  PROVE  Traced'
<1>1. ASSUME NEW r \in inflight'
      PROVE  \/ IsPrereq(r)'
             \/ r.rid \in DOMAIN operations' /\ operations'[r.rid] = r.op
  <2>1. CASE r \in inflight
    BY <2>1 DEF Traced, IsPrereq, Known
  <2>2. CASE r \notin inflight
    BY <1>1, <2>2
  <2>3. QED
    BY <2>1, <2>2
<1>2. QED
  BY <1>1 DEF Traced

\* A step that leaves the tables, but for resolving a promise, and what is
\* aimed at.
LEMMA ShapeKept ==
  ASSUME Apart, OwnIds, Traced, UNCHANGED <<fresh, reqs, operations>>,
         DOMAIN prereqs' = DOMAIN prereqs, Aimed' = Aimed,
         inflight' \subseteq inflight \cup (IF main = "prereq" THEN {cur} ELSE {}),
         \/ main' \notin {"prereq", "aim"}
         \/ main' = main /\ cur' = cur /\ Issued' = Issued
  PROVE  Apart' /\ OwnIds' /\ Traced'
<1>1. Submitted' = Submitted
  BY DEF Submitted
<1>2. Apart'
  BY <1>1 DEF Apart
<1>3. OwnIds'
  BY DEF OwnIds
<1>4. \A r : IsPrereq(r) => IsPrereq(r)'
  BY <1>1 DEF IsPrereq
<1>5. Traced'
  BY <1>4 DEF Traced
<1>6. QED
  BY <1>2, <1>3, <1>5

\* Every step keeps operations in one place and ids their own.
LEMMA ShapeStep ==
  ASSUME TypeOK, Apart, OwnIds, Traced, [Next]_vars
  PROVE  Apart' /\ OwnIds' /\ Traced'
<1>0. /\ OpIdGen(x) \notin Issued
      /\ x' = x + 1 => Issued' = Issued \cup {OpIdGen(x)}
      /\ x' = x => Issued' = Issued
      /\ DOMAIN prereqs \subseteq Issued /\ DOMAIN operations \subseteq Issued
      /\ fresh \subseteq Operation /\ reqs \subseteq Operation
  BY NewId DEF TypeOK
<1>1. ASSUME NEW o \in Operation, RecvPrereq(o)
      PROVE  Apart' /\ OwnIds' /\ Traced'
  <2>1. /\ main = "preload" /\ main' = "prereq" /\ x' = x + 1
        /\ o \in fresh /\ fresh' = fresh \ {o}
        /\ UNCHANGED <<reqs, operations>>
        /\ cur' = Request(OpIdGen(x), o)
        /\ inflight' \subseteq inflight \cup {cur'}
    BY <1>1 DEF RecvPrereq, Reaches, Lost
  <2>2. cur'.rid = OpIdGen(x) /\ cur'.op = o
    BY <2>1 DEF Request
  <2>3. DOMAIN prereqs' = DOMAIN prereqs \cup {OpIdGen(x)}
    <3>1. PICK b : prereqs' = Set(prereqs, cur'.rid, b)
      BY <1>1 DEF RecvPrereq
    <3>2. QED
      BY <2>2, <3>1, SetDomain, Zenon
  <2>4. Aimed = {} /\ Aimed' = {} /\ Submitted' = Submitted
    BY <2>1 DEF Aimed, Submitted
  <2>5. Apart'
    BY <2>1, <2>4 DEF Apart
  <2>6. OwnIds'
    BY <1>0, <2>1, <2>2, <2>3 DEF OwnIds
  <2>7. IsPrereq(cur)'
    BY <2>1, <2>2, <2>3, <2>4 DEF IsPrereq, Apart
  <2>8. \A r \in inflight' \ inflight : IsPrereq(r)'
    BY <2>1, <2>7 DEF IsPrereq
  <2>9. Traced'
    BY <2>1, <2>3, <2>4, <2>7, <2>8, StillTraced DEF Known
  <2>10. QED
    BY <2>5, <2>6, <2>9
<1>2. ASSUME NEW o \in Operation, RecvOp(o)
      PROVE  Apart' /\ OwnIds' /\ Traced'
  <2>1. /\ main = "preload" /\ UNCHANGED <<main, prereqs, operations, inflight>>
        /\ o \in fresh /\ fresh' = fresh \ {o} /\ reqs' = reqs \cup {o}
    BY <1>2 DEF RecvOp
  <2>2. Aimed = {} /\ Aimed' = {} /\ Submitted' = Submitted
    BY <2>1 DEF Aimed, Submitted
  <2>3. Apart'
    BY <2>1, <2>2 DEF Apart
  <2>4. OwnIds'
    BY <2>1 DEF OwnIds
  <2>5. Traced'
    BY <2>1, <2>2, StillTraced DEF Known
  <2>6. QED
    BY <2>3, <2>4, <2>5
<1>3. CASE RetryReaches
  BY <1>0, <1>3, ShapeKept DEF RetryReaches, Reaches, Aimed
<1>4. CASE RetryRaises
  <2>1. cur.rid \in DOMAIN prereqs
    BY <1>4 DEF RetryRaises, OwnIds
  <2>2. prereqs' = Set(prereqs, cur.rid, TRUE)
    BY <1>4 DEF RetryRaises
  <2>3. DOMAIN prereqs' = DOMAIN prereqs \cup {cur.rid}
    BY <2>2, SetDomain, Zenon
  <2>4. DOMAIN prereqs' = DOMAIN prereqs
    BY <2>1, <2>3
  <2>5. QED
    BY <1>0, <1>4, <2>4, ShapeKept DEF RetryRaises, Aimed
<1>5. CASE PrereqDone \/ RecvFinalise \/ RecvStart \/ RecvFails
  BY <1>5, ShapeKept DEF PrereqDone, RecvFinalise, RecvStart, RecvFails, Aimed
<1>6. CASE StopAndCollate \/ SendResult \/ SendFinished
  BY <1>6, ShapeKept DEF StopAndCollate, SendResult, SendFinished, Aimed
<1>7. CASE NextOp
  <2>1. PICK o \in reqs : /\ cur' = Request(OpIdGen(x), o)
                          /\ reqs' = reqs \ {o}
    BY <1>7, NextOpIs
  <2>2. /\ main = "execute" /\ main' = "aim" /\ x' = x + 1
        /\ UNCHANGED <<fresh, prereqs, operations, inflight>>
    BY <1>7 DEF NextOp
  <2>3. cur'.rid = OpIdGen(x) /\ cur'.op = o
    BY <2>1 DEF Request
  <2>4. Aimed = {} /\ Aimed' = {o} /\ Submitted' = Submitted
    BY <2>2, <2>3 DEF Aimed, Submitted
  <2>5. Apart'
    BY <2>1, <2>2, <2>4 DEF Apart
  <2>6. OwnIds'
    BY <1>0, <2>1, <2>2, <2>3 DEF OwnIds
  <2>7. Traced'
    BY <2>1, <2>2, <2>4, StillTraced DEF Known
  <2>8. QED
    BY <2>5, <2>6, <2>7
<1>8. CASE Submit
  <2>1. /\ main = "aim" /\ main' = "execute" /\ UNCHANGED <<fresh, reqs, prereqs>>
        /\ operations' = Set(operations, cur.rid, cur.op)
        /\ inflight' \subseteq inflight \cup {cur}
    BY <1>8 DEF Submit, Reaches, Lost
  <2>2. /\ cur.rid \notin DOMAIN operations /\ cur.rid \notin DOMAIN prereqs
        /\ Aimed = {cur.op}
    BY <2>1 DEF OwnIds, Aimed
  <2>3. /\ DOMAIN operations' = DOMAIN operations \cup {cur.rid}
        /\ operations'[cur.rid] = cur.op
        /\ \A k \in DOMAIN operations : operations'[k] = operations[k]
    BY <2>1, <2>2 DEF Set
  <2>4. Aimed' = {} /\ Submitted' = Submitted \cup {cur.op}
    <3>1. Submitted' = {operations'[k] : k \in DOMAIN operations'}
      BY DEF Submitted
    <3>2. QED
      BY <2>1, <2>3, <3>1 DEF Aimed, Submitted
  <2>5. \A j, k \in DOMAIN operations' : operations'[j] = operations'[k] => j = k
    <3>1. \A k \in DOMAIN operations : operations[k] # cur.op
      BY <2>2 DEF Apart, Submitted
    <3>2. QED
      BY <2>3, <3>1 DEF Apart
  <2>6. Apart'
    BY <2>1, <2>2, <2>4, <2>5 DEF Apart
  <2>7. OwnIds'
    BY <2>1, <2>2, <2>3 DEF OwnIds
  <2>8. Traced'
    BY <2>1, <2>2, <2>3, <2>4, StillTraced DEF Known
  <2>9. QED
    BY <2>6, <2>7, <2>8
<1>9. ASSUME NEW r \in inflight, Respond(r)
      PROVE  Apart' /\ OwnIds' /\ Traced'
  <2>1. \/ UNCHANGED prereqs
        \/ r.rid \in DOMAIN prereqs /\ prereqs' = Set(prereqs, r.rid, TRUE)
    BY <1>9 DEF Respond, Callback
  <2>2. DOMAIN prereqs' = DOMAIN prereqs
    <3>1. CASE UNCHANGED prereqs
      BY <3>1
    <3>2. CASE /\ r.rid \in DOMAIN prereqs
               /\ prereqs' = Set(prereqs, r.rid, TRUE)
      <4>1. DOMAIN prereqs' = DOMAIN prereqs \cup {r.rid}
        BY <3>2, SetDomain, Zenon
      <4>2. QED
        BY <3>2, <4>1
    <3>3. QED
      BY <2>1, <3>1, <3>2
  <2>3. QED
    BY <1>0, <1>9, <2>2, ShapeKept DEF Respond, Aimed
<1>10. CASE UNCHANGED vars
  BY <1>0, <1>10, ShapeKept DEF vars, Aimed
<1>11. QED
  BY <1>1, <1>2, <1>3, <1>4, <1>5, <1>6, <1>7, <1>8, <1>9, <1>10
  DEF Next, MainStep


-----------------------------------------------------------------------------
(* What is heard and what is written.                                      *)

\* What was heard is kept when its tables are.
LEMMA HeardKept ==
  ASSUME Heard, UNCHANGED <<operations, results, collating, heard, stop>>,
         Written' = Written,
         main' \in {"collate", "exited"} <=> main \in {"collate", "exited"},
         main' = "exited" => main = "exited" \/ collating = {}
  PROVE  Heard'
BY DEF Heard

\* Every step keeps what is written what was heard.
LEMMA HeardStep ==
  ASSUME TypeOK, Apart, OwnIds, Traced, Heard, [Next]_vars
  PROVE  Heard'
<1>0. /\ stdout \in Seq(Message)
      /\ UNCHANGED stdout => Written' = Written
      /\ results \subseteq DOMAIN operations /\ collating \subseteq results
  BY DEF TypeOK, Written
<1>1. ASSUME NEW o \in Operation, RecvPrereq(o) \/ RecvOp(o)
      PROVE  Heard'
  BY <1>0, <1>1, HeardKept DEF RecvPrereq, RecvOp
<1>2. CASE RetryReaches \/ RetryRaises \/ PrereqDone \/ RecvStart \/ RecvFails
  BY <1>0, <1>2, HeardKept DEF RetryReaches, RetryRaises, PrereqDone,
     RecvStart, RecvFails
<1>3. CASE NextOp
  BY <1>0, <1>3, HeardKept DEF NextOp
<1>4. CASE RecvFinalise \/ SendFinished
  <2>1. PICK m \in {Ready, Finished} : stdout' = Append(stdout, m)
    BY <1>4 DEF RecvFinalise, SendFinished
  <2>2. Written' = Written
    BY <1>0, <2>1, WrittenGrows, Words DEF Written
  <2>3. QED
    BY <1>4, <2>2, HeardKept DEF RecvFinalise, SendFinished
<1>5. CASE Submit
  <2>1. /\ main = "aim" /\ main' = "execute"
        /\ UNCHANGED <<stop, collating, stdout>>
        /\ operations' = Set(operations, cur.rid, cur.op)
        /\ \/ UNCHANGED <<results, heard>>
           \/ results' = results \cup {cur.rid} /\ heard' = heard \cup {cur.op}
    BY <1>5 DEF Submit
  <2>2. cur.rid \notin DOMAIN operations
    BY <2>1 DEF OwnIds
  <2>3. /\ operations'[cur.rid] = cur.op
        /\ \A k \in DOMAIN operations : operations'[k] = operations[k]
    BY <2>1, <2>2 DEF Set
  <2>4. ~stop /\ heard = {operations[k] : k \in results}
    BY <2>1 DEF Heard
  <2>5. heard' = {operations'[k] : k \in results'}
    <3>1. {operations'[k] : k \in results} = {operations[k] : k \in results}
      BY <1>0, <2>3
    <3>2. CASE UNCHANGED <<results, heard>>
      BY <2>4, <3>1, <3>2
    <3>3. CASE results' = results \cup {cur.rid} /\ heard' = heard \cup {cur.op}
      BY <2>3, <2>4, <3>1, <3>3
    <3>4. QED
      BY <2>1, <3>2, <3>3
  <2>6. Written' = {} /\ collating' = {} /\ ~stop'
    BY <1>0, <2>1, <2>4 DEF Heard
  <2>7. QED
    BY <2>1, <2>5, <2>6 DEF Heard
<1>6. CASE StopAndCollate
  <2>1. /\ main = "execute" /\ main' = "collate" /\ stop' /\ collating' = results
        /\ UNCHANGED <<operations, results, heard, stdout>>
    BY <1>6 DEF StopAndCollate
  <2>2. Written' = {}
    BY <1>0, <2>1 DEF Heard
  <2>3. QED
    BY <2>1, <2>2 DEF Heard
<1>7. CASE SendResult
  <2>1. PICK k \in collating :
           /\ collating' = collating \ {k}
           /\ k \in DOMAIN operations
           /\ operations[k] \in Operation
           /\ stdout' = Append(stdout, Result(operations[k]))
    BY <1>7, SendResultIs
  <2>2. Written' = Written \cup {operations[k]}
    BY <1>0, <2>1, WrittenGrows, Words DEF Written
  <2>3. /\ main = "collate" /\ UNCHANGED <<main, operations, results, stop, heard>>
    BY <1>7 DEF SendResult
  <2>4. /\ {operations[j] : j \in collating}
             = {operations[j] : j \in collating'} \cup {operations[k]}
        /\ operations[k] \notin {operations[j] : j \in collating'}
    BY <1>0, <2>1 DEF Apart
  <2>5. QED
    BY <2>1, <2>2, <2>3, <2>4, ZenonT(40) DEF Heard
<1>8. ASSUME NEW r \in inflight, Respond(r)
      PROVE  Heard'
  <2>1. /\ UNCHANGED <<main, operations, stop, stdout, collating>>
        /\ heard' = IF ~stop /\ r.op \in Submitted
                    THEN heard \cup {r.op} ELSE heard
    BY <1>8 DEF Respond, Callback, Submitted
  <2>2. CASE stop
    BY <1>0, <1>8, <2>1, <2>2, HeardKept DEF Respond, Callback
  <2>3. CASE ~stop /\ IsPrereq(r)
    <3>1. r.op \notin Submitted /\ r.rid \notin DOMAIN operations
      BY <2>3 DEF IsPrereq, OwnIds
    <3>2. UNCHANGED results
      BY <1>8, <2>3, <3>1 DEF Respond, Callback
    <3>3. QED
      BY <1>0, <2>1, <3>1, <3>2, HeardKept
  <2>4. CASE ~stop /\ r.rid \in DOMAIN operations /\ operations[r.rid] = r.op
    <3>1. r.op \in Submitted /\ r.rid \notin DOMAIN prereqs
      BY <2>4 DEF Submitted, OwnIds
    <3>2. results' = results \cup {r.rid}
      BY <1>8, <2>4, <3>1 DEF Respond, Callback
    <3>3. heard' = {operations'[k] : k \in results'}
      BY <2>1, <2>4, <3>1, <3>2 DEF Heard
    <3>4. Written' = {} /\ collating' = {} /\ ~stop'
      BY <1>0, <2>1, <2>4 DEF Heard
    <3>5. QED
      BY <2>1, <3>3, <3>4 DEF Heard
  <2>5. QED
    BY <1>8, <2>2, <2>3, <2>4 DEF Traced
<1>9. CASE UNCHANGED vars
  BY <1>0, <1>9, HeardKept DEF vars
<1>10. QED
  BY <1>1, <1>2, <1>3, <1>4, <1>5, <1>6, <1>7, <1>8, <1>9 DEF Next, MainStep

\* Every step of the client keeps the invariant.
LEMMA Invariance == Spec => []Inv
<1>1. Init => Inv
  <2> SUFFICES ASSUME Init PROVE Inv
    OBVIOUS
  <2>1. TypeOK
    <3>1. NoRequest \in [rid : Nat, op : Nat]
      BY DEF NoRequest, Request
    <3>2. <<>> \in Seq(Message) /\ DOMAIN <<>> = {}
      OBVIOUS
    <3>3. prereqs \in [DOMAIN prereqs -> BOOLEAN]
          /\ operations \in [DOMAIN operations -> Operation]
      BY <3>2 DEF Init
    <3>4. stop \in BOOLEAN
      BY Zenon DEF Init
    <3>5. QED
      BY <3>1, <3>2, <3>3, <3>4 DEF Init, TypeOK, Points
  <2>2. DOMAIN operations = {} /\ DOMAIN prereqs = {} /\ Submitted = {}
        /\ Aimed = {} /\ Written = {}
    BY DEF Init, Submitted, Aimed, Written
  <2>3. Apart /\ OwnIds /\ Traced /\ Heard
    BY <2>2 DEF Init, Apart, OwnIds, Traced, Heard
  <2>4. QED
    BY <2>1, <2>3 DEF Inv
<1>2. Inv /\ [Next]_vars => Inv'
  BY TypeStep, ShapeStep, HeardStep DEF Inv
<1>3. QED
  BY <1>1, <1>2, PTL DEF Spec

\* The variables keep their types, and every id in a table was given out.
THEOREM TypeCorrect == Spec => []TypeOK
<1>1. Inv => TypeOK
  BY DEF Inv
<1>2. QED
  BY <1>1, Invariance, PTL

\* The client reports exactly the operations that were answered before
\* stop_barrier, however requests are lost, repeated or answered late.
THEOREM ReportsAreExact == Spec => []ReportsWhatItHeard
<1>1. Inv => ReportsWhatItHeard
  BY DEF Inv, Heard, ReportsWhatItHeard
<1>2. QED
  BY <1>1, Invariance, PTL

-----------------------------------------------------------------------------
(* The conversation with the generator.                                    *)

\* Every step of the client is one of the protocol, or none.
LEMMA ProtocolStep ==
  ASSUME Inv, [Next]_vars
  PROVE  [Protocol!Next]_(Protocol!vars)
<1>0. /\ pending = (reqs \cup Submitted \cup Aimed) \ Written
      /\ pending' = (reqs' \cup Submitted' \cup Aimed') \ Written'
      /\ UNCHANGED stdout => Written' = Written
      /\ UNCHANGED operations => Submitted' = Submitted
      /\ stdout \in Seq(Message) /\ TypeOK /\ Apart
      /\ Written \subseteq Submitted
  <2>1. Written \subseteq Submitted
    BY DEF Inv, TypeOK, Heard, Submitted
  <2>2. QED
    BY <2>1 DEF pending, Submitted, Aimed, Written, Inv, TypeOK
<1>1. ASSUME UNCHANGED <<phase, stdout>>,
             reqs' \cup Submitted' \cup Aimed' = reqs \cup Submitted \cup Aimed
      PROVE  [Protocol!Next]_(Protocol!vars)
  BY <1>0, <1>1 DEF Protocol!vars
<1>2. ASSUME NEW m \in {Ready, Finished}, stdout' = Append(stdout, m),
             UNCHANGED <<reqs, operations>>, Aimed' = Aimed
      PROVE  UNCHANGED pending
  <2>1. Written' = Written
    BY <1>0, <1>2, WrittenGrows, Words DEF Written
  <2>2. QED
    BY <1>0, <1>2, <2>1
<1>3. CASE RecvFinalise
  <2>1. phase = "preload" /\ phase' = "ready" /\ Aimed' = Aimed
    BY <1>3 DEF RecvFinalise, phase, Aimed
  <2>2. stdout' = Append(stdout, Ready) /\ UNCHANGED <<reqs, operations>>
    BY <1>3 DEF RecvFinalise
  <2>3. Protocol!BecomeReady
    BY <1>2, <2>1, <2>2 DEF Protocol!BecomeReady, Ready, Protocol!Ready
  <2>4. QED
    BY <2>3 DEF Protocol!Next
<1>4. CASE SendFinished
  <2>1. phase = "running" /\ phase' = "finished" /\ Aimed' = Aimed
    BY <1>4 DEF SendFinished, phase, Aimed
  <2>2. stdout' = Append(stdout, Finished) /\ UNCHANGED <<reqs, operations>>
    BY <1>4 DEF SendFinished
  <2>3. Protocol!Finish
    BY <1>2, <2>1, <2>2 DEF Protocol!Finish, Finished, Protocol!Finished
  <2>4. QED
    BY <2>3 DEF Protocol!Next
<1>5. CASE RecvStart \/ RecvFails
  <2>1. UNCHANGED <<reqs, operations, stdout>> /\ Aimed' = Aimed
    BY <1>5 DEF RecvStart, RecvFails, Aimed
  <2>2. UNCHANGED pending
    BY <1>0, <2>1
  <2>3. CASE RecvStart
    <3>1. phase = "ready" /\ phase' = "running"
      BY <2>3 DEF RecvStart, phase
    <3>2. Protocol!Start
      BY <2>1, <2>2, <3>1 DEF Protocol!Start
    <3>3. QED
      BY <3>2 DEF Protocol!Next
  <2>4. CASE RecvFails
    <3>1. phase \in {"preload", "ready"} /\ phase' = "failed"
      BY <2>4 DEF RecvFails, phase
    <3>2. Protocol!Fail
      BY <2>1, <2>2, <3>1 DEF Protocol!Fail
    <3>3. QED
      BY <3>2 DEF Protocol!Next
  <2>5. QED
    BY <1>5, <2>3, <2>4
<1>6. ASSUME NEW o \in Operation, RecvOp(o)
      PROVE  [Protocol!Next]_(Protocol!vars)
  <2>1. /\ main = "preload" /\ UNCHANGED <<main, operations, stdout>>
        /\ o \in fresh /\ reqs' = reqs \cup {o}
    BY <1>6 DEF RecvOp
  <2>2. phase = "preload" /\ UNCHANGED phase /\ Aimed = {} /\ Aimed' = {}
    BY <2>1 DEF phase, Aimed
  <2>3. o \notin pending /\ pending' = pending \cup {o}
    BY <1>0, <2>1, <2>2 DEF Apart
  <2>4. Protocol!Preload(o)
    BY <2>1, <2>2, <2>3 DEF Protocol!Preload
  <2>5. QED
    BY <2>4 DEF Protocol!Next
<1>7. ASSUME NEW o \in Operation, RecvPrereq(o)
      PROVE  [Protocol!Next]_(Protocol!vars)
  <2>1. UNCHANGED <<reqs, operations, stdout, phase>> /\ Aimed' = Aimed
    BY <1>7 DEF RecvPrereq, phase, Aimed
  <2>2. QED
    BY <1>0, <1>1, <2>1
<1>8. CASE RetryReaches \/ RetryRaises \/ PrereqDone \/ StopAndCollate
  <2>1. UNCHANGED <<reqs, operations, stdout>>
    BY <1>8 DEF RetryReaches, RetryRaises, PrereqDone, StopAndCollate
  <2>2. UNCHANGED phase /\ Aimed' = Aimed
    BY <1>8 DEF RetryReaches, RetryRaises, PrereqDone, StopAndCollate, phase,
       Aimed
  <2>3. QED
    BY <1>0, <1>1, <2>1, <2>2
<1>9. CASE NextOp
  <2>1. PICK o \in reqs : /\ cur' = Request(OpIdGen(x), o)
                          /\ reqs' = reqs \ {o}
    BY <1>0, <1>9, NextOpIs
  <2>2. Aimed = {} /\ Aimed' = {o}
    <3>1. main = "execute" /\ main' = "aim"
      BY <1>9 DEF NextOp
    <3>2. cur'.op = o
      BY <2>1 DEF Request
    <3>3. QED
      BY <3>1, <3>2 DEF Aimed
  <2>3. UNCHANGED <<stdout, operations, phase>>
    BY <1>9 DEF NextOp, phase
  <2>4. QED
    BY <1>0, <1>1, <2>1, <2>2, <2>3
<1>10. CASE Submit
  <2>1. /\ main = "aim" /\ main' = "execute" /\ UNCHANGED <<reqs, stdout>>
        /\ operations' = Set(operations, cur.rid, cur.op)
    BY <1>10 DEF Submit
  <2>2. /\ DOMAIN operations' = DOMAIN operations \cup {cur.rid}
        /\ operations'[cur.rid] = cur.op
        /\ \A k \in DOMAIN operations : operations'[k] = operations[k]
    BY <2>1 DEF Inv, OwnIds, Set
  <2>3. Submitted' = Submitted \cup {cur.op}
    <3>1. Submitted' = {operations'[k] : k \in DOMAIN operations'}
      BY DEF Submitted
    <3>2. QED
      BY <2>2, <3>1 DEF Submitted
  <2>4. Aimed = {cur.op} /\ Aimed' = {} /\ UNCHANGED phase
    BY <2>1 DEF Aimed, phase
  <2>5. QED
    BY <1>1, <2>1, <2>3, <2>4
<1>11. CASE SendResult
  <2>1. PICK k \in collating :
           /\ k \in DOMAIN operations
           /\ operations[k] \in Operation
           /\ stdout' = Append(stdout, Result(operations[k]))
    BY <1>0, <1>11, SendResultIs
  <2> DEFINE o == operations[k]
  <2>2. Written' = Written \cup {o}
    BY <1>0, <2>1, WrittenGrows, Words DEF Written
  <2>3. o \in Submitted /\ o \notin Written
    BY <2>1 DEF Submitted, Inv, Heard
  <2>4. main = "collate" /\ UNCHANGED <<main, reqs, operations>>
    BY <1>11 DEF SendResult
  <2>5. phase = "running" /\ UNCHANGED phase /\ Aimed = {} /\ Aimed' = {}
    BY <2>4 DEF phase, Aimed
  <2>6. o \in pending /\ pending' = pending \ {o}
    BY <1>0, <2>2, <2>3, <2>4, <2>5
  <2>7. Protocol!Reply(o)
    BY <2>1, <2>5, <2>6 DEF Protocol!Reply, Result, Protocol!Result
  <2>8. QED
    BY <2>1, <2>7 DEF Protocol!Next
<1>12. ASSUME NEW r \in inflight, Respond(r)
       PROVE  [Protocol!Next]_(Protocol!vars)
  <2>1. UNCHANGED <<reqs, operations, stdout, main, cur>>
    BY <1>12 DEF Respond
  <2>2. QED
    BY <1>0, <1>1, <2>1 DEF phase, Aimed
<1>13. CASE UNCHANGED vars
  BY <1>0, <1>1, <1>13 DEF vars, phase, Aimed
<1>14. QED
  BY <1>3, <1>4, <1>5, <1>6, <1>7, <1>8, <1>9, <1>10, <1>11, <1>12, <1>13
  DEF Next, MainStep

\* The OCaml client only ever does what ClientProtocol allows: ready once,
\* each loaded operation reported at most once and after start, nothing
\* after finished.
THEOREM ProtocolSafety ==
  Spec => Protocol!Init /\ [][Protocol!Next]_(Protocol!vars)
<1>1. Init => Protocol!Init
  <2> SUFFICES ASSUME Init PROVE Protocol!Init
    OBVIOUS
  <2>1. phase = "preload"
    BY DEF Init, phase
  <2>2. pending = {}
    BY DEF Init, pending
  <2>3. QED
    BY <2>1, <2>2 DEF Init, Protocol!Init
<1>2. Inv /\ [Next]_vars => [Protocol!Next]_(Protocol!vars)
  BY ProtocolStep
<1>3. QED
  BY <1>1, <1>2, Invariance, PTL DEF Spec


=============================================================================
