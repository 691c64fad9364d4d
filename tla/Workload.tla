------------------------------ MODULE Workload ------------------------------
(***************************************************************************)
(* The operation generators of the Kubernetes tests, TimedCRUD and         *)
(* TPTestCRUD, as preload of the load generator draws from them: a table   *)
(* of entries (an operation and a count), walked by _gen_op_kind, with a   *)
(* loop in TPTestCRUD's.  Operations arrive at times 0, 1, 2, ... (uniform *)
(* arrivals, in units of 1 / rate), and preload stops at the first that    *)
(* arrives at or after the duration of the test.                           *)
(*                                                                         *)
(* _op_count is incremented twice for an operation, in _gen_op_kind and    *)
(* in workload, so an entry of count n stands for n / 2 operations,        *)
(* rounded up.                                                             *)
(***************************************************************************)
EXTENDS Integers, Sequences

CONSTANTS
  Generators,  \* which generators: a subset of {"timed", "tptest"}
  Rates,       \* values of req_per_sec, the --rate of TPTestCRUD
  Durations    \* durations of the test, in arrivals

ASSUME GeneratorAssumption == Generators \subseteq {"timed", "tptest"}
ASSUME NumberAssumption ==
  Rates \subseteq Nat \ {0} /\ Durations \subseteq Nat \ {0}

VARIABLES
  generator,   \* the generator of this test
  rate,        \* its req_per_sec
  duration,    \* the duration of this test
  opCount,     \* _op_count
  opIndex,     \* _op_index, counted from 1
  looping,     \* _looping
  loopIdx,     \* _loop_idx
  loopCounter, \* _loop_counter
  sent,        \* operations sent: the next one arrives at time sent
  count,       \* how many of each kind were sent
  state        \* of preload: "running", "ended" or "raised"

params == <<generator, rate, duration>>
walk == <<opCount, opIndex, looping, loopIdx, loopCounter>>
preloadVars == <<params, walk, sent, count, state>>

Kind == {"r", "u-u", "u-d", "d"}

Entry(op, cnt) ==
  [op |-> op, cnt |-> cnt, start |-> FALSE, loops |-> 0, end |-> FALSE]

\* TimedCRUD._op_timers
TimedTable ==
  LET q == 20
      Settle == Entry("r", q * 10)
  IN <<Entry("r", q * 15),
       Entry("u-u", 1), Settle, Entry("u-d", 1), Settle,
       Entry("u-u", 1), Settle, Entry("u-d", 1), Settle,
       Entry("u-u", 1), Settle,
       Entry("d", 1), Entry("r", q * 200)>>

\* Mutant: the loop ends one entry late.
TPTestTable_LateEnd(q) ==
  <<Entry("r", q * 6),
    [Entry("u-u", 1) EXCEPT !.start = TRUE, !.loops = q * 6],
    Entry("r", 4), Entry("u-d", 1), Entry("r", 4),
    [Entry("d", 1) EXCEPT !.end = TRUE], Entry("r", q * 200)>>

\* TPTestCRUD._op_timers
TPTestTable(q) ==
  <<Entry("r", q * 6),
    [Entry("u-u", 1) EXCEPT !.start = TRUE, !.loops = q * 6],
    Entry("r", 4), Entry("u-d", 1), [Entry("r", 4) EXCEPT !.end = TRUE],
    Entry("d", 1), Entry("r", q * 200)>>

Table == IF generator = "timed" THEN TimedTable ELSE TPTestTable(rate)

PreloadInit ==
  /\ generator \in Generators
  /\ rate \in Rates
  /\ duration \in Durations
  /\ opCount = 0
  /\ opIndex = 1
  /\ looping = FALSE
  /\ loopIdx = 1
  /\ loopCounter = 0
  /\ sent = 0
  /\ count = [k \in Kind |-> 0]
  /\ state = "running"

InTable == opIndex <= Len(Table)
Current == Table[opIndex]

\* _gen_op_kind finds the current entry unfinished and workload yields its
\* operation; preload sends it unless it arrives too late.
Yield ==
  /\ state = "running" /\ InTable
  /\ opCount < Current.cnt
  /\ opCount' = opCount + 2
  /\ IF sent >= duration
     THEN state' = "ended" /\ UNCHANGED <<sent, count>>
     ELSE /\ sent' = sent + 1
          /\ count' = [count EXCEPT ![Current.op] = @ + 1]
          /\ UNCHANGED state
  /\ UNCHANGED <<params, opIndex, looping, loopIdx, loopCounter>>

\* Was that the last round of the loop?
LoopEnds(left) == left <= 0

\* Mutant: a loop that ends stays marked as running.
LeaveOrRepeat_StaysLooping ==
  LET left == loopCounter - 1 IN
  /\ loopCounter' = left
  /\ opIndex' = loopIdx + (IF LoopEnds(left) THEN 1 ELSE 0)
  /\ UNCHANGED <<looping, loopIdx>>

\* Mutant: the loop is entered at the entry after its first.
LeaveOrRepeat_SkipsFirst ==
  LET left == loopCounter - 1 IN
  /\ loopCounter' = left
  /\ opIndex' = loopIdx + 1
  /\ looping' = ~LoopEnds(left)
  /\ UNCHANGED loopIdx

\* The last entry of a running loop is finished: back to the first one, or,
\* after the last round, to the one after the first.
LeaveOrRepeat ==
  LET left == loopCounter - 1 IN
  /\ loopCounter' = left
  /\ opIndex' = loopIdx + (IF LoopEnds(left) THEN 1 ELSE 0)
  /\ looping' = ~LoopEnds(left)
  /\ UNCHANGED loopIdx

\* Any other entry is finished: the next one, and a loop may start here.
GoOn ==
  /\ opIndex' = opIndex + 1
  /\ IF Current.start /\ ~looping
     THEN looping' = TRUE /\ loopIdx' = opIndex /\ loopCounter' = Current.loops
     ELSE UNCHANGED <<looping, loopIdx, loopCounter>>

\* _gen_op_kind finds the current entry finished, and calls itself again.
Advance ==
  /\ state = "running" /\ InTable
  /\ opCount >= Current.cnt
  /\ IF Current.end /\ looping THEN LeaveOrRepeat ELSE GoOn
  /\ opCount' = 0
  /\ UNCHANGED <<params, sent, count, state>>

\* The table is exhausted: IndexError, which ends preload and the test.
OutOfRange ==
  /\ state = "running" /\ ~InTable
  /\ state' = "raised"
  /\ UNCHANGED <<params, walk, sent, count>>

PreloadNext == Yield \/ Advance \/ OutOfRange

PreloadSpec == PreloadInit /\ [][PreloadNext]_preloadVars

\* preload is a loop of one thread: it goes on while it can.
FairPreloadSpec == PreloadSpec /\ WF_preloadVars(PreloadNext)

(***************************************************************************)
(* Properties                                                              *)
(***************************************************************************)

\* However long the test, the scale-ups and scale-downs sent so far differ
\* by one at most: _op_timers alternates them, also where the loop of
\* TPTestCRUD is left, which is in its middle.
ScalingIsBalanced == count["u-u"] - count["u-d"] \in -1..1

\* The deployment is deleted once, and nothing but reads is sent after it:
\* the delete comes after the loop.
OnlyReadsAfterDelete ==
  [][count["d"] = 1 => \A k \in Kind \ {"r"} : count'[k] = count[k]]_preloadVars

\* The arrivals that the table needs before its delete.
Before == IF generator = "timed" THEN 656 ELSE 3 * rate + 36 * rate + 6

\* A test that lasts long enough gets past the loop to the delete.
DeletesInTime == duration >= Before => <>(count["d"] = 1)

\* The reads at the end pad the test, however long it is: the generator is
\* not exhausted before the test ends.
PaddingSuffices == state # "raised"

=============================================================================
