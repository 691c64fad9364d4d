------------------------------- MODULE Campaign -------------------------------
(***************************************************************************)
(* A campaign: a script of src/scripts that runs test after test, each     *)
(* with `python -m reckon', into directories of their own, is interrupted  *)
(* and started again, and tells from the files it finds which tests were   *)
(* done before.                                                            *)
(*                                                                         *)
(*   kubetest    scripts/kubetester.py: so many repetitions, into a folder *)
(*               that is scanned first                                     *)
(*   throughput, failures   kubetest_throughput and kubetest_withfailures, *)
(*               into a new folder each time                               *)
(*   edge, pi4   kubetest_repro_*: replays of earlier tests; what          *)
(*               earlier starts completed is in the folder                 *)
(*   hand        the driver run by hand, with or without --config          *)
(*   tester      scripts/tester.py, into a new folder each time            *)
(*                                                                         *)
(* Directories are numbered for their uuids, 0 is an entry of the folder   *)
(* that is not named after one.  Of the files in a directory only those    *)
(* are kept that the scripts look at, and a file may be there before it is *)
(* complete.  A crash may come between any two steps.                      *)
(***************************************************************************)
EXTENDS Options, FiniteSetsExt

CONSTANTS
  Jobs,       \* the campaigns to explore, as records
  MaxFaults   \* bound on crashes, failed set-ups and tests that die

Modes == {"kubetest", "throughput", "failures", "edge", "pi4", "hand", "tester"}

ASSUME CampaignAssumption ==
  /\ MaxFaults \in Nat
  /\ \A job \in Jobs :
       job.mode \in Modes /\ job.runs \in Nat \ {0} /\ job.variant \in 0..3

\* No two of the tests to replay began in the same second, which is what
\* they were seeded with.
ASSUME SeedAssumption ==
  \A job \in Jobs : \A j, k \in 1..Len(job.sources) :
    job.sources[j].config.key_gen_seed = job.sources[k].config.key_gen_seed
    => j = k

\* argparse insists on the positional arguments, and --config names a file.
ASSUME HandAssumption ==
  \A job \in Jobs : job.mode = "hand" =>
    /\ Positionals \subseteq DOMAIN job.cmd
    /\ job.config \in BOOLEAN /\ (job.config => Len(job.sources) > 0)

VARIABLES
  job,      \* the campaign; job.sources are the tests it replays, each
            \* with its config_full.json and the links of its config.json
  disk,     \* the test directories in its folder
  stray,    \* another entry of the folder: "none", "dir" or "file"
  pc,       \* program point of the script, or of the driver it has called
  listing,  \* entries of os.listdir it has yet to look at
  seen,     \* completed tests found: their directories
  todo,     \* actions: the command lines not yet run
  command,  \* the one being run, as a set of at most one
  cur,      \* the directory being filled, or being removed
  args,     \* the driver's options, as a set of at most one
  net,      \* the links of the network it has set up
  faults    \* faults that may still happen

vars == <<job, disk, stray, pc, listing, seen, todo, command, cur, args, net,
          faults>>
testVars == <<command, cur, args, net>>
scanVars == <<stray, listing, seen>>

NoDir == 0
Sources == job.sources
Replays == {"edge", "pi4"}
Resumes == {"kubetest"} \cup Replays

TheArgs == CHOOSE a \in args : TRUE
Saved(u) == CHOOSE c \in disk[u].saved : TRUE
Has(u, f) == f \in disk[u].files

\* The test of both scans: results, and no node directory without capture.
Complete(u) ==
  /\ Has(u, "ops") /\ (Has(u, "resps") \/ Has(u, "part"))
  /\ ~Has(u, "bare")

Counted(u) == Has(u, "full") /\ Complete(u)

-----------------------------------------------------------------------------
(***************************************************************************)
(* The command lines of a campaign.                                        *)
(***************************************************************************)
Task(k, cmd) == [index |-> k, cmd |-> cmd]

Actions ==
  LET repeated(n, params) ==
        {Task(k, RunTestCommand(params)) : k \in 1..n}
  IN
  CASE job.mode = "kubetest" ->
         repeated(job.runs - Cardinality(seen),
                  Kubetest(job.variant, job.loss))
    [] job.mode = "throughput" ->
         {Task(k, RunTestCommand(KubetestThroughput(job.variant, 1000 * k))) :
            k \in 1..job.runs}
    [] job.mode = "failures" ->
         repeated(job.runs,
                  KubetestWithFailures(job.variant, job.loss, job.failure,
                                       600, 1))
    [] job.mode = "edge" ->
         {Task(k, EdgeReplay(Sources[k].config, job.variant, job.loss)) :
            k \in 1..Len(Sources)}
    [] job.mode = "pi4" ->
         {Task(k, Pi4Replay(Sources[k].config, Sources[k].links)) :
            k \in 1..Len(Sources)}
    [] job.mode = "hand" -> {Task(1, job.cmd)}
    [] OTHER -> {Task(1, TesterCommand(params)) : params \in ConspirePaper}

-----------------------------------------------------------------------------
Init ==
  /\ job \in Jobs
  /\ disk = <<>>
  /\ stray \in (IF job.mode \in Resumes THEN {"none", "dir", "file"}
                                        ELSE {"none"})
  /\ pc = "off" /\ listing = {} /\ seen = {} /\ todo = {}
  /\ command = {} /\ cur = NoDir /\ args = {} /\ net = {}
  /\ faults = MaxFaults

\* The script starts, for the first time or again.
Start ==
  /\ pc \in {"off", "done"}
  /\ pc' = "scan" /\ seen' = {} /\ todo' = {}
  /\ IF job.mode \in Resumes
     THEN /\ listing' = DOMAIN disk \cup (IF stray = "none" THEN {} ELSE {0})
          /\ UNCHANGED disk
     ELSE listing' = {} /\ disk' = <<>>
  /\ UNCHANGED <<job, stray, testVars, faults>>

scanned == <<job, disk, todo, command, args, net, faults>>

\* Mutant: completed tests are recognised but not counted.
ScanCounts_Forgets(u) ==
  /\ pc = "scan" /\ u \in listing \ {0}
  /\ Counted(u) /\ (job.mode \in Replays => disk[u].saved # {})
  /\ listing' = listing \ {u}
  /\ UNCHANGED <<scanned, stray, seen, pc, cur>>

\* Mutant: a directory with config_full.json counts, whatever else it has.
ScanCounts_AnyConfig(u) ==
  /\ pc = "scan" /\ u \in listing \ {0}
  /\ Has(u, "full") /\ (job.mode \in Replays => disk[u].saved # {})
  /\ seen' = seen \cup {u}
  /\ listing' = listing \ {u}
  /\ UNCHANGED <<scanned, stray, pc, cur>>

\* Found complete: one repetition less, or a seed not to be replayed.
ScanCounts(u) ==
  /\ pc = "scan" /\ u \in listing \ {0}
  /\ Counted(u) /\ (job.mode \in Replays => disk[u].saved # {})
  /\ seen' = seen \cup {u}
  /\ listing' = listing \ {u}
  /\ UNCHANGED <<scanned, stray, pc, cur>>

\* kubetest passes over a directory without config_full.json; the replays
\* pass over entries that are not named after a uuid.
ScanSkips(e) ==
  /\ pc = "scan" /\ e \in listing
  /\ \/ job.mode = "kubetest" /\ e # 0 /\ ~Has(e, "full")
     \/ job.mode \in Replays /\ e = 0
  /\ listing' = listing \ {e}
  /\ UNCHANGED <<scanned, stray, seen, pc, cur>>

\* Found broken: it is removed.  The replays also remove what they cannot
\* read.
ScanRemoves(u) ==
  /\ pc = "scan" /\ u \in listing \ {0}
  /\ IF job.mode = "kubetest"
     THEN Has(u, "full") /\ ~Complete(u)
     ELSE disk[u].saved = {} \/ ~Complete(u)
  /\ pc' = "remove" /\ cur' = u
  /\ listing' = listing \ {u}
  /\ UNCHANGED <<scanned, stray, seen>>

\* shutil.rmtree, file by file in no particular order.
RemoveFile ==
  /\ pc = "remove" /\ disk[cur].files # {}
  /\ \E f \in disk[cur].files :
       disk' = [disk EXCEPT ![cur] =
                  [files |-> @.files \ {f},
                   saved |-> IF f = "full" THEN {} ELSE @.saved]]
  /\ UNCHANGED <<job, pc, scanVars, todo, testVars, faults>>

RemoveDir ==
  /\ pc = "remove" /\ disk[cur].files = {}
  /\ disk' = Restrict(disk, DOMAIN disk \ {cur})
  /\ pc' = "scan" /\ cur' = NoDir
  /\ UNCHANGED <<job, scanVars, todo, command, args, net, faults>>

\* An entry that is not a test directory is removed as a directory; for a
\* plain file rmtree raises, and the script ends.
ScanStray ==
  /\ pc = "scan" /\ 0 \in listing /\ job.mode = "kubetest"
  /\ listing' = listing \ {0}
  /\ IF stray = "file"
     THEN pc' = "off" /\ UNCHANGED stray
     ELSE pc' = pc /\ stray' = "none"
  /\ UNCHANGED <<scanned, seen, cur>>

\* The actions are collected and shuffled.
ScanEnds ==
  /\ pc = "scan" /\ listing = {}
  /\ pc' = "next" /\ todo' = Actions
  /\ UNCHANGED <<job, disk, scanVars, testVars, faults>>

-----------------------------------------------------------------------------
(***************************************************************************)
(* One test.                                                               *)
(***************************************************************************)
\* A replay whose key seed was completed before is skipped.
Skipped(task) ==
  /\ job.mode \in Replays
  /\ \E u \in seen : Saved(u).key_gen_seed = task.cmd.key_gen_seed

\* A pi4 replay of a directory whose config.json has no links raises.
Unreadable(task) == job.mode = "pi4" /\ task.cmd.net_spec = <<>>

BeginTest ==
  /\ pc = "next"
  /\ \E task \in todo :
       /\ todo' = todo \ {task}
       /\ \/ /\ ~Unreadable(task) /\ ~Skipped(task)
             /\ pc' = "make" /\ command' = {task.cmd}
          \/ /\ ~Unreadable(task) /\ Skipped(task)
             /\ UNCHANGED <<pc, command>>
          \/ /\ Unreadable(task)
             /\ pc' = "off" /\ UNCHANGED command
  /\ UNCHANGED <<job, disk, scanVars, cur, args, net, faults>>

untested == <<job, scanVars, todo, command>>

MakeDir ==
  /\ pc = "make" /\ pc' = "parse"
  /\ cur' = Min((1..(Cardinality(DOMAIN disk) + 1)) \ DOMAIN disk)
  /\ disk' = [u \in DOMAIN disk \cup {cur'} |->
                IF u = cur' THEN [files |-> {}, saved |-> {}] ELSE disk[u]]
  /\ UNCHANGED <<untested, args, net, faults>>

\* Files of the directory are replaced, or added.
Put(old, new) ==
  [disk EXCEPT ![cur] = [files |-> (@.files \ old) \cup new,
                         saved |-> @.saved]]

\* The time at which the test of a directory begins.
Now(u) == 100 + u

\* The driver reads its options, from a file too if there is one that it
\* can read, and opens config_full.json in the result location.
ParseArgs ==
  LET now == Now(cur)
      parsed == Parse(CHOOSE c \in command : TRUE, now)
  IN
  /\ pc = "parse"
  /\ args' = {IF job.mode = "hand" /\ job.config
              THEN LoadConfig(parsed, Sources[1].config, now)
              ELSE parsed}
  /\ IF \A a \in args' : a.result_location = "directory"
     THEN /\ disk' = Put({}, {"full"})
          /\ pc' = "save"
     ELSE pc' = "failed" /\ UNCHANGED disk
  /\ UNCHANGED <<untested, cur, net, faults>>

WriteConfigFull ==
  /\ pc = "save" /\ pc' = "setup"
  /\ disk' = [disk EXCEPT ![cur] = [files |-> @.files,
                                     saved |-> {SaveConfig(TheArgs)}]]
  /\ UNCHANGED <<untested, cur, args, net, faults>>

\* The providers are made, the network and the nodes are started.
Setup ==
  /\ pc = "setup"
  /\ IF TopologyRaises(TheArgs) \/ ProvidersRaise(TheArgs)
     THEN pc' = "failed" /\ UNCHANGED net
     ELSE pc' = "test" /\ net' = Links(TheArgs)
  /\ UNCHANGED <<untested, disk, cur, args, faults>>

SetupFails ==
  /\ pc = "setup" /\ faults > 0
  /\ pc' = "failed" /\ faults' = faults - 1
  /\ UNCHANGED <<untested, disk, cur, args, net>>

\* Mutant: both files are opened before the results are written.
OpenResps_Both ==
  /\ pc = "test" /\ pc' = "resps"
  /\ disk' = Put({}, {"part", "ops"})
  /\ UNCHANGED <<untested, cur, args, net, faults>>

\* The test process writes the responses, then the request log, then moves
\* the logs of the nodes, each of them with its packet capture or without.
OpenResps ==
  /\ pc = "test" /\ pc' = "resps"
  /\ disk' = Put({}, {"part"})
  /\ UNCHANGED <<untested, cur, args, net, faults>>

WriteResps ==
  /\ pc = "resps" /\ pc' = "ops"
  /\ disk' = Put({"part"}, {"resps"})
  /\ UNCHANGED <<untested, cur, args, net, faults>>

WriteOps ==
  /\ pc = "ops" /\ pc' = "logs"
  /\ disk' = Put({}, {"ops"})
  /\ UNCHANGED <<untested, cur, args, net, faults>>

HandleTestEnd ==
  /\ pc = "logs" /\ pc' = "exit"
  /\ \/ disk' = Put({}, {"node"}) /\ UNCHANGED faults
     \/ /\ faults > 0 /\ faults' = faults - 1
        /\ disk' = Put({}, {"node", "bare"})
  /\ UNCHANGED <<untested, cur, args, net>>

\* The test process raises, or is terminated when its time is over: the
\* driver does not ask how it ended.
TestDies ==
  /\ pc \in {"test", "resps", "ops", "logs"} /\ faults > 0
  /\ pc' = "exit" /\ faults' = faults - 1
  /\ UNCHANGED <<untested, disk, cur, args, net>>

testOver == command' = {} /\ cur' = NoDir /\ args' = {} /\ net' = {}

DriverExits ==
  /\ pc = "exit" /\ pc' = "next"
  /\ testOver
  /\ UNCHANGED <<job, disk, scanVars, todo, faults>>

\* The driver exits with an error: kubetester.py exits, tester.py goes on.
DriverFails ==
  /\ pc = "failed"
  /\ pc' = IF job.mode \in {"tester", "hand"} THEN "next" ELSE "off"
  /\ testOver
  /\ UNCHANGED <<job, disk, scanVars, todo, faults>>

Done ==
  /\ pc = "next" /\ todo = {}
  /\ pc' = "done"
  /\ UNCHANGED <<job, disk, scanVars, todo, testVars, faults>>

\* The machine stops, a command of the script fails, someone presses ^C.
Crash ==
  /\ pc \notin {"off", "done"} /\ faults > 0
  /\ pc' = "off" /\ faults' = faults - 1
  /\ testOver
  /\ UNCHANGED <<job, disk, scanVars, todo>>

Scan ==
  \/ \E u \in listing : ScanCounts(u) \/ ScanSkips(u) \/ ScanRemoves(u)
  \/ RemoveFile \/ RemoveDir \/ ScanStray \/ ScanEnds

Test ==
  \/ BeginTest \/ MakeDir \/ ParseArgs \/ WriteConfigFull \/ Setup
  \/ OpenResps \/ WriteResps \/ WriteOps \/ HandleTestEnd
  \/ DriverExits \/ DriverFails

Next == Start \/ Scan \/ Test \/ Done \/ SetupFails \/ TestDies \/ Crash

Spec == Init /\ [][Next]_vars

\* The script runs on when it can, and its user starts it again.
FairSpec == Spec /\ WF_vars(Start \/ Scan \/ Test \/ Done)

-----------------------------------------------------------------------------
CountedDirs == {u \in DOMAIN disk : Counted(u)}

(* A scan looks only at which files exist, and a test may die while it     *)
(* writes them.  What is counted as a completed test does hold its         *)
(* complete responses, also if its removal was interrupted: the responses  *)
(* are written, to their end, before the file that comes after them.       *)
CountedHasResponses == \A u \in CountedDirs : Has(u, "resps")

(* However often a campaign is interrupted and started again it never      *)
(* completes more repetitions than were asked for, nor one replay twice.   *)
NothingRunTwice ==
  /\ job.mode = "kubetest" => Cardinality(CountedDirs) <= job.runs
  /\ job.mode \in Replays =>
       \A u, v \in CountedDirs :
         Saved(u).key_gen_seed = Saved(v).key_gen_seed => u = v

\* Nothing that comes back at every start is in the way.
Runnable ==
  /\ job.mode \in Resumes
  /\ job.mode = "kubetest" => stray # "file"
  /\ job.mode = "pi4" => \A k \in 1..Len(Sources) : Sources[k].links # <<>>

AllDone ==
  IF job.mode = "kubetest"
  THEN Cardinality(CountedDirs) = job.runs
  ELSE \A k \in 1..Len(Sources) : \E u \in CountedDirs :
         Saved(u).key_gen_seed = Sources[k].config.key_gen_seed

(* A campaign that is started again after every interruption gets done,    *)
(* and what it has completed is not thrown away by later scans.            *)
Converges == Runnable => <>[]AllDone

-----------------------------------------------------------------------------
\* What the driver's network looks like from the options a: the nodes, the
\* link that a node has, the nodes that no entry of --net-spec names, and
\* what the path between two of them adds up to.
Nodes(a) == ToSet(Hosts(a) \o Clients(a))
LinkOf(n) == CHOOSE l \in net : n \in l.ends
Plain(a) ==
  {n \in Nodes(a) : \A sp \in ToSet(a.net_spec) :
                      n \notin {sp.n_from, sp.n_to}}
Along(m, n, f) == LinkOf(m).spec[f] + LinkOf(n).spec[f]

(* Names of nodes and switches are made in one place and written down in   *)
(* another, and the attributes of a link are found by comparing them.      *)
(* Every entry of --net-spec, as it is on the command line, is the         *)
(* attributes of a link that exists; every host and client has one link,   *)
(* in the topology with regions too; and in a star the path between two    *)
(* that have no entry has the delay and the jitter that were asked for.    *)
(* (The loss is less than --link-loss, as the topology and its base class  *)
(* both divide it among two links; and the command line is without the row *)
(* for s3 and s1 that ha_topo replaces by its second row for s3.)          *)
WiredAsAsked ==
  \A a \in args : net # {} =>
    /\ \A sp \in ToSet(a.net_spec) : \E l \in net :
         /\ l.ends = {sp.n_from, sp.n_to}
         /\ l.spec = [latency |-> sp.latency, loss |-> sp.loss,
                      jitter |-> sp.jitter]
    /\ \A n \in Nodes(a) : Cardinality({l \in net : n \in l.ends}) = 1
    /\ a.topo_type # "ha_reg_k8s" =>
         \A m, n \in Plain(a) : m # n =>
           LET spread == a.link_jitter * a.link_latency
           IN /\ Along(m, n, "latency") = a.link_latency
              /\ Along(m, n, "jitter") = spread * spread

=============================================================================
