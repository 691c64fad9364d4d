---------------------------- MODULE CampaignProofs ----------------------------
(***************************************************************************)
(* Proofs about Campaign, for every set of jobs and every number of        *)
(* faults: what a scan counts has its responses (CountedHasResponses), no  *)
(* test is completed twice (NothingRunTwice).                              *)
(*                                                                         *)
(* The inductive invariant follows a directory through its life: which     *)
(* files it has at each step of its test (FileInv), which of the           *)
(* directories a scan has still to look at (ScanInv), where a saved        *)
(* configuration comes from (OriginInv), and that the seeds (SeedInv) and  *)
(* the number (CountInv) of the directories that are there, of the test    *)
(* that runs and of those to come do not overlap.  The last two are about  *)
(* every directory with config_full.json, complete or not, because the     *)
(* removal of a broken one may leave it looking complete.                  *)
(*                                                                         *)
(* Two further parts stand on it.  NetInv and ScriptInv are about the      *)
(* network of the test that runs (WiredAsAsked).  PassInv and Owed are     *)
(* about what is left to do: nothing completed is thrown away, and a fault *)
(* costs one test at most, which is the safety half of Converges.          *)
(***************************************************************************)
EXTENDS Campaign, FiniteSetTheorems, NaturalsInduction,
        WellFoundedInduction, TLAPS

Files == {"full", "part", "resps", "ops", "node", "bare"}

\* Program points at which a directory is being filled.
Filling == {"parse", "save", "setup", "test", "resps", "ops", "logs", "exit",
            "failed"}
Points == {"off", "done", "scan", "remove", "next", "make"} \cup Filling

TypeOK ==
  /\ job \in Jobs /\ pc \in Points
  /\ stray \in {"none", "dir", "file"}
  /\ faults \in 0..MaxFaults
  /\ IsFiniteSet(DOMAIN disk) /\ DOMAIN disk \subseteq Nat \ {0}
  /\ disk = [u \in DOMAIN disk |->
               [files |-> disk[u].files, saved |-> disk[u].saved]]
  /\ \A u \in DOMAIN disk : disk[u].files \subseteq Files
  /\ pc \in Filling \cup {"remove"} => cur \in DOMAIN disk

\* The files of the directory being filled, before the logs are moved.
FileInv ==
  /\ \A u \in DOMAIN disk :
       /\ ~(Has(u, "ops") /\ Has(u, "part"))
       /\ Has(u, "full") /\ Has(u, "ops") => disk[u].saved # {}
       /\ disk[u].saved # {} => Has(u, "full")
  /\ pc = "parse" => disk[cur].files = {}
  /\ pc \in {"save", "setup", "test"} => disk[cur].files = {"full"}
  /\ pc = "resps" => disk[cur].files = {"full", "part"}
  /\ pc = "ops" => disk[cur].files = {"full", "resps"}
  /\ pc = "logs" => disk[cur].files = {"full", "resps", "ops"}
  /\ pc \in {"setup", "test", "resps", "ops", "logs"} => disk[cur].saved # {}
  /\ pc \in {"parse", "save"} => disk[cur].saved = {}

\* What has been seen is there, saved, and not touched.  A scan has still to
\* look at every directory with config_full.json that it has not seen.
ScanInv ==
  /\ pc \notin {"off", "done"} =>
       /\ seen \subseteq DOMAIN disk
       /\ \A u \in seen : disk[u].saved # {}
       /\ pc \in Filling \cup {"remove"} => cur \notin seen
  /\ pc \in {"scan", "remove"} =>
       /\ listing \subseteq DOMAIN disk \cup {0}
       /\ listing \cap seen = {}
       /\ pc = "remove" => cur \notin listing
       /\ \A u \in DOMAIN disk : Has(u, "full") =>
            u \in listing \cup seen \/ (pc = "remove" /\ u = cur)

\* Where options come from, for a campaign of replays or a test by hand.
Modelled == job.mode \in Replays \cup {"hand"}
Places == IF job.mode = "hand" THEN {1} ELSE 1..Len(Sources)

Line(k) ==
  IF job.mode = "edge" THEN EdgeReplay(Sources[k].config, job.variant, job.loss)
  ELSE IF job.mode = "pi4" THEN Pi4Replay(Sources[k].config, Sources[k].links)
  ELSE job.cmd

OptionsOf(k, u) ==
  IF job.mode = "hand" /\ job.config
  THEN LoadConfig(Parse(Line(k), Now(u)), Sources[1].config, Now(u))
  ELSE Parse(Line(k), Now(u))

OriginInv ==
  Modelled =>
    /\ \A t \in todo : \E k \in Places : t = Task(k, Line(k))
    /\ \A c \in command : \E k \in Places : c = Line(k)
    /\ \A a \in args : \E k \in Places : a = OptionsOf(k, cur)
    /\ \A u \in DOMAIN disk : \A c \in disk[u].saved :
         \E k \in Places : c = SaveConfig(OptionsOf(k, u))

Seed(u) == Saved(u).key_gen_seed
SavedDirs == {u \in DOMAIN disk : disk[u].saved # {}}

SeedInv ==
  job.mode \in Replays =>
    /\ \A u, v \in SavedDirs : Seed(u) = Seed(v) => u = v
    /\ pc \in {"next", "make"} \cup Filling =>
         \A u \in SavedDirs \ seen : \A t \in todo :
           Seed(u) # t.cmd.key_gen_seed
    /\ pc \in {"make", "parse", "save"} =>
         \A c \in command :
           /\ \A t \in todo : t.cmd.key_gen_seed # c.key_gen_seed
           /\ \A u \in SavedDirs : Seed(u) # c.key_gen_seed
    /\ \A a \in args : \E c \in command : a.key_gen_seed = c.key_gen_seed

\* The program points that have a command, and those that have options.
RunInv ==
  /\ pc \in {"make", "parse", "save"} => command # {}
  /\ pc = "save" => args # {}
  /\ pc \in {"off", "done", "scan", "remove", "next", "make", "parse"} =>
       args = {}

FullDirs == {u \in DOMAIN disk : Has(u, "full")}

\* One test that has not yet made its config_full.json.
Pending == IF pc \in {"make", "parse"} THEN 1 ELSE 0

CountInv ==
  job.mode = "kubetest" =>
    /\ Cardinality(FullDirs) <= job.runs
    /\ pc \in {"next", "make"} \cup Filling =>
         /\ IsFiniteSet(todo)
         /\ Cardinality(FullDirs) + Cardinality(todo) + Pending <= job.runs

Inv == /\ TypeOK /\ FileInv /\ ScanInv /\ RunInv
       /\ OriginInv /\ SeedInv /\ CountInv

-----------------------------------------------------------------------------
(***************************************************************************)
(* The options on their way from a configuration to a replay's.            *)
(***************************************************************************)
\* ReckonConfig has a field for every option that a replay takes over.
LEMMA NamesKnown == WorkloadNames \cup EdgeNames \subseteq ConfigNames
<1>1. WorkloadNames \cup EdgeNames
        \subseteq (OptionNames \cup Positionals) \ {"light_reads", "sys_variant"}
  BY DEF WorkloadNames, EdgeNames, OptionNames, Positionals, SystemDefaults,
         TopologyDefaults, WorkloadDefaults, FailureDefaults
<1> QED BY <1>1 DEF ConfigNames

\* save_config leaves every option it writes as it is.
LEMMA SaveKeeps ==
  ASSUME NEW a, NEW name \in ConfigNames
  PROVE  SaveConfig(a)[name] = a[name]
BY DEF SaveConfig, Restrict

\* Reading a configuration back keeps every name it has.
LEMMA ParseKeeps ==
  ASSUME NEW c, NEW now, NEW name \in DOMAIN c
  PROVE  Parse(c, now)[name] = c[name]
BY DEF Parse

\* An edge replay keeps the workload, the edge's links included.
LEMMA EdgeKeeps ==
  ASSUME NEW config, NEW variant, NEW loss,
         NEW name \in WorkloadNames \cup EdgeNames
  PROVE  /\ name \in DOMAIN EdgeReplay(config, variant, loss)
         /\ EdgeReplay(config, variant, loss)[name] = config[name]
BY DEF EdgeReplay, Replay

\* A Pi 4 replay keeps the workload, with links of its own.
LEMMA Pi4Keeps ==
  ASSUME NEW config, NEW links, NEW name \in WorkloadNames
  PROVE  /\ name \in DOMAIN Pi4Replay(config, links)
         /\ Pi4Replay(config, links)[name] = config[name]
BY DEF Pi4Replay, Replay

\* The names under which a line of mode has what its source has.
Kept == IF job.mode = "edge" THEN WorkloadNames \cup EdgeNames
        ELSE WorkloadNames

\* The line of a replayed test has its source's values under Kept.
LEMMA LineKeeps ==
  ASSUME job.mode \in Replays, NEW k \in Places, NEW name \in Kept
  PROVE  name \in DOMAIN Line(k) /\ Line(k)[name] = Sources[k].config[name]
<1>1. CASE job.mode = "edge"
  BY <1>1, EdgeKeeps DEF Line, Kept
<1>2. CASE job.mode = "pi4"
  BY <1>2, Pi4Keeps DEF Line, Kept
<1> QED BY <1>1, <1>2 DEF Replays

\* So have the options the test is run with.
LEMMA OptionsKeep ==
  ASSUME job.mode \in Replays, NEW k \in Places, NEW u, NEW name \in Kept
  PROVE  /\ OptionsOf(k, u)[name] = Sources[k].config[name]
         /\ SaveConfig(OptionsOf(k, u))[name] = Sources[k].config[name]
<1>1. OptionsOf(k, u) = Parse(Line(k), Now(u))
  BY DEF OptionsOf, Replays
<1>2. OptionsOf(k, u)[name] = Sources[k].config[name]
  BY <1>1, LineKeeps, ParseKeeps
<1>3. name \in ConfigNames
  BY NamesKnown DEF Kept
<1> QED BY <1>2, <1>3, SaveKeeps

\* The seeds of replays are those of their sources, which differ.
LEMMA SeedIsKept == "key_gen_seed" \in Kept
BY DEF Kept, WorkloadNames

\* Two places of a replay have sources of different seeds.
LEMMA SeedsDiffer ==
  ASSUME job \in Jobs, job.mode \in Replays, NEW j \in Places,
         NEW k \in Places,
         Line(j).key_gen_seed = Line(k).key_gen_seed
  PROVE  j = k
<1>1. /\ Line(j).key_gen_seed = Sources[j].config.key_gen_seed
      /\ Line(k).key_gen_seed = Sources[k].config.key_gen_seed
  BY LineKeeps, SeedIsKept
<1>2. j \in 1..Len(job.sources) /\ k \in 1..Len(job.sources)
  BY DEF Places, Sources, Replays
<1> QED BY <1>1, <1>2, SeedAssumption DEF Sources

-----------------------------------------------------------------------------
(***************************************************************************)
(* What the steps do to the directories.                                   *)
(***************************************************************************)
\* disk is a function of records.
Directories == disk = [u \in DOMAIN disk |->
                         [files |-> disk[u].files, saved |-> disk[u].saved]]

\* Files are added to the directory being filled, or replaced.
LEMMA PutEffect ==
  ASSUME Directories, cur \in DOMAIN disk, NEW old, NEW new,
         disk' = Put(old, new)
  PROVE  /\ DOMAIN disk' = DOMAIN disk /\ Directories'
         /\ \A u \in DOMAIN disk : disk'[u].saved = disk[u].saved
         /\ \A u \in DOMAIN disk \ {cur} : disk'[u] = disk[u]
         /\ disk'[cur].files = (disk[cur].files \ old) \cup new
<1>1. disk' = [u \in DOMAIN disk |->
                 IF u = cur
                 THEN [files |-> (disk[u].files \ old) \cup new,
                       saved |-> disk[u].saved]
                 ELSE disk[u]]
  BY DEF Put, Directories
<1>2. DOMAIN disk' = DOMAIN disk
  BY <1>1
<1>3. \A u \in DOMAIN disk :
        disk[u] = [files |-> disk[u].files, saved |-> disk[u].saved]
  BY DEF Directories
<1>4. \A u \in DOMAIN disk :
        disk'[u] = [files |-> disk'[u].files, saved |-> disk'[u].saved]
  BY <1>1, <1>3
<1>5. Directories'
  BY <1>1, <1>2, <1>4 DEF Directories
<1> QED BY <1>1, <1>2, <1>5

\* config_full.json is written.
LEMMA SaveEffect ==
  ASSUME Directories, cur \in DOMAIN disk, NEW config,
         disk' = [disk EXCEPT ![cur] = [files |-> @.files,
                                        saved |-> {config}]]
  PROVE  /\ DOMAIN disk' = DOMAIN disk /\ Directories'
         /\ \A u \in DOMAIN disk : disk'[u].files = disk[u].files
         /\ \A u \in DOMAIN disk \ {cur} : disk'[u] = disk[u]
         /\ disk'[cur].saved = {config}
<1>1. disk' = [u \in DOMAIN disk |->
                 IF u = cur
                 THEN [files |-> disk[u].files, saved |-> {config}]
                 ELSE disk[u]]
  BY DEF Directories
<1>2. DOMAIN disk' = DOMAIN disk
  BY <1>1
<1>3. \A u \in DOMAIN disk :
        disk[u] = [files |-> disk[u].files, saved |-> disk[u].saved]
  BY DEF Directories
<1>4. \A u \in DOMAIN disk :
        disk'[u] = [files |-> disk'[u].files, saved |-> disk'[u].saved]
  BY <1>1, <1>3
<1>5. Directories'
  BY <1>1, <1>2, <1>4 DEF Directories
<1> QED BY <1>1, <1>2, <1>5

\* A file goes, and with config_full.json what it held.
LEMMA RemoveEffect ==
  ASSUME Directories, cur \in DOMAIN disk, NEW f,
         disk' = [disk EXCEPT ![cur] =
                    [files |-> @.files \ {f},
                     saved |-> IF f = "full" THEN {} ELSE @.saved]]
  PROVE  /\ DOMAIN disk' = DOMAIN disk /\ Directories'
         /\ \A u \in DOMAIN disk \ {cur} : disk'[u] = disk[u]
         /\ disk'[cur].files = disk[cur].files \ {f}
         /\ disk'[cur].saved = IF f = "full" THEN {} ELSE disk[cur].saved
<1>1. disk' = [u \in DOMAIN disk |->
                 IF u = cur
                 THEN [files |-> disk[u].files \ {f},
                       saved |-> IF f = "full" THEN {} ELSE disk[u].saved]
                 ELSE disk[u]]
  BY DEF Directories
<1>2. DOMAIN disk' = DOMAIN disk
  BY <1>1
<1>3. \A u \in DOMAIN disk :
        disk[u] = [files |-> disk[u].files, saved |-> disk[u].saved]
  BY DEF Directories
<1>4. \A u \in DOMAIN disk :
        disk'[u] = [files |-> disk'[u].files, saved |-> disk'[u].saved]
  BY <1>1, <1>3, ZenonT(40)
<1>5. Directories'
  BY <1>1, <1>2, <1>4 DEF Directories
<1> QED BY <1>1, <1>2, <1>5

\* The directory, empty by now, goes.
LEMMA RemoveDirEffect ==
  ASSUME Directories, disk' = Restrict(disk, DOMAIN disk \ {cur})
  PROVE  /\ DOMAIN disk' = DOMAIN disk \ {cur} /\ Directories'
         /\ \A u \in DOMAIN disk' : disk'[u] = disk[u]
<1>1. disk' = [u \in DOMAIN disk \ {cur} |-> disk[u]]
  BY DEF Restrict
<1>2. DOMAIN disk' = DOMAIN disk \ {cur}
      /\ \A u \in DOMAIN disk' : disk'[u] = disk[u]
  BY <1>1
<1>3. \A u \in DOMAIN disk :
        disk[u] = [files |-> disk[u].files, saved |-> disk[u].saved]
  BY DEF Directories
<1>4. \A u \in DOMAIN disk' :
        disk'[u] = [files |-> disk'[u].files, saved |-> disk'[u].saved]
  BY <1>2, <1>3
<1>5. Directories'
  BY <1>1, <1>2, <1>4 DEF Directories
<1> QED BY <1>2, <1>5

\* A set of natural numbers that is not empty has a least one.
LEMMA LeastNat ==
  ASSUME NEW S, S \subseteq Nat, S # {}
  PROVE  \E x \in S : \A y \in S : x <= y
<1>1. PICK x \in S : \A y \in S : <<y, x>> \notin OpToRel(<, Nat)
  BY WFMin, NatLessThanWellFounded
<1>2. \A y \in S : ~(y < x)
  BY <1>1, Zenon DEF OpToRel
<1> QED BY <1>2

\* A new directory has a name of its own.
LEMMA FreshDir ==
  ASSUME NEW D, IsFiniteSet(D), D \subseteq Nat \ {0}
  PROVE  LET u == Min((1..(Cardinality(D) + 1)) \ D)
         IN u \in Nat \ {0} /\ u \notin D
<1> DEFINE n == Cardinality(D)
           S == (1..(n + 1)) \ D
<1>1. n \in Nat
  BY FS_CardinalityType
<1>2. S # {}
  <2>1. SUFFICES ASSUME S = {} PROVE FALSE
    OBVIOUS
  <2>2. (1..(n + 1)) \in SUBSET D
    BY <2>1
  <2>3. Cardinality(1..(n + 1)) <= n
    BY <2>2, FS_Subset
  <2>4. Cardinality(1..(n + 1)) = n + 1
    BY <1>1, FS_Interval
  <2> QED BY <1>1, <2>3, <2>4
<1>3. S \subseteq Nat
  BY <1>1
<1> HIDE DEF S
<1>4. \E x \in S : \A y \in S : x <= y
  BY <1>2, <1>3, LeastNat
<1>5. Min(S) \in S
  BY <1>4 DEF Min
<1> QED BY <1>5, <1>3, <1>1 DEF S

-----------------------------------------------------------------------------
(***************************************************************************)
(* Files and scans.                                                        *)
(***************************************************************************)
Base == TypeOK /\ FileInv /\ ScanInv /\ RunInv

\* A step that leaves the directories alone and fills none of them, or goes
\* on with the one it fills.
LEMMA QuietBase ==
  ASSUME Base, UNCHANGED <<disk, job>>,
         stray' \in {"none", "dir", "file"}, faults' \in 0..MaxFaults,
         \/ pc' \in {"off", "done", "next", "make", "scan"}
         \/ pc' \in {"exit", "failed"} /\ pc \in Filling /\ cur' = cur
         \/ pc = "setup" /\ pc' = "test" /\ cur' = cur,
         ScanInv', RunInv'
  PROVE  Base'
<1>1. TypeOK'
  BY DEF Base, TypeOK, Points, Filling
<1>2. FileInv'
  BY DEF Base, FileInv, Has
<1> QED BY <1>1, <1>2 DEF Base

\* Looking at an entry of the directory keeps the basic facts.
LEMMA ScanBase ==
  ASSUME Base,
         \/ \E u \in listing : ScanCounts(u) \/ ScanSkips(u)
         \/ ScanStray \/ ScanEnds
  PROVE  Base'
<1>1. ASSUME NEW u \in listing, ScanCounts(u)
      PROVE  Base'
  <2>1. /\ pc = "scan" /\ pc' = "scan" /\ u # 0
        /\ Has(u, "full") /\ Has(u, "ops")
        /\ seen' = seen \cup {u} /\ listing' = listing \ {u}
        /\ UNCHANGED <<disk, job, stray, faults, command, args, cur>>
    BY <1>1 DEF ScanCounts, scanned, Counted, Complete
  <2>2. u \in DOMAIN disk /\ disk[u].saved # {}
    BY <2>1 DEF Base, ScanInv, FileInv
  <2>3. ScanInv'
    BY <2>1, <2>2 DEF Base, ScanInv, Has, Filling
  <2>4. RunInv'
    BY <2>1 DEF Base, RunInv
  <2> QED BY <2>1, <2>3, <2>4, QuietBase DEF Base, TypeOK
<1>2. ASSUME NEW u \in listing, ScanSkips(u)
      PROVE  Base'
  <2>1. /\ pc = "scan" /\ pc' = "scan" /\ (u = 0 \/ ~Has(u, "full"))
        /\ listing' = listing \ {u}
        /\ UNCHANGED <<disk, job, stray, faults, command, args, cur, seen>>
    BY <1>2 DEF ScanSkips, scanned
  <2>2. 0 \notin DOMAIN disk
    BY DEF Base, TypeOK
  <2>3. ScanInv'
    BY <2>1, <2>2 DEF Base, ScanInv, Has, Filling
  <2>4. RunInv'
    BY <2>1 DEF Base, RunInv
  <2> QED BY <2>1, <2>3, <2>4, QuietBase DEF Base, TypeOK
<1>3. CASE ScanStray
  <2>1. /\ pc = "scan" /\ pc' \in {"scan", "off"}
        /\ stray' \in {"none", stray}
        /\ listing' = listing \ {0}
        /\ UNCHANGED <<disk, job, faults, command, args, cur, seen>>
    BY <1>3 DEF ScanStray, scanned
  <2>2. 0 \notin DOMAIN disk
    BY DEF Base, TypeOK
  <2>3. ScanInv'
    BY <2>1, <2>2 DEF Base, ScanInv, Has, Filling
  <2>4. RunInv'
    BY <2>1 DEF Base, RunInv
  <2> QED BY <2>1, <2>3, <2>4, QuietBase DEF Base, TypeOK
<1>4. CASE ScanEnds
  <2>1. /\ pc = "scan" /\ pc' = "next"
        /\ UNCHANGED <<disk, job, stray, faults, listing, command, args, cur,
                       seen>>
    BY <1>4 DEF ScanEnds, scanVars, testVars
  <2>2. ScanInv'
    BY <2>1 DEF Base, ScanInv, Has, Filling
  <2>3. RunInv'
    BY <2>1 DEF Base, RunInv
  <2> QED BY <2>1, <2>2, <2>3, QuietBase DEF Base, TypeOK
<1> QED BY <1>1, <1>2, <1>3, <1>4

\* Starting the campaign keeps the basic facts.
LEMMA StartBase ==
  ASSUME Base, Start
  PROVE  Base'
<1>1. /\ pc \in {"off", "done"} /\ pc' = "scan" /\ seen' = {}
      /\ UNCHANGED <<job, stray, faults, command, args, cur>>
  BY DEF Start, testVars
<1>2. RunInv'
  BY <1>1 DEF Base, RunInv
<1>3. CASE job.mode \in Resumes
  <2>1. /\ disk' = disk
        /\ listing' = DOMAIN disk \cup (IF stray = "none" THEN {} ELSE {0})
    BY <1>3 DEF Start
  <2>2. ScanInv'
    BY <1>1, <2>1 DEF ScanInv, Has, Filling
  <2> QED BY <1>1, <1>2, <2>1, <2>2, QuietBase DEF Base, TypeOK
<1>4. CASE job.mode \notin Resumes
  <2>1. listing' = {} /\ disk' = <<>>
    BY <1>4 DEF Start
  <2>2. DOMAIN disk' = {}
    BY <2>1
  <2>3. disk' = [u \in DOMAIN disk' |->
                   [files |-> disk'[u].files, saved |-> disk'[u].saved]]
    BY <2>1, <2>2
  <2>4. IsFiniteSet(DOMAIN disk')
    BY <2>2, FS_EmptySet
  <2>5. TypeOK'
    BY <1>1, <2>2, <2>3, <2>4 DEF Base, TypeOK, Points, Filling
  <2>6. FileInv'
    BY <1>1, <2>2 DEF FileInv
  <2>7. ScanInv'
    BY <1>1, <2>1, <2>2 DEF ScanInv, Filling
  <2> QED BY <1>2, <2>5, <2>6, <2>7 DEF Base
<1> QED BY <1>3, <1>4

\* Removing an unfinished test keeps the basic facts.
LEMMA RemovalBase ==
  ASSUME Base,
         \/ \E u \in listing : ScanRemoves(u)
         \/ RemoveFile \/ RemoveDir
  PROVE  Base'
<1>1. ASSUME NEW u \in listing, ScanRemoves(u)
      PROVE  Base'
  <2>1. /\ pc = "scan" /\ pc' = "remove" /\ cur' = u /\ u # 0
        /\ listing' = listing \ {u}
        /\ UNCHANGED <<disk, job, stray, faults, command, args, seen>>
    BY <1>1 DEF ScanRemoves, scanned
  <2>2. u \in DOMAIN disk /\ u \notin seen
    BY <2>1 DEF Base, ScanInv
  <2>3. TypeOK'
    BY <2>1, <2>2 DEF Base, TypeOK, Points
  <2>4. FileInv'
    BY <2>1 DEF Base, FileInv, Has
  <2>5. ScanInv'
    BY <2>1, <2>2 DEF Base, ScanInv, Has
  <2>6. RunInv'
    BY <2>1 DEF Base, RunInv
  <2> QED BY <2>3, <2>4, <2>5, <2>6 DEF Base
<1>2. CASE RemoveFile
  <2>1. /\ pc = "remove" /\ pc' = "remove"
        /\ UNCHANGED <<job, stray, faults, command, args, cur, seen, listing>>
    BY <1>2 DEF RemoveFile, scanVars, testVars
  <2>2. cur \in DOMAIN disk /\ Directories
    BY <2>1 DEF Base, TypeOK, Directories
  <2>3. PICK f \in disk[cur].files :
          disk' = [disk EXCEPT ![cur] =
                     [files |-> @.files \ {f},
                      saved |-> IF f = "full" THEN {} ELSE @.saved]]
    BY <1>2 DEF RemoveFile
  <2>4. /\ DOMAIN disk' = DOMAIN disk /\ Directories'
        /\ \A u \in DOMAIN disk \ {cur} : disk'[u] = disk[u]
        /\ disk'[cur].files = disk[cur].files \ {f}
        /\ disk'[cur].saved = IF f = "full" THEN {} ELSE disk[cur].saved
    BY <2>2, <2>3, RemoveEffect
  <2>5. TypeOK'
    <3>1. \A u \in DOMAIN disk' : disk'[u].files \subseteq Files
      BY <2>2, <2>4 DEF Base, TypeOK
    <3> QED BY <2>1, <2>4, <3>1 DEF Base, TypeOK, Directories
  <2>6. FileInv'
    BY <2>1, <2>4 DEF Base, FileInv, Has
  <2>7. ScanInv'
    BY <2>1, <2>2, <2>4 DEF Base, ScanInv, Has
  <2>8. RunInv'
    BY <2>1 DEF Base, RunInv
  <2> QED BY <2>5, <2>6, <2>7, <2>8 DEF Base
<1>3. CASE RemoveDir
  <2>1. /\ pc = "remove" /\ pc' = "scan" /\ cur' = NoDir
        /\ disk[cur].files = {}
        /\ disk' = Restrict(disk, DOMAIN disk \ {cur})
        /\ UNCHANGED <<job, stray, faults, command, args, seen, listing>>
    BY <1>3 DEF RemoveDir, scanVars
  <2>2. cur \in DOMAIN disk /\ Directories
    BY <2>1 DEF Base, TypeOK, Directories
  <2>3. /\ DOMAIN disk' = DOMAIN disk \ {cur} /\ Directories'
        /\ \A u \in DOMAIN disk' : disk'[u] = disk[u]
    BY <2>1, <2>2, RemoveDirEffect
  <2>4. IsFiniteSet(DOMAIN disk')
    BY <2>3, FS_RemoveElement DEF Base, TypeOK
  <2>5. TypeOK'
    BY <2>1, <2>3, <2>4 DEF Base, TypeOK, Points, Filling, Directories
  <2>6. FileInv'
    BY <2>1, <2>3 DEF Base, FileInv, Has
  <2>7. ScanInv'
    BY <2>1, <2>3 DEF Base, ScanInv, Has, Filling
  <2>8. RunInv'
    BY <2>1 DEF Base, RunInv
  <2> QED BY <2>5, <2>6, <2>7, <2>8 DEF Base
<1> QED BY <1>1, <1>2, <1>3

\* The driver starts a test, and ends.
LEMMA DriverBase ==
  ASSUME Base,
         \/ BeginTest \/ Setup \/ SetupFails \/ TestDies \/ DriverExits
         \/ DriverFails \/ Done \/ Crash
  PROVE  Base'
<1>1. CASE BeginTest
  <2>1. /\ pc = "next" /\ pc' \in {"next", "make", "off"}
        /\ pc' = "make" => command' # {}
        /\ UNCHANGED <<disk, job, stray, faults, args, cur, seen, listing>>
    BY <1>1 DEF BeginTest, scanVars
  <2>2. ScanInv'
    BY <2>1 DEF Base, ScanInv, Has, Filling
  <2>3. RunInv'
    BY <2>1 DEF Base, RunInv
  <2> QED BY <2>1, <2>2, <2>3, QuietBase DEF Base, TypeOK
<1>2. CASE Setup \/ SetupFails
  <2>1. /\ pc = "setup" /\ pc' \in {"failed", "test"}
        /\ UNCHANGED <<disk, job, stray, command, args, cur, seen, listing>>
    BY <1>2 DEF Setup, SetupFails, untested, scanVars
  <2>2. faults' = faults \/ (faults > 0 /\ faults' = faults - 1)
    BY <1>2 DEF Setup, SetupFails
  <2>3. faults' \in 0..MaxFaults
    BY <2>2, CampaignAssumption DEF Base, TypeOK
  <2>4. ScanInv'
    BY <2>1 DEF Base, ScanInv, Has, Filling
  <2>5. RunInv'
    BY <2>1 DEF Base, RunInv
  <2> QED BY <2>1, <2>3, <2>4, <2>5, QuietBase DEF Base, TypeOK, Filling
<1>3. CASE TestDies
  <2>1. /\ pc \in {"test", "resps", "ops", "logs"} /\ pc' = "exit"
        /\ faults > 0 /\ faults' = faults - 1
        /\ UNCHANGED <<disk, job, stray, command, args, cur, seen, listing>>
    BY <1>3 DEF TestDies, untested, scanVars
  <2>2. faults' \in 0..MaxFaults
    BY <2>1, CampaignAssumption DEF Base, TypeOK
  <2>3. ScanInv'
    BY <2>1 DEF Base, ScanInv, Has, Filling
  <2>4. RunInv'
    BY <2>1 DEF Base, RunInv
  <2> QED BY <2>1, <2>2, <2>3, <2>4, QuietBase DEF Base, TypeOK, Filling
<1>4. CASE DriverExits \/ DriverFails
  <2>1. /\ pc \in {"exit", "failed"} /\ pc' \in {"next", "off"}
        /\ command' = {} /\ args' = {}
        /\ UNCHANGED <<disk, job, stray, faults, seen, listing>>
    BY <1>4 DEF DriverExits, DriverFails, testOver, scanVars
  <2>2. ScanInv'
    BY <2>1 DEF Base, ScanInv, Has, Filling
  <2>3. RunInv'
    BY <2>1 DEF RunInv
  <2> QED BY <2>1, <2>2, <2>3, QuietBase DEF Base, TypeOK
<1>5. CASE Done
  <2>1. /\ pc = "next" /\ pc' = "done"
        /\ UNCHANGED <<disk, job, stray, faults, command, args, cur, seen,
                       listing>>
    BY <1>5 DEF Done, scanVars, testVars
  <2>2. ScanInv'
    BY <2>1 DEF ScanInv
  <2>3. RunInv'
    BY <2>1 DEF Base, RunInv
  <2> QED BY <2>1, <2>2, <2>3, QuietBase DEF Base, TypeOK
<1>6. CASE Crash
  <2>1. /\ pc' = "off" /\ args' = {}
        /\ faults > 0 /\ faults' = faults - 1
        /\ UNCHANGED <<disk, job, stray, seen, listing>>
    BY <1>6 DEF Crash, testOver, scanVars
  <2>2. faults' \in 0..MaxFaults
    BY <2>1, CampaignAssumption DEF Base, TypeOK
  <2>3. ScanInv' /\ RunInv'
    BY <2>1 DEF ScanInv, RunInv
  <2> QED BY <2>1, <2>2, <2>3, QuietBase DEF Base, TypeOK
<1> QED BY <1>1, <1>2, <1>3, <1>4, <1>5, <1>6

\* What MakeDir does: a new and empty directory.
LEMMA MakeDirEffect ==
  ASSUME TypeOK, MakeDir
  PROVE  /\ cur' \in Nat \ {0} /\ cur' \notin DOMAIN disk
         /\ DOMAIN disk' = DOMAIN disk \cup {cur'} /\ Directories'
         /\ disk'[cur'].files = {} /\ disk'[cur'].saved = {}
         /\ \A u \in DOMAIN disk : disk'[u] = disk[u]
<1>1. cur' = Min((1..(Cardinality(DOMAIN disk) + 1)) \ DOMAIN disk)
  BY DEF MakeDir
<1>2. cur' \in Nat \ {0} /\ cur' \notin DOMAIN disk
  BY <1>1, FreshDir DEF TypeOK
<1>3. disk' = [u \in DOMAIN disk \cup {cur'} |->
                 IF u = cur' THEN [files |-> {}, saved |-> {}] ELSE disk[u]]
  BY DEF MakeDir
<1>4. /\ DOMAIN disk' = DOMAIN disk \cup {cur'}
      /\ disk'[cur'] = [files |-> {}, saved |-> {}]
      /\ \A u \in DOMAIN disk : disk'[u] = disk[u]
  BY <1>2, <1>3
<1>5. \A u \in DOMAIN disk' :
        disk'[u] = [files |-> disk'[u].files, saved |-> disk'[u].saved]
  BY <1>4 DEF TypeOK
<1>6. Directories'
  BY <1>3, <1>4, <1>5 DEF Directories
<1> QED BY <1>2, <1>4, <1>6

\* Making the directory of a test keeps the basic facts.
LEMMA MakeDirBase ==
  ASSUME Base, MakeDir
  PROVE  Base'
<1>1. /\ pc = "make" /\ pc' = "parse"
      /\ UNCHANGED <<job, stray, faults, command, args, seen, listing>>
  BY DEF MakeDir, untested, scanVars
<1>2. /\ cur' \in Nat \ {0} /\ cur' \notin DOMAIN disk
      /\ DOMAIN disk' = DOMAIN disk \cup {cur'} /\ Directories'
      /\ disk'[cur'].files = {} /\ disk'[cur'].saved = {}
      /\ \A u \in DOMAIN disk : disk'[u] = disk[u]
  BY MakeDirEffect DEF Base
<1>3. IsFiniteSet(DOMAIN disk')
  BY <1>2, FS_AddElement DEF Base, TypeOK
<1>4. TypeOK'
  <2>1. \A u \in DOMAIN disk' : disk'[u].files \subseteq Files
    BY <1>2 DEF Base, TypeOK
  <2> QED BY <1>1, <1>2, <1>3, <2>1 DEF Base, TypeOK, Points, Filling,
                                        Directories
<1>5. FileInv'
  BY <1>1, <1>2 DEF Base, FileInv, Has
<1>6. ScanInv'
  BY <1>1, <1>2 DEF Base, ScanInv, Filling
<1>7. RunInv'
  BY <1>1 DEF Base, RunInv
<1> QED BY <1>4, <1>5, <1>6, <1>7 DEF Base

\* The driver or the test process adds to the directory it fills.
LEMMA PutBase ==
  ASSUME Base, pc \in Filling, pc' \in Filling,
         NEW old, NEW new \in SUBSET Files, disk' = Put(old, new),
         UNCHANGED <<job, stray, cur, seen>>, faults' \in 0..MaxFaults,
         FileInv', RunInv'
  PROVE  Base'
<1>1. cur \in DOMAIN disk /\ Directories
  BY DEF Base, TypeOK, Directories
<1>2. /\ DOMAIN disk' = DOMAIN disk /\ Directories'
      /\ \A u \in DOMAIN disk : disk'[u].saved = disk[u].saved
      /\ \A u \in DOMAIN disk \ {cur} : disk'[u] = disk[u]
      /\ disk'[cur].files = (disk[cur].files \ old) \cup new
  BY <1>1, PutEffect
<1>3. TypeOK'
  <2>1. \A u \in DOMAIN disk' : disk'[u].files \subseteq Files
    BY <1>1, <1>2 DEF Base, TypeOK
  <2> QED BY <1>1, <1>2, <2>1 DEF Base, TypeOK, Points, Directories
<1>4. ScanInv'
  BY <1>2 DEF Base, ScanInv, Filling
<1> QED BY <1>3, <1>4 DEF Base

\* Writing the results of a test keeps the basic facts.
LEMMA TestBase ==
  ASSUME Base, OpenResps \/ WriteResps \/ WriteOps \/ HandleTestEnd
  PROVE  Base'
<1>0. pc \in Filling /\ pc' \in Filling
      /\ UNCHANGED <<job, stray, command, cur, args, seen>>
      /\ (faults' = faults \/ (faults > 0 /\ faults' = faults - 1))
  BY DEF OpenResps, WriteResps, WriteOps, HandleTestEnd, untested, scanVars,
         Filling
<1>1. faults' \in 0..MaxFaults
  BY <1>0, CampaignAssumption DEF Base, TypeOK
<1>2. RunInv'
  BY <1>0 DEF Base, RunInv, OpenResps, WriteResps, WriteOps, HandleTestEnd
<1>3. cur \in DOMAIN disk /\ Directories
  BY <1>0 DEF Base, TypeOK, Directories
<1>4. CASE OpenResps
  <2>1. pc = "test" /\ pc' = "resps" /\ disk' = Put({}, {"part"})
    BY <1>4 DEF OpenResps
  <2>2. FileInv'
    BY <1>0, <1>3, <2>1, PutEffect DEF Base, FileInv, Has
  <2> QED BY <1>0, <1>1, <1>2, <2>1, <2>2, PutBase DEF Files
<1>5. CASE WriteResps
  <2>1. pc = "resps" /\ pc' = "ops" /\ disk' = Put({"part"}, {"resps"})
    BY <1>5 DEF WriteResps
  <2>2. FileInv'
    BY <1>0, <1>3, <2>1, PutEffect DEF Base, FileInv, Has
  <2> QED BY <1>0, <1>1, <1>2, <2>1, <2>2, PutBase DEF Files
<1>6. CASE WriteOps
  <2>1. pc = "ops" /\ pc' = "logs" /\ disk' = Put({}, {"ops"})
    BY <1>6 DEF WriteOps
  <2>2. FileInv'
    BY <1>0, <1>3, <2>1, PutEffect DEF Base, FileInv, Has
  <2> QED BY <1>0, <1>1, <1>2, <2>1, <2>2, PutBase DEF Files
<1>7. CASE HandleTestEnd
  <2>1. pc = "logs" /\ pc' = "exit"
        /\ \E new \in {{"node"}, {"node", "bare"}} : disk' = Put({}, new)
    BY <1>7 DEF HandleTestEnd
  <2>2. PICK new \in {{"node"}, {"node", "bare"}} : disk' = Put({}, new)
    BY <2>1
  <2>3. FileInv'
    BY <1>0, <1>3, <2>1, <2>2, PutEffect DEF Base, FileInv, Has
  <2> QED BY <1>0, <1>1, <1>2, <2>2, <2>3, PutBase DEF Files
<1> QED BY <1>4, <1>5, <1>6, <1>7

\* Writing the configuration of a test keeps the basic facts.
LEMMA ConfigBase ==
  ASSUME Base, ParseArgs \/ WriteConfigFull
  PROVE  Base'
<1>0. UNCHANGED <<job, stray, command, cur, seen, listing, faults>>
  BY DEF ParseArgs, WriteConfigFull, untested, scanVars
<1>1. CASE ParseArgs
  <2>1. pc = "parse" /\ args' # {}
    BY <1>1 DEF ParseArgs
  <2>2. cur \in DOMAIN disk /\ Directories
    BY <2>1 DEF Base, TypeOK, Directories, Filling
  <2>3. CASE pc' = "save" /\ disk' = Put({}, {"full"})
    <3>1. FileInv'
      BY <1>0, <2>1, <2>2, <2>3, PutEffect DEF Base, FileInv, Has
    <3>2. RunInv'
      BY <1>0, <2>1, <2>3 DEF Base, RunInv
    <3> QED
      BY <1>0, <2>1, <2>3, <3>1, <3>2, PutBase
      DEF Base, TypeOK, Files, Filling
  <2>4. CASE pc' = "failed" /\ disk' = disk
    <3>1. ScanInv'
      BY <1>0, <2>1, <2>4 DEF Base, ScanInv, Has, Filling
    <3>2. RunInv'
      BY <2>4 DEF RunInv
    <3> QED
      BY <1>0, <2>1, <2>4, <3>1, <3>2, QuietBase DEF Base, TypeOK, Filling
  <2> QED BY <1>1, <2>3, <2>4 DEF ParseArgs
<1>2. CASE WriteConfigFull
  <2>1. /\ pc = "save" /\ pc' = "setup" /\ args' = args
        /\ disk' = [disk EXCEPT ![cur] = [files |-> @.files,
                                          saved |-> {SaveConfig(TheArgs)}]]
    BY <1>2 DEF WriteConfigFull
  <2>2. cur \in DOMAIN disk /\ Directories
    BY <2>1 DEF Base, TypeOK, Directories, Filling
  <2>3. /\ DOMAIN disk' = DOMAIN disk /\ Directories'
        /\ \A u \in DOMAIN disk : disk'[u].files = disk[u].files
        /\ \A u \in DOMAIN disk \ {cur} : disk'[u] = disk[u]
        /\ disk'[cur].saved = {SaveConfig(TheArgs)}
    BY <2>1, <2>2, SaveEffect
  <2>4. TypeOK'
    BY <1>0, <2>1, <2>2, <2>3 DEF Base, TypeOK, Points, Filling, Directories
  <2>5. FileInv'
    BY <1>0, <2>1, <2>2, <2>3 DEF Base, FileInv, Has
  <2>6. ScanInv'
    BY <1>0, <2>1, <2>2, <2>3 DEF Base, ScanInv, Filling
  <2>7. RunInv'
    BY <1>0, <2>1 DEF Base, RunInv
  <2> QED BY <2>4, <2>5, <2>6, <2>7 DEF Base
<1> QED BY <1>1, <1>2

-----------------------------------------------------------------------------
(***************************************************************************)
(* Origins, seeds and numbers.                                             *)
(***************************************************************************)
Ahead == OriginInv /\ SeedInv /\ CountInv
Testing == {"next", "make"} \cup Filling

\* What is said of a job depends on the job alone.
LEMMA JobKept ==
  ASSUME job' = job
  PROVE  /\ Modelled' <=> Modelled
         /\ Places' = Places
         /\ \A k : Line(k)' = Line(k)
         /\ \A k, u : OptionsOf(k, u)' = OptionsOf(k, u)
<1>1. Sources' = Sources
  BY DEF Sources
<1>2. \A k : Line(k)' = Line(k)
  BY <1>1 DEF Line
<1> QED BY <1>1, <1>2 DEF Modelled, Places, OptionsOf

\* There are finitely many directories.
LEMMA FullDirsFinite ==
  ASSUME TypeOK
  PROVE  /\ FullDirs \in SUBSET (DOMAIN disk) /\ IsFiniteSet(FullDirs)
         /\ Cardinality(FullDirs) \in Nat
<1>1. FullDirs \in SUBSET (DOMAIN disk)
  BY DEF FullDirs
<1>2. IsFiniteSet(FullDirs)
  BY <1>1, FS_Subset DEF TypeOK
<1> QED BY <1>1, <1>2, FS_CardinalityType

\* A step that saves nothing and takes no new test up.
LEMMA NothingNew ==
  ASSUME TypeOK, Ahead, job' = job, todo' \subseteq todo,
         \A u \in DOMAIN disk' :
           \/ disk'[u].saved = {}
           \/ u \in DOMAIN disk /\ disk'[u].saved = disk[u].saved,
         FullDirs' \subseteq FullDirs,
         command' \subseteq command,
         args' = {} \/ (args' = args /\ command' = command /\ cur' = cur),
         pc' \in Testing => pc \in Testing /\ seen' = seen,
         pc' \in {"make", "parse", "save"} =>
           pc \in {"make", "parse", "save"} /\ command' = command,
         pc' \in {"make", "parse"} => pc \in {"make", "parse"}
  PROVE  Ahead'
<1>1. OriginInv'
  <2>1. SUFFICES ASSUME Modelled
        PROVE  (/\ \A t \in todo : \E k \in Places : t = Task(k, Line(k))
                /\ \A c \in command : \E k \in Places : c = Line(k)
                /\ \A a \in args : \E k \in Places : a = OptionsOf(k, cur)
                /\ \A u \in DOMAIN disk : \A c \in disk[u].saved :
                     \E k \in Places : c = SaveConfig(OptionsOf(k, u)))'
    BY JobKept DEF OriginInv
  <2>2. \A t \in todo' : \E k \in Places : t = Task(k, Line(k))
    BY <2>1 DEF Ahead, OriginInv
  <2>3. \A c \in command' : \E k \in Places : c = Line(k)
    BY <2>1 DEF Ahead, OriginInv
  <2>4. \A a \in args' : \E k \in Places : a = OptionsOf(k, cur')
    BY <2>1 DEF Ahead, OriginInv
  <2>5. \A u \in DOMAIN disk' : \A c \in disk'[u].saved :
          \E k \in Places : c = SaveConfig(OptionsOf(k, u))
    BY <2>1 DEF Ahead, OriginInv
  <2>6. \A a \in args' : \E k \in Places' : a = OptionsOf(k, cur)'
    BY <2>4, JobKept DEF OptionsOf, Now
  <2> QED BY <2>2, <2>3, <2>5, <2>6, JobKept
<1>2. SeedInv'
  <2>1. SUFFICES ASSUME job.mode \in Replays
        PROVE  SeedInv'
    BY DEF SeedInv
  <2>2. SavedDirs' \subseteq SavedDirs
        /\ \A u \in SavedDirs' : disk'[u].saved = disk[u].saved
    BY DEF SavedDirs
  <2>3. \A u \in SavedDirs' : Seed(u)' = Seed(u)
    BY <2>2 DEF Seed, Saved
  <2>4. \A u, v \in SavedDirs' : Seed(u)' = Seed(v)' => u = v
    BY <2>1, <2>2, <2>3 DEF Ahead, SeedInv
  <2>5. pc' \in Testing => \A u \in SavedDirs' \ seen' : \A t \in todo' :
                             Seed(u)' # t.cmd.key_gen_seed
    BY <2>1, <2>2, <2>3 DEF Ahead, SeedInv, Testing
  <2>6. pc' \in {"make", "parse", "save"} => \A c \in command' :
          /\ \A t \in todo' : t.cmd.key_gen_seed # c.key_gen_seed
          /\ \A u \in SavedDirs' : Seed(u)' # c.key_gen_seed
    BY <2>1, <2>2, <2>3 DEF Ahead, SeedInv
  <2>7. \A a \in args' : \E c \in command' : a.key_gen_seed = c.key_gen_seed
    BY <2>1 DEF Ahead, SeedInv
  <2> QED BY <2>4, <2>5, <2>6, <2>7 DEF SeedInv, Testing
<1>3. CountInv'
  <2>1. SUFFICES ASSUME job.mode = "kubetest"
        PROVE  CountInv'
    BY DEF CountInv
  <2>2. job.runs \in Nat
    BY CampaignAssumption DEF TypeOK
  <2>3. /\ Cardinality(FullDirs) \in Nat /\ Cardinality(FullDirs') \in Nat
        /\ Cardinality(FullDirs') <= Cardinality(FullDirs)
    BY FullDirsFinite, FS_Subset, FS_CardinalityType
  <2>4. ASSUME pc' \in Testing
        PROVE  /\ IsFiniteSet(todo')
               /\ Cardinality(FullDirs') + Cardinality(todo') + Pending'
                    <= job.runs
    <3>1. /\ IsFiniteSet(todo)
          /\ Cardinality(FullDirs) + Cardinality(todo) + Pending <= job.runs
      BY <2>1, <2>4 DEF Ahead, CountInv, Testing
    <3>2. /\ IsFiniteSet(todo') /\ Cardinality(todo') \in Nat
          /\ Cardinality(todo) \in Nat
          /\ Cardinality(todo') <= Cardinality(todo)
      BY <3>1, FS_Subset, FS_CardinalityType
    <3>3. Pending \in 0..1 /\ Pending' \in 0..1 /\ Pending' <= Pending
      BY <2>4 DEF Pending
    <3> QED BY <2>2, <2>3, <3>1, <3>2, <3>3
  <2>5. Cardinality(FullDirs') <= job.runs
    BY <2>1, <2>2, <2>3 DEF Ahead, CountInv
  <2> QED BY <2>4, <2>5 DEF CountInv, Testing
<1> QED BY <1>1, <1>2, <1>3 DEF Ahead

\* Quiet steps, those that remove, those that add files, and MakeDir.
LEMMA NothingNewSteps ==
  ASSUME Base, Ahead,
         \/ Start \/ RemoveFile \/ RemoveDir \/ ScanStray \/ MakeDir
         \/ \E u \in listing : ScanCounts(u) \/ ScanSkips(u) \/ ScanRemoves(u)
         \/ Setup \/ SetupFails \/ OpenResps \/ WriteResps \/ WriteOps
         \/ HandleTestEnd \/ TestDies \/ DriverExits \/ DriverFails \/ Done
         \/ Crash
  PROVE  Ahead'
<1>0. TypeOK /\ Directories
  BY DEF Base, TypeOK, Directories
<1>1. CASE Start
  <2>1. /\ pc' = "scan" /\ todo' = {} /\ (disk' = disk \/ disk' = <<>>)
        /\ UNCHANGED <<job, command, args, cur>>
    BY <1>1 DEF Start, testVars
  <2>2. FullDirs' \subseteq FullDirs
    BY <2>1 DEF FullDirs, Has
  <2> QED BY <1>0, <2>1, <2>2, NothingNew DEF Testing, Filling
<1>2. CASE RemoveFile
  <2>1. /\ pc = "remove" /\ pc' = "remove"
        /\ UNCHANGED <<job, todo, command, args, cur>>
    BY <1>2 DEF RemoveFile, testVars
  <2>2. cur \in DOMAIN disk
    BY <1>0, <2>1 DEF TypeOK
  <2>3. PICK f \in disk[cur].files :
          disk' = [disk EXCEPT ![cur] =
                     [files |-> @.files \ {f},
                      saved |-> IF f = "full" THEN {} ELSE @.saved]]
    BY <1>2 DEF RemoveFile
  <2>4. /\ DOMAIN disk' = DOMAIN disk
        /\ \A u \in DOMAIN disk \ {cur} : disk'[u] = disk[u]
        /\ disk'[cur].files = disk[cur].files \ {f}
        /\ disk'[cur].saved = IF f = "full" THEN {} ELSE disk[cur].saved
    BY <1>0, <2>2, <2>3, RemoveEffect
  <2>5. FullDirs' \subseteq FullDirs
    BY <2>4 DEF FullDirs, Has
  <2>6. \A u \in DOMAIN disk' :
           \/ disk'[u].saved = {}
           \/ u \in DOMAIN disk /\ disk'[u].saved = disk[u].saved
    BY <2>4
  <2> QED BY <1>0, <2>1, <2>5, <2>6, NothingNew DEF Testing, Filling
<1>3. CASE RemoveDir
  <2>1. /\ pc' = "scan" /\ disk' = Restrict(disk, DOMAIN disk \ {cur})
        /\ UNCHANGED <<job, todo, command, args>> /\ pc = "remove"
    BY <1>3 DEF RemoveDir
  <2>2. args' = {}
    BY <2>1 DEF Base, RunInv
  <2>3. /\ DOMAIN disk' = DOMAIN disk \ {cur}
        /\ \A u \in DOMAIN disk' : disk'[u] = disk[u]
    BY <1>0, <2>1, RemoveDirEffect
  <2>4. FullDirs' \subseteq FullDirs
    BY <2>3 DEF FullDirs, Has
  <2> QED BY <1>0, <2>1, <2>2, <2>3, <2>4, NothingNew DEF Testing, Filling
<1>4. CASE ScanStray
  <2>1. pc' \in {"scan", "off"} /\ UNCHANGED <<disk, job, todo, command, args, cur>>
    BY <1>4 DEF ScanStray, scanned
  <2>2. FullDirs' = FullDirs
    BY <2>1 DEF FullDirs, Has
  <2> QED BY <1>0, <2>1, <2>2, NothingNew DEF Testing, Filling
<1>5. CASE MakeDir
  <2>1. /\ pc = "make" /\ pc' = "parse"
        /\ UNCHANGED <<job, todo, command, args, seen>>
    BY <1>5 DEF MakeDir, untested, scanVars
  <2>2. args' = {}
    BY <2>1 DEF Base, RunInv
  <2>3. /\ DOMAIN disk' = DOMAIN disk \cup {cur'}
        /\ disk'[cur'].files = {} /\ disk'[cur'].saved = {}
        /\ \A u \in DOMAIN disk : disk'[u] = disk[u]
    BY <1>0, <1>5, MakeDirEffect
  <2>4. FullDirs' \subseteq FullDirs
    BY <2>3 DEF FullDirs, Has
  <2> QED BY <1>0, <2>1, <2>2, <2>3, <2>4, NothingNew DEF Testing, Filling
<1>6. ASSUME NEW u \in listing, ScanCounts(u) \/ ScanSkips(u) \/ ScanRemoves(u)
      PROVE  Ahead'
  <2>1. /\ pc' \in {"scan", "remove"} /\ pc = "scan"
        /\ UNCHANGED <<disk, job, todo, command, args>>
    BY <1>6 DEF ScanCounts, ScanSkips, ScanRemoves, scanned
  <2>2. args' = {}
    BY <2>1 DEF Base, RunInv
  <2>3. FullDirs' = FullDirs
    BY <2>1 DEF FullDirs, Has
  <2> QED BY <1>0, <2>1, <2>2, <2>3, NothingNew DEF Testing, Filling
<1>7. CASE Setup \/ SetupFails \/ TestDies
  <2>1. /\ pc \in {"setup", "test", "resps", "ops", "logs"}
        /\ pc' \in {"failed", "test", "exit"}
        /\ UNCHANGED <<disk, job, todo, command, args, cur, seen>>
    BY <1>7 DEF Setup, SetupFails, TestDies, untested, scanVars
  <2>2. FullDirs' = FullDirs
    BY <2>1 DEF FullDirs, Has
  <2> QED BY <1>0, <2>1, <2>2, NothingNew DEF Testing, Filling
<1>8. CASE OpenResps \/ WriteResps \/ WriteOps \/ HandleTestEnd
  <2>1. /\ pc \in {"test", "resps", "ops", "logs"}
        /\ pc' \in {"resps", "ops", "logs", "exit"}
        /\ UNCHANGED <<job, todo, command, args, cur, seen>>
    BY <1>8 DEF OpenResps, WriteResps, WriteOps, HandleTestEnd, untested,
                scanVars
  <2>2. \E old, new : disk' = Put(old, new) /\ "full" \notin new
    <3>1. "full" \notin {"part"} /\ "full" \notin {"resps"}
          /\ "full" \notin {"ops"} /\ "full" \notin {"node"}
          /\ "full" \notin {"node", "bare"}
      OBVIOUS
    <3> QED
      BY <1>8, <3>1 DEF OpenResps, WriteResps, WriteOps, HandleTestEnd
  <2>3. PICK old, new : disk' = Put(old, new) /\ "full" \notin new
    BY <2>2
  <2>4. cur \in DOMAIN disk
    BY <1>0, <2>1 DEF TypeOK, Filling
  <2>5. /\ DOMAIN disk' = DOMAIN disk
        /\ \A u \in DOMAIN disk : disk'[u].saved = disk[u].saved
        /\ \A u \in DOMAIN disk \ {cur} : disk'[u] = disk[u]
        /\ disk'[cur].files = (disk[cur].files \ old) \cup new
    BY <1>0, <2>3, <2>4, PutEffect
  <2>6. FullDirs' \subseteq FullDirs
    BY <2>3, <2>5 DEF FullDirs, Has
  <2> QED BY <1>0, <2>1, <2>5, <2>6, NothingNew DEF Testing, Filling
<1>9. CASE DriverExits \/ DriverFails \/ Crash
  <2>1. /\ command' = {} /\ args' = {} /\ UNCHANGED <<disk, job, todo, seen>>
        /\ pc' \in {"next", "off"}
        /\ pc' = "next" => pc \in {"exit", "failed"}
    BY <1>9 DEF DriverExits, DriverFails, Crash, testOver, scanVars
  <2>2. FullDirs' = FullDirs
    BY <2>1 DEF FullDirs, Has
  <2> QED BY <1>0, <2>1, <2>2, NothingNew DEF Testing, Filling
<1>10. CASE Done
  <2>1. pc' = "done" /\ UNCHANGED <<disk, job, todo, command, args, cur>>
    BY <1>10 DEF Done, testVars
  <2>2. FullDirs' = FullDirs
    BY <2>1 DEF FullDirs, Has
  <2> QED BY <1>0, <2>1, <2>2, NothingNew DEF Testing, Filling
<1> QED
  BY <1>1, <1>2, <1>3, <1>4, <1>5, <1>6, <1>7, <1>8, <1>9, <1>10

\* The actions of a campaign that is modelled to its options.
LEMMA ActionsOrigin ==
  ASSUME Modelled
  PROVE  \A t \in Actions : \E k \in Places : t = Task(k, Line(k))
<1>1. CASE job.mode = "edge"
  <2>1. Actions = {Task(k, EdgeReplay(Sources[k].config, job.variant, job.loss)) :
                     k \in 1..Len(Sources)}
    BY <1>1 DEF Actions
  <2> QED BY <1>1, <2>1 DEF Places, Line
<1>2. CASE job.mode = "pi4"
  <2>1. Actions = {Task(k, Pi4Replay(Sources[k].config, Sources[k].links)) :
                     k \in 1..Len(Sources)}
    BY <1>2 DEF Actions
  <2> QED BY <1>2, <2>1 DEF Places, Line
<1>3. CASE job.mode = "hand"
  <2>1. Actions = {Task(1, job.cmd)}
    BY <1>3 DEF Actions
  <2> QED BY <1>3, <2>1 DEF Places, Line
<1> QED BY <1>1, <1>2, <1>3 DEF Modelled, Replays

\* As many repetitions as are missing.
LEMMA ActionsCount ==
  ASSUME job.mode = "kubetest", job.runs \in Nat, Cardinality(seen) \in Nat,
         Cardinality(seen) <= job.runs
  PROVE  /\ IsFiniteSet(Actions)
         /\ Cardinality(Actions) + Cardinality(seen) <= job.runs
<1> DEFINE n == job.runs - Cardinality(seen)
           c == RunTestCommand(Kubetest(job.variant, job.loss))
           f == [k \in 1..n |-> Task(k, c)]
<1>1. Actions = {Task(k, c) : k \in 1..n}
  BY DEF Actions
<1>2. n \in Nat /\ n + Cardinality(seen) = job.runs
  OBVIOUS
<1> HIDE DEF n, c
<1>3. f \in Surjection(1..n, Actions)
  BY <1>1 DEF Surjection
<1>4. IsFiniteSet(1..n) /\ Cardinality(1..n) = n
  BY <1>2, FS_Interval
<1>5. IsFiniteSet(Actions) /\ Cardinality(Actions) <= n
  BY <1>3, <1>4, FS_Surjection
<1>6. Cardinality(Actions) \in Nat
  BY <1>5, FS_CardinalityType
<1> QED BY <1>2, <1>5, <1>6

\* The end of the scan keeps origins, seeds and numbers.
LEMMA ScanEndsAhead ==
  ASSUME Base, Ahead, ScanEnds
  PROVE  Ahead'
<1>1. /\ pc = "scan" /\ pc' = "next" /\ listing = {} /\ todo' = Actions
      /\ UNCHANGED <<job, disk, seen, command, cur, args>>
  BY DEF ScanEnds, scanVars, testVars
<1>2. args = {}
  BY <1>1 DEF Base, RunInv
<1>3. FullDirs = seen
  <2>1. FullDirs \subseteq seen
    BY <1>1 DEF Base, ScanInv, FullDirs
  <2>2. seen \subseteq FullDirs
    BY <1>1 DEF Base, ScanInv, FileInv, FullDirs
  <2> QED BY <2>1, <2>2
<1>4. SavedDirs \subseteq seen
  BY <1>3 DEF Base, FileInv, SavedDirs, FullDirs
<1>5. OriginInv'
  <2>1. SUFFICES ASSUME Modelled PROVE OriginInv'
    BY <1>1, JobKept DEF OriginInv
  <2>2. \A t \in todo' : \E k \in Places : t = Task(k, Line(k))
    BY <1>1, <2>1, ActionsOrigin
  <2>3. \A c \in command' : \E k \in Places : c = Line(k)
    BY <1>1, <2>1 DEF Ahead, OriginInv
  <2>4. \A u \in DOMAIN disk' : \A c \in disk'[u].saved :
          \E k \in Places : c = SaveConfig(OptionsOf(k, u))
    BY <1>1, <2>1 DEF Ahead, OriginInv
  <2> QED BY <1>1, <1>2, <2>2, <2>3, <2>4, JobKept DEF OriginInv
<1>6. SeedInv'
  <2>1. SavedDirs' = SavedDirs
    BY <1>1 DEF SavedDirs
  <2>2. \A u : Seed(u)' = Seed(u)
    BY <1>1 DEF Seed, Saved
  <2> QED BY <1>1, <1>2, <1>4, <2>1, <2>2 DEF Ahead, SeedInv
<1>7. CountInv'
  <2>1. SUFFICES ASSUME job.mode = "kubetest" PROVE CountInv'
    BY <1>1 DEF CountInv
  <2>2. job.runs \in Nat
    BY CampaignAssumption DEF Base, TypeOK
  <2>3. Cardinality(seen) \in Nat /\ Cardinality(seen) <= job.runs
    BY <1>3, <2>1, FullDirsFinite DEF Base, Ahead, CountInv
  <2>4. /\ IsFiniteSet(Actions)
        /\ Cardinality(Actions) + Cardinality(seen) <= job.runs
    BY <2>1, <2>2, <2>3, ActionsCount
  <2>5. Cardinality(Actions) \in Nat
    BY <2>4, FS_CardinalityType
  <2>6. FullDirs' = seen
    BY <1>1, <1>3 DEF FullDirs, Has
  <2>7. Pending' = 0
    BY <1>1 DEF Pending
  <2>8. Cardinality(FullDirs') + Cardinality(todo') + Pending' <= job.runs
    BY <1>1, <2>2, <2>3, <2>4, <2>5, <2>6, <2>7
  <2> QED BY <1>1, <2>3, <2>4, <2>6, <2>8 DEF CountInv
<1> QED BY <1>5, <1>6, <1>7 DEF Ahead

\* Beginning a test keeps origins, seeds and numbers.
LEMMA BeginTestAhead ==
  ASSUME Base, Ahead, BeginTest
  PROVE  Ahead'
<1>0. TypeOK
  BY DEF Base
<1>1. pc = "next" /\ UNCHANGED <<job, disk, seen, cur, args>>
  BY DEF BeginTest, scanVars
<1>2. args = {}
  BY <1>1 DEF Base, RunInv
<1>3. PICK task \in todo :
        /\ todo' = todo \ {task}
        /\ \/ ~Skipped(task) /\ pc' = "make" /\ command' = {task.cmd}
           \/ pc' \in {"next", "off"} /\ command' = command
  BY <1>1 DEF BeginTest
<1>4. FullDirs' = FullDirs
  BY <1>1 DEF FullDirs, Has
<1>5. CASE pc' \in {"next", "off"} /\ command' = command
  BY <1>0, <1>1, <1>2, <1>3, <1>4, <1>5, NothingNew DEF Testing, Filling
<1>6. CASE ~Skipped(task) /\ pc' = "make" /\ command' = {task.cmd}
  <2>1. OriginInv'
    <3>1. SUFFICES ASSUME Modelled PROVE OriginInv'
      BY <1>1, JobKept DEF OriginInv
    <3>2. PICK k \in Places : task = Task(k, Line(k))
      BY <3>1 DEF Ahead, OriginInv
    <3>3. task.cmd = Line(k)
      BY <3>2 DEF Task
    <3>4. \A t \in todo' : \E j \in Places : t = Task(j, Line(j))
      BY <1>3, <3>1 DEF Ahead, OriginInv
    <3>5. \A c \in command' : \E j \in Places : c = Line(j)
      BY <1>6, <3>3
    <3>6. \A u \in DOMAIN disk' : \A c \in disk'[u].saved :
            \E j \in Places : c = SaveConfig(OptionsOf(j, u))
      BY <1>1, <3>1 DEF Ahead, OriginInv
    <3> QED BY <1>1, <1>2, <3>4, <3>5, <3>6, JobKept DEF OriginInv
  <2>2. SeedInv'
    <3>1. SUFFICES ASSUME job.mode \in Replays PROVE SeedInv'
      BY <1>1 DEF SeedInv
    <3>2. Modelled
      BY <3>1 DEF Modelled
    <3>3. SavedDirs' = SavedDirs /\ \A u : Seed(u)' = Seed(u)
      BY <1>1 DEF SavedDirs, Seed, Saved
    <3>4. \A t \in todo' : t.cmd.key_gen_seed # task.cmd.key_gen_seed
      <4>1. SUFFICES ASSUME NEW t \in todo',
                            t.cmd.key_gen_seed = task.cmd.key_gen_seed
                     PROVE  FALSE
        OBVIOUS
      <4>2. PICK j \in Places : t = Task(j, Line(j))
        BY <1>3, <3>2 DEF Ahead, OriginInv
      <4>3. PICK k \in Places : task = Task(k, Line(k))
        BY <3>2 DEF Ahead, OriginInv
      <4>4. Line(j).key_gen_seed = Line(k).key_gen_seed
        BY <4>1, <4>2, <4>3 DEF Task
      <4>5. j = k
        BY <1>0, <3>1, <4>4, SeedsDiffer DEF TypeOK
      <4> QED BY <1>3, <4>2, <4>3, <4>5
    <3>5. \A u \in SavedDirs : Seed(u) # task.cmd.key_gen_seed
      <4>1. ASSUME NEW u \in SavedDirs, u \in seen
            PROVE  Seed(u) # task.cmd.key_gen_seed
        BY <1>6, <3>1, <4>1 DEF Skipped, Seed
      <4>2. ASSUME NEW u \in SavedDirs, u \notin seen
            PROVE  Seed(u) # task.cmd.key_gen_seed
        BY <1>1, <3>1, <4>2 DEF Ahead, SeedInv
      <4> QED BY <4>1, <4>2
    <3>6. \A u \in SavedDirs \ seen : \A t \in todo' :
            Seed(u) # t.cmd.key_gen_seed
      BY <1>1, <1>3, <3>1 DEF Ahead, SeedInv
    <3>7. \A u, v \in SavedDirs : Seed(u) = Seed(v) => u = v
      BY <3>1 DEF Ahead, SeedInv
    <3> QED
      BY <1>1, <1>2, <1>6, <3>3, <3>4, <3>5, <3>6, <3>7 DEF SeedInv
  <2>3. CountInv'
    <3>1. SUFFICES ASSUME job.mode = "kubetest" PROVE CountInv'
      BY <1>1 DEF CountInv
    <3>2. job.runs \in Nat /\ Cardinality(FullDirs) \in Nat
      BY <1>0, CampaignAssumption, FullDirsFinite DEF TypeOK
    <3>3. Pending = 0 /\ Pending' = 1
      BY <1>1, <1>6 DEF Pending
    <3>4. /\ IsFiniteSet(todo)
          /\ Cardinality(FullDirs) + Cardinality(todo) + Pending <= job.runs
          /\ Cardinality(FullDirs) <= job.runs
      BY <1>1, <3>1 DEF Ahead, CountInv
    <3>5. /\ IsFiniteSet(todo') /\ Cardinality(todo) \in Nat
          /\ Cardinality(todo') = Cardinality(todo) - 1
      BY <1>3, <3>4, FS_RemoveElement, FS_CardinalityType
    <3>6. Cardinality(FullDirs') + Cardinality(todo') + Pending' <= job.runs
      BY <1>4, <3>2, <3>3, <3>4, <3>5
    <3> QED BY <1>1, <1>4, <3>4, <3>5, <3>6 DEF CountInv
  <2> QED BY <2>1, <2>2, <2>3 DEF Ahead
<1> QED BY <1>3, <1>5, <1>6

\* Parsing a line keeps origins, seeds and numbers.
LEMMA ParseArgsAhead ==
  ASSUME Base, Ahead, ParseArgs
  PROVE  Ahead'
<1> DEFINE c == CHOOSE x \in command : TRUE
           parsed == Parse(c, Now(cur))
           a == IF job.mode = "hand" /\ job.config
                THEN LoadConfig(parsed, Sources[1].config, Now(cur))
                ELSE parsed
<1>0. TypeOK /\ Directories
  BY DEF Base, TypeOK, Directories
<1>1. /\ pc = "parse" /\ args' = {a}
      /\ UNCHANGED <<job, seen, todo, command, cur>>
      /\ \/ pc' = "save" /\ disk' = Put({}, {"full"})
         \/ pc' = "failed" /\ disk' = disk
  BY DEF ParseArgs, untested, scanVars
<1>2. c \in command
  BY <1>1 DEF Base, RunInv
<1>3. cur \in DOMAIN disk
  BY <1>0, <1>1 DEF TypeOK, Filling
<1>4. /\ DOMAIN disk' = DOMAIN disk
      /\ \A u \in DOMAIN disk : disk'[u].saved = disk[u].saved
      /\ FullDirs' = FullDirs \/ (pc' = "save" /\ FullDirs' = FullDirs \cup {cur})
  <2>1. CASE pc' = "failed" /\ disk' = disk
    BY <2>1 DEF FullDirs, Has
  <2>2. CASE pc' = "save" /\ disk' = Put({}, {"full"})
    <3>1. /\ DOMAIN disk' = DOMAIN disk
          /\ \A u \in DOMAIN disk : disk'[u].saved = disk[u].saved
          /\ \A u \in DOMAIN disk \ {cur} : disk'[u] = disk[u]
          /\ disk'[cur].files = (disk[cur].files \ {}) \cup {"full"}
      BY <1>0, <1>3, <2>2, PutEffect
    <3>2. FullDirs' = FullDirs \cup {cur}
      BY <1>3, <3>1 DEF FullDirs, Has
    <3> QED BY <2>2, <3>1, <3>2
  <2> QED BY <1>1, <2>1, <2>2
<1>5. ASSUME Modelled
      PROVE  \E k \in Places : c = Line(k) /\ a = OptionsOf(k, cur)
  <2>1. PICK k \in Places : c = Line(k)
    BY <1>2, <1>5 DEF Ahead, OriginInv
  <2> HIDE DEF c
  <2>2. a = OptionsOf(k, cur)
    BY <2>1 DEF OptionsOf
  <2> QED BY <2>1, <2>2
<1> HIDE DEF c, a
<1>6. OriginInv'
  <2>1. SUFFICES ASSUME Modelled PROVE OriginInv'
    BY <1>1, JobKept DEF OriginInv
  <2>2. \A t \in todo' : \E k \in Places : t = Task(k, Line(k))
    BY <1>1, <2>1 DEF Ahead, OriginInv
  <2>3. \A x \in command' : \E k \in Places : x = Line(k)
    BY <1>1, <2>1 DEF Ahead, OriginInv
  <2>4. \A x \in args' : \E k \in Places' : x = OptionsOf(k, cur)'
    BY <1>1, <1>5, <2>1, JobKept DEF OptionsOf, Now
  <2>5. \A u \in DOMAIN disk' : \A x \in disk'[u].saved :
          \E k \in Places : x = SaveConfig(OptionsOf(k, u))
    BY <1>4, <2>1 DEF Ahead, OriginInv
  <2> QED BY <2>2, <2>3, <2>4, <2>5, JobKept, <1>1 DEF OriginInv
<1>7. SeedInv'
  <2>1. SUFFICES ASSUME job.mode \in Replays PROVE SeedInv'
    BY <1>1 DEF SeedInv
  <2>2. Modelled
    BY <2>1 DEF Modelled
  <2>3. SavedDirs' = SavedDirs
    BY <1>4 DEF SavedDirs
  <2>4. \A u \in SavedDirs : Seed(u)' = Seed(u)
    BY <1>4 DEF Seed, Saved, SavedDirs
  <2>5. a.key_gen_seed = c.key_gen_seed
    <3>1. PICK k \in Places : c = Line(k) /\ a = OptionsOf(k, cur)
      BY <1>5, <2>2
    <3> QED BY <2>1, <3>1, LineKeeps, OptionsKeep, SeedIsKept
  <2>6. \A x \in args' : \E y \in command' : x.key_gen_seed = y.key_gen_seed
    BY <1>1, <1>2, <2>5
  <2>7. pc \in Testing /\ pc' \in Testing
    BY <1>1 DEF Testing, Filling
  <2>8. /\ \A u, v \in SavedDirs : Seed(u) = Seed(v) => u = v
        /\ \A u \in SavedDirs \ seen : \A t \in todo :
             Seed(u) # t.cmd.key_gen_seed
        /\ \A y \in command :
             /\ \A t \in todo : t.cmd.key_gen_seed # y.key_gen_seed
             /\ \A u \in SavedDirs : Seed(u) # y.key_gen_seed
    BY <1>1, <2>1, <2>7 DEF Ahead, SeedInv, Testing
  <2> QED BY <1>1, <2>3, <2>4, <2>6, <2>8 DEF SeedInv
<1>8. CountInv'
  <2>1. SUFFICES ASSUME job.mode = "kubetest" PROVE CountInv'
    BY <1>1 DEF CountInv
  <2>2. job.runs \in Nat /\ IsFiniteSet(FullDirs)
        /\ Cardinality(FullDirs) \in Nat
    BY <1>0, CampaignAssumption, FullDirsFinite DEF TypeOK
  <2>3. Pending = 1 /\ Pending' = 0
    BY <1>1 DEF Pending
  <2>4. /\ IsFiniteSet(todo)
        /\ Cardinality(FullDirs) + Cardinality(todo) + Pending <= job.runs
    BY <1>1, <2>1 DEF Ahead, CountInv, Filling
  <2>5. Cardinality(todo) \in Nat
    BY <2>4, FS_CardinalityType
  <2>6. /\ Cardinality(FullDirs') \in Nat
        /\ Cardinality(FullDirs') <= Cardinality(FullDirs) + 1
    BY <1>4, <2>2, FS_AddElement
  <2>7. /\ Cardinality(FullDirs') + Cardinality(todo') + Pending' <= job.runs
        /\ Cardinality(FullDirs') <= job.runs
    BY <1>1, <2>2, <2>3, <2>4, <2>5, <2>6
  <2> QED BY <1>1, <2>4, <2>7 DEF CountInv
<1> QED BY <1>6, <1>7, <1>8 DEF Ahead

\* Saving a configuration keeps origins, seeds and numbers.
LEMMA WriteConfigAhead ==
  ASSUME Base, Ahead, WriteConfigFull
  PROVE  Ahead'
<1>0. TypeOK /\ Directories
  BY DEF Base, TypeOK, Directories
<1>1. /\ pc = "save" /\ pc' = "setup"
      /\ UNCHANGED <<job, seen, todo, command, cur, args>>
      /\ disk' = [disk EXCEPT ![cur] = [files |-> @.files,
                                        saved |-> {SaveConfig(TheArgs)}]]
  BY DEF WriteConfigFull, untested, scanVars
<1>2. TheArgs \in args
  BY <1>1 DEF Base, RunInv, TheArgs
<1>3. cur \in DOMAIN disk
  BY <1>0, <1>1 DEF TypeOK, Filling
<1>4. /\ DOMAIN disk' = DOMAIN disk
      /\ \A u \in DOMAIN disk : disk'[u].files = disk[u].files
      /\ \A u \in DOMAIN disk \ {cur} : disk'[u] = disk[u]
      /\ disk'[cur].saved = {SaveConfig(TheArgs)}
  BY <1>0, <1>1, <1>3, SaveEffect
<1>5. OriginInv'
  <2>1. SUFFICES ASSUME Modelled PROVE OriginInv'
    BY <1>1, JobKept DEF OriginInv
  <2>2. \A t \in todo' : \E k \in Places : t = Task(k, Line(k))
    BY <1>1, <2>1 DEF Ahead, OriginInv
  <2>3. \A x \in command' : \E k \in Places : x = Line(k)
    BY <1>1, <2>1 DEF Ahead, OriginInv
  <2>4. \A x \in args' : \E k \in Places' : x = OptionsOf(k, cur)'
    <3>1. \A x \in args : \E k \in Places : x = OptionsOf(k, cur)
      BY <2>1 DEF Ahead, OriginInv
    <3> QED BY <1>1, <3>1, JobKept DEF OptionsOf, Now
  <2>5. \A u \in DOMAIN disk' : \A x \in disk'[u].saved :
          \E k \in Places : x = SaveConfig(OptionsOf(k, u))
    <3>1. \E k \in Places : TheArgs = OptionsOf(k, cur)
      BY <1>2, <2>1 DEF Ahead, OriginInv
    <3>2. ASSUME NEW u \in DOMAIN disk, u # cur, NEW x \in disk'[u].saved
          PROVE  \E k \in Places : x = SaveConfig(OptionsOf(k, u))
      BY <1>4, <2>1, <3>2 DEF Ahead, OriginInv
    <3> QED BY <1>4, <3>1, <3>2
  <2> QED BY <2>2, <2>3, <2>4, <2>5, JobKept, <1>1 DEF OriginInv
<1>6. SeedInv'
  <2>1. SUFFICES ASSUME job.mode \in Replays PROVE SeedInv'
    BY <1>1 DEF SeedInv
  <2>2. SavedDirs' = SavedDirs \cup {cur} /\ cur \notin SavedDirs
    BY <1>1, <1>3, <1>4 DEF SavedDirs, Base, FileInv
  <2>3. \A u \in SavedDirs : Seed(u)' = Seed(u)
    BY <1>4, <2>2 DEF Seed, Saved, SavedDirs
  <2>4. PICK c \in command : TheArgs.key_gen_seed = c.key_gen_seed
    BY <1>2, <2>1 DEF Ahead, SeedInv
  <2>5. Seed(cur)' = c.key_gen_seed
    <3>1. Saved(cur)' = SaveConfig(TheArgs)
      BY <1>1, <1>4 DEF Saved
    <3>2. "key_gen_seed" \in ConfigNames
      BY NamesKnown, SeedIsKept DEF Kept
    <3>3. SaveConfig(TheArgs).key_gen_seed = TheArgs.key_gen_seed
      BY <3>2, SaveKeeps
    <3>4. Seed(cur)' = SaveConfig(TheArgs).key_gen_seed
      BY <1>1, <3>1 DEF Seed, Saved
    <3> QED BY <2>4, <3>3, <3>4
  <2>6. /\ \A u, v \in SavedDirs : Seed(u) = Seed(v) => u = v
        /\ \A u \in SavedDirs \ seen : \A t \in todo :
             Seed(u) # t.cmd.key_gen_seed
        /\ \A t \in todo : t.cmd.key_gen_seed # c.key_gen_seed
        /\ \A u \in SavedDirs : Seed(u) # c.key_gen_seed
        /\ \A x \in args : \E y \in command : x.key_gen_seed = y.key_gen_seed
    BY <1>1, <2>1 DEF Ahead, SeedInv, Filling
  <2>7. \A u \in SavedDirs' : Seed(u)' = IF u = cur THEN c.key_gen_seed
                                         ELSE Seed(u)
    BY <1>1, <2>2, <2>3, <2>5
  <2>8. \A u, v \in SavedDirs' : Seed(u)' = Seed(v)' => u = v
    BY <2>2, <2>6, <2>7
  <2>9. \A u \in SavedDirs' \ seen : \A t \in todo :
             Seed(u)' # t.cmd.key_gen_seed
    BY <2>2, <2>6, <2>7
  <2> QED BY <1>1, <2>6, <2>8, <2>9 DEF SeedInv
<1>7. CountInv'
  <2>1. FullDirs' = FullDirs
    BY <1>4 DEF FullDirs, Has
  <2>2. Pending' = Pending
    BY <1>1 DEF Pending
  <2> QED BY <1>1, <2>1, <2>2 DEF Ahead, CountInv, Filling
<1> QED BY <1>5, <1>6, <1>7 DEF Ahead

-----------------------------------------------------------------------------
\* Before the campaign nothing is counted.
LEMMA InitInv == Init => Inv
<1> SUFFICES ASSUME Init PROVE Inv
  OBVIOUS
<1>1. DOMAIN disk = {} /\ IsFiniteSet(DOMAIN disk)
  BY FS_EmptySet DEF Init
<1>2. disk = [u \in DOMAIN disk |->
                [files |-> disk[u].files, saved |-> disk[u].saved]]
  BY <1>1 DEF Init
<1>3. stray \in {"none", "dir", "file"} /\ job \in Jobs /\ pc = "off"
      /\ faults \in 0..MaxFaults
  BY CampaignAssumption DEF Init
<1>4. TypeOK
  BY <1>1, <1>2, <1>3 DEF TypeOK, Points, Filling
<1>5. FileInv /\ ScanInv /\ RunInv
  BY <1>1 DEF Init, FileInv, ScanInv, RunInv
<1>6. OriginInv
  BY <1>1 DEF Init, OriginInv
<1>7. SeedInv
  BY <1>1 DEF Init, SeedInv, SavedDirs, Filling
<1>8. CountInv
  <2>1. FullDirs = {}
    BY <1>1 DEF FullDirs
  <2>2. Cardinality(FullDirs) = 0 /\ job.runs \in Nat
    BY <1>3, <2>1, FS_EmptySet, CampaignAssumption
  <2> QED BY <1>3, <2>2 DEF CountInv, Filling
<1> QED BY <1>4, <1>5, <1>6, <1>7, <1>8 DEF Inv

\* Nothing changes when nothing happens.
LEMMA Stutter == Inv /\ UNCHANGED vars => Inv'
<1> SUFFICES ASSUME Inv, UNCHANGED vars PROVE Inv'
  OBVIOUS
<1> USE DEF vars
<1>1. Base /\ Ahead
  BY DEF Inv, Base, Ahead
<1>2. ScanInv' /\ RunInv'
  BY DEF Inv, ScanInv, RunInv, Has
<1>3. TypeOK'
  BY DEF Inv, TypeOK
<1>4. FileInv'
  BY DEF Inv, FileInv, Has
<1>5. FullDirs' = FullDirs
  BY DEF FullDirs, Has
<1>6. Ahead'
  BY <1>1, <1>5, NothingNew DEF Base
<1> QED BY <1>2, <1>3, <1>4, <1>6 DEF Inv, Ahead

\* Every step of a campaign keeps the invariant, through any number of
\* starts over what the last one left.
LEMMA Step == Inv /\ [Next]_vars => Inv'
<1> SUFFICES ASSUME Inv, [Next]_vars PROVE Inv'
  OBVIOUS
<1>0. Base /\ Ahead
  BY DEF Inv, Base, Ahead
<1>1. CASE Next
  <2>1. Base'
    <3>1. CASE Start
      BY <1>0, <3>1, StartBase
    <3>2. CASE Scan
      BY <1>0, <3>2, ScanBase, RemovalBase DEF Scan
    <3>3. CASE Test
      BY <1>0, <3>3, DriverBase, MakeDirBase, ConfigBase, TestBase DEF Test
    <3>4. CASE Done \/ SetupFails \/ TestDies \/ Crash
      BY <1>0, <3>4, DriverBase
    <3> QED BY <1>1, <3>1, <3>2, <3>3, <3>4 DEF Next
  <2>2. Ahead'
    <3>1. CASE Start \/ Done \/ SetupFails \/ TestDies \/ Crash
      BY <1>0, <3>1, NothingNewSteps
    <3>2. CASE Scan
      BY <1>0, <3>2, NothingNewSteps, ScanEndsAhead DEF Scan
    <3>3. CASE Test
      BY <1>0, <3>3, NothingNewSteps, BeginTestAhead, ParseArgsAhead,
         WriteConfigAhead DEF Test
    <3> QED BY <1>1, <3>1, <3>2, <3>3 DEF Next
  <2> QED BY <2>1, <2>2 DEF Inv, Base, Ahead
<1>2. CASE UNCHANGED vars
  BY <1>2, Stutter
<1> QED BY <1>1, <1>2

(* Hence it holds throughout a campaign of the scripts.                    *)
THEOREM Invariant == Spec => []Inv
BY InitInv, Step, PTL DEF Spec

(* Directories, their files and the program points of the script and of    *)
(* the driver it calls stay what they are declared to be, and the          *)
(* directory being filled or removed is always there.                      *)
THEOREM TypeCorrect == Spec => []TypeOK
<1>1. Inv => TypeOK
  BY DEF Inv
<1> QED BY Invariant, <1>1, PTL

(* A directory that the scans of kubetester.py count as a completed test   *)
(* holds its complete responses, whatever mix of crashes, terminated tests *)
(* and interrupted removals it has been through.                           *)
THEOREM CountedIsComplete == Spec => []CountedHasResponses
<1>1. Inv => CountedHasResponses
  BY DEF Inv, FileInv, CountedHasResponses, CountedDirs, Counted, Complete
<1> QED BY Invariant, <1>1, PTL

(* However often kubetester.py is interrupted and started again it never   *)
(* completes more repetitions than it was asked for, nor replays a test    *)
(* twice.                                                                  *)
THEOREM RunsAreNotRepeated == Spec => []NothingRunTwice
<1>1. Inv => NothingRunTwice
  <2> SUFFICES ASSUME Inv PROVE NothingRunTwice
    OBVIOUS
  <2>1. CountedDirs \subseteq FullDirs /\ CountedDirs \subseteq SavedDirs
    BY DEF Inv, FileInv, CountedDirs, Counted, Complete, FullDirs, SavedDirs
  <2>2. ASSUME job.mode = "kubetest"
        PROVE  Cardinality(CountedDirs) <= job.runs
    <3>1. /\ IsFiniteSet(FullDirs) /\ Cardinality(FullDirs) \in Nat
          /\ Cardinality(FullDirs) <= job.runs /\ job.runs \in Nat
      BY <2>2, FullDirsFinite, CampaignAssumption DEF Inv, CountInv, TypeOK
    <3>2. /\ Cardinality(CountedDirs) <= Cardinality(FullDirs)
          /\ Cardinality(CountedDirs) \in Nat
      BY <2>1, <3>1, FS_Subset, FS_CardinalityType
    <3> QED BY <3>1, <3>2
  <2>3. ASSUME job.mode \in Replays
        PROVE  \A u, v \in CountedDirs :
                 Saved(u).key_gen_seed = Saved(v).key_gen_seed => u = v
    BY <2>1, <2>3 DEF Inv, SeedInv, Seed
  <2> QED BY <2>2, <2>3 DEF NothingRunTwice
<1> QED BY Invariant, <1>1, PTL

-----------------------------------------------------------------------------
(***************************************************************************)
(* The network a test runs in.                                             *)
(***************************************************************************)
\* The place SelectInSeq finds in a net spec, and in a table of links.
LEMMA FirstEntry ==
  ASSUME NEW s, NEW a, NEW b, Len(s) \in Nat, NEW i \in 1..Len(s),
         {s[i].n_from, s[i].n_to} = {a, b},
         \A j \in 1..(i - 1) : {s[j].n_from, s[j].n_to} # {a, b}
  PROVE  SelectInSeq(s, LAMBDA sp : {sp.n_from, sp.n_to} = {a, b}) = i
<1> DEFINE I == {j \in 1..Len(s) : {s[j].n_from, s[j].n_to} = {a, b}}
<1>1. i \in I /\ I \subseteq Nat
  BY SMTT(30)
<1>2. \A j \in I : i <= j
  <2> SUFFICES ASSUME NEW j \in I, ~(i <= j) PROVE FALSE
    OBVIOUS
  <2>1. j \in 1..(i - 1)
    BY <1>1
  <2> QED BY <2>1
<1>3. Min(I) = i
  <2> HIDE DEF I
  <2> QED BY <1>1, <1>2 DEF Min
<1> QED BY <1>1, <1>3 DEF SelectInSeq

\* A row with a new key goes to the end, another takes the place of the one
\* it replaces.
LEMMA NewRow ==
  ASSUME NEW dict, NEW row,
         \A j \in 1..Len(dict) : dict[j].n_from # row.n_from
  PROVE  PutRow(dict, row) = Append(dict, row)
BY DEF PutRow, SelectInSeq

LEMMA OldRow ==
  ASSUME NEW dict, NEW row, Len(dict) \in Nat, NEW i \in 1..Len(dict),
         dict[i].n_from = row.n_from,
         \A j \in 1..Len(dict) : dict[j].n_from = row.n_from => j = i
  PROVE  PutRow(dict, row) = [dict EXCEPT ![i] = row]
<1> DEFINE I == {j \in 1..Len(dict) : dict[j].n_from = row.n_from}
<1>1. I = {i}
  OBVIOUS
<1>2. Min(I) = i
  BY <1>1 DEF Min
<1>3. SelectInSeq(dict, LAMBDA r : r.n_from = row.n_from) = i
  BY <1>1, <1>2 DEF SelectInSeq
<1> HIDE DEF I
<1>4. i # 0
  OBVIOUS
<1> QED BY <1>3, <1>4, Zenon DEF PutRow

\* A table is put together row by row.
LEMMA RowByRow ==
  ASSUME NEW rows, Len(rows) \in Nat
  PROVE  \E f : /\ f[0] = <<>>
                /\ \A k \in 1..Len(rows) : f[k] = PutRow(f[k - 1], rows[k])
                /\ AsDict(rows) = f[Len(rows)]
<1> DEFINE Built(f, n) == f = [k \in 0..n |->
                                 IF k = 0 THEN <<>>
                                          ELSE PutRow(f[k - 1], rows[k])]
           Missing == {n \in Nat : ~ \E f : Built(f, n)}
<1>1. Missing = {}
  <2> SUFFICES ASSUME Missing # {} PROVE FALSE
    OBVIOUS
  <2>1. PICK n \in Missing : \A m \in Missing : n <= m
    BY LeastNat
  <2>2. n # 0
    <3> DEFINE g == [k \in 0..0 |-> <<>>]
    <3>1. Built(g, 0)
      OBVIOUS
    <3> QED BY <3>1
  <2>3. n - 1 \in Nat /\ n - 1 \notin Missing
    BY <2>1, <2>2
  <2>4. PICK f : Built(f, n - 1)
    BY <2>3
  <2> DEFINE g == [k \in 0..n |-> IF k = n THEN PutRow(f[n - 1], rows[n])
                                           ELSE f[k]]
  <2>5. ASSUME NEW k \in 0..n
        PROVE  g[k] = IF k = 0 THEN <<>> ELSE PutRow(g[k - 1], rows[k])
    <3>1. CASE k = n
      BY <3>1, <2>2, <2>3
    <3>2. CASE k # n
      <4>1. k \in 0..(n - 1)
        BY <3>2
      <4>2. f[k] = IF k = 0 THEN <<>> ELSE PutRow(f[k - 1], rows[k])
        BY <4>1, <2>4
      <4>3. g[k] = f[k]
        BY <3>2
      <4>4. k # 0 => g[k - 1] = f[k - 1]
        BY <3>2
      <4> QED BY <4>2, <4>3, <4>4
    <3> QED BY <3>1, <3>2
  <2>6. Built(g, n)
    BY <2>5
  <2> QED BY <2>6
<1> DEFINE dict == CHOOSE f : Built(f, Len(rows))
<1>2. \E f : Built(f, Len(rows))
  BY <1>1
<1>3. Built(dict, Len(rows))
  <2> HIDE DEF Built
  <2> QED BY <1>2
<1>4. AsDict(rows) = dict[Len(rows)]
  BY DEF AsDict
<1> HIDE DEF dict
<1>5. dict[0] = <<>>
  BY <1>3
<1>6. \A k \in 1..Len(rows) : dict[k] = PutRow(dict[k - 1], rows[k])
  BY <1>3
<1> QED BY <1>4, <1>5, <1>6

\* As long as the keys are new the rows are as they were given.
LEMMA NewRows ==
  ASSUME NEW T, NEW rows \in Seq(T), NEW f, NEW m \in 0..Len(rows),
         f[0] = <<>>,
         \A k \in 1..Len(rows) : f[k] = PutRow(f[k - 1], rows[k]),
         \A i, j \in 1..m : rows[i].n_from = rows[j].n_from => i = j
  PROVE  \A k \in 0..m : /\ f[k] \in Seq(T) /\ Len(f[k]) = k
                         /\ \A i \in 1..k : f[k][i] = rows[i]
<1> DEFINE Right(k) == /\ f[k] \in Seq(T) /\ Len(f[k]) = k
                       /\ \A i \in 1..k : f[k][i] = rows[i]
           Wrong == {k \in 0..m : ~Right(k)}
<1> SUFFICES ASSUME Wrong # {} PROVE FALSE
  OBVIOUS
<1>1. PICK k \in Wrong : \A j \in Wrong : k <= j
  <2>1. Wrong \subseteq Nat
    OBVIOUS
  <2> HIDE DEF Wrong
  <2> QED BY <2>1, LeastNat
<1>2. Right(0)
  OBVIOUS
<1>3. k \in 1..m /\ Right(k - 1)
  <2>1. k # 0
    BY <1>1, <1>2
  <2>2. k \in 1..m /\ k - 1 \in 0..m /\ ~(k <= k - 1)
    BY <1>1, <2>1
  <2>3. k - 1 \notin Wrong
    BY <1>1, <2>2
  <2> QED BY <2>2, <2>3
<1>4. f[k] = PutRow(f[k - 1], rows[k]) /\ rows[k] \in T
  BY <1>3
<1>5. \A j \in 1..Len(f[k - 1]) : f[k - 1][j].n_from # rows[k].n_from
  BY <1>3
<1>6. f[k] = Append(f[k - 1], rows[k])
  BY <1>4, <1>5, NewRow
<1>7. Right(k)
  BY <1>3, <1>4, <1>6
<1> QED BY <1>1, <1>7

\* The first m rows have keys of their own, and f builds the table from them.
KeysApart(rows, m) ==
  \A i, j \in 1..m : rows[i].n_from = rows[j].n_from => i = j
Builds(f, rows, T, m) ==
  /\ \A k \in 1..Len(rows) : f[k] = PutRow(f[k - 1], rows[k])
  /\ AsDict(rows) = f[Len(rows)]
  /\ f[m] \in Seq(T) /\ Len(f[m]) = m
  /\ \A i \in 1..m : f[m][i] = rows[i]

LEMMA TablePrefix ==
  ASSUME NEW T, NEW rows \in Seq(T), NEW m \in 0..Len(rows),
         KeysApart(rows, m)
  PROVE  \E f : Builds(f, rows, T, m)
<1>0. \A i, j \in 1..m : rows[i].n_from = rows[j].n_from => i = j
  BY DEF KeysApart
<1>1. PICK f : /\ f[0] = <<>>
               /\ \A k \in 1..Len(rows) : f[k] = PutRow(f[k - 1], rows[k])
               /\ AsDict(rows) = f[Len(rows)]
  <2>1. Len(rows) \in Nat
    OBVIOUS
  <2> QED BY <2>1, RowByRow, Zenon
<1>2. \A k \in 0..m : /\ f[k] \in Seq(T) /\ Len(f[k]) = k
                      /\ \A i \in 1..k : f[k][i] = rows[i]
  <2>1. f[0] = <<>>
    BY <1>1
  <2>2. \A k \in 1..Len(rows) : f[k] = PutRow(f[k - 1], rows[k])
    BY <1>1
  <2> QED BY <2>1, <2>2, <1>0, NewRows
<1>3. m \in 0..m
  OBVIOUS
<1> QED BY <1>1, <1>2, <1>3 DEF Builds

\* The nodes of the star's table, and those of the regions' table before and
\* after its dict has lost a link.
StarNodes ==
  <<<<"cp", 1>>, <<"cp", 2>>, <<"cp", 3>>, <<"lb", 1>>,
    <<"wn", 1>>, <<"wn", 2>>, <<"wn", 3>>, <<"mc", 1>>>>

RegionEnds(k) ==
  CASE k = 1 -> {<<"cp", 1>>, Switch(2)} [] k = 2 -> {<<"cp", 2>>, Switch(3)}
    [] k = 3 -> {<<"cp", 3>>, Switch(4)} [] k = 4 -> {<<"lb", 1>>, Switch(2)}
    [] k = 5 -> {<<"wn", 1>>, Switch(2)} [] k = 6 -> {<<"wn", 2>>, Switch(3)}
    [] k = 7 -> {<<"wn", 3>>, Switch(4)} [] k = 8 -> {<<"mc", 1>>, Switch(2)}
    [] k = 9 -> {Switch(2), Switch(1)} [] k = 10 -> {Switch(3), Switch(4)}
    [] k = 11 -> {Switch(4), Switch(1)}

LEMMA StarTable ==
  ASSUME NEW v \in 0..2
  PROVE  /\ Len(Tables[v]) = 8
         /\ \A k \in 1..8 : /\ Tables[v][k].n_from = StarNodes[k]
                            /\ Tables[v][k].n_to = Switch(1)
<1> DEFINE rows == StarRows(v)
           T == {rows[k] : k \in 1..8}
<1>1. Len(rows) = 8 /\ rows = [k \in 1..8 |-> rows[k]]
  BY DEF StarRows
<1>2. \A k \in 1..8 : /\ rows[k].n_from = StarNodes[k]
                      /\ rows[k].n_to = Switch(1)
  <2>1. rows[1].n_from = <<"cp", 1>> /\ rows[1].n_to = Switch(1)
    BY DEF StarRows, Row
  <2>2. rows[2].n_from = <<"cp", 2>> /\ rows[2].n_to = Switch(1)
    BY DEF StarRows, Row
  <2>3. rows[3].n_from = <<"cp", 3>> /\ rows[3].n_to = Switch(1)
    BY DEF StarRows, Row
  <2>4. rows[4].n_from = <<"lb", 1>> /\ rows[4].n_to = Switch(1)
    BY DEF StarRows, Row
  <2>5. rows[5].n_from = <<"wn", 1>> /\ rows[5].n_to = Switch(1)
    BY DEF StarRows, Row
  <2>6. rows[6].n_from = <<"wn", 2>> /\ rows[6].n_to = Switch(1)
    BY DEF StarRows, Row
  <2>7. rows[7].n_from = <<"wn", 3>> /\ rows[7].n_to = Switch(1)
    BY DEF StarRows, Row
  <2>8. rows[8].n_from = <<"mc", 1>> /\ rows[8].n_to = Switch(1)
    BY DEF StarRows, Row
  <2> HIDE DEF rows
  <2> QED BY <2>1, <2>2, <2>3, <2>4, <2>5, <2>6, <2>7, <2>8 DEF StarNodes
<1>3. \A i, j \in 1..8 : StarNodes[i] = StarNodes[j] => i = j
  BY DEF StarNodes
<1> HIDE DEF rows
<1>4. rows \in Seq(T)
  BY <1>1
<1>5. \A i, j \in 1..8 : rows[i].n_from = rows[j].n_from => i = j
  BY <1>2, <1>3
<1> HIDE DEF T
<1>6. 8 \in 0..Len(rows)
  BY <1>1
<1>7. Len(AsDict(rows)) = 8 /\ \A i \in 1..8 : AsDict(rows)[i] = rows[i]
  <2>1. PICK m : m = 8
    OBVIOUS
  <2>2. m \in 0..Len(rows) /\ KeysApart(rows, m)
    BY <2>1, <1>5, <1>6 DEF KeysApart
  <2>3. PICK f : Builds(f, rows, T, m)
    BY <1>4, <2>2, TablePrefix, Zenon
  <2>4. /\ AsDict(rows) = f[Len(rows)] /\ Len(f[m]) = m
        /\ \A i \in 1..m : f[m][i] = rows[i]
    BY <2>3 DEF Builds
  <2> QED BY <2>1, <2>4, <1>1
<1>8. Tables[v] = AsDict(rows)
  BY DEF Tables, rows
<1> QED BY <1>2, <1>7, <1>8

LEMMA RegionTable ==
  /\ Len(Tables[3]) = 11
  /\ \A k \in 1..11 :
       {Tables[3][k].n_from, Tables[3][k].n_to} = RegionEnds(k)
<1> DEFINE rows == RegionRows
           T == {rows[k] : k \in 1..12}
<1>1. Len(rows) = 12 /\ rows = [k \in 1..12 |-> rows[k]]
  BY DEF RegionRows
<1>2. /\ rows[1].n_from = <<"cp", 1>> /\ rows[1].n_to = Switch(2)
      /\ rows[2].n_from = <<"cp", 2>> /\ rows[2].n_to = Switch(3)
      /\ rows[3].n_from = <<"cp", 3>> /\ rows[3].n_to = Switch(4)
      /\ rows[4].n_from = <<"lb", 1>> /\ rows[4].n_to = Switch(2)
      /\ rows[5].n_from = <<"wn", 1>> /\ rows[5].n_to = Switch(2)
      /\ rows[6].n_from = <<"wn", 2>> /\ rows[6].n_to = Switch(3)
      /\ rows[7].n_from = <<"wn", 3>> /\ rows[7].n_to = Switch(4)
      /\ rows[8].n_from = <<"mc", 1>> /\ rows[8].n_to = Switch(2)
      /\ rows[9].n_from = Switch(2) /\ rows[9].n_to = Switch(1)
      /\ rows[10].n_from = Switch(3)
      /\ rows[11].n_from = Switch(4) /\ rows[11].n_to = Switch(1)
      /\ rows[12].n_from = Switch(3) /\ rows[12].n_to = Switch(4)
  BY DEF RegionRows, Row
<1> HIDE DEF rows
<1>3. rows \in Seq(T)
  BY <1>1
<1> HIDE DEF T
<1>4. \A i, j \in 1..11 : rows[i].n_from = rows[j].n_from => i = j
  BY <1>2 DEF Switch
<1>5. PICK m, last : m = 11 /\ last = 10
  OBVIOUS
<1>5a. PICK f : Builds(f, rows, T, m)
  <2>1. m \in 0..Len(rows)
    BY <1>1, <1>5
  <2>2. KeysApart(rows, m)
    BY <1>4, <1>5 DEF KeysApart
  <2> QED BY <2>1, <2>2, <1>3, TablePrefix, Zenon
<1>6. /\ \A k \in 1..Len(rows) : f[k] = PutRow(f[k - 1], rows[k])
      /\ AsDict(rows) = f[Len(rows)]
      /\ f[m] \in Seq(T) /\ Len(f[m]) = m
      /\ \A i \in 1..m : f[m][i] = rows[i]
  BY <1>5a DEF Builds
<1>7. AsDict(rows) = PutRow(f[m], rows[12])
  BY <1>1, <1>5, <1>6, SMTT(30)
<1>8. PutRow(f[m], rows[12]) = [f[m] EXCEPT ![last] = rows[12]]
  <2>0. /\ Len(f[m]) = m /\ m = 11 /\ last = 10
        /\ \A i \in 1..m : f[m][i] = rows[i]
    BY <1>5, <1>6
  <2>1. last \in 1..Len(f[m]) /\ Len(f[m]) \in Nat
        /\ f[m][last].n_from = rows[12].n_from
    <3>1. last \in 1..m
      BY <2>0
    <3>2. f[m][last] = rows[10] /\ rows[10].n_from = rows[12].n_from
      BY <2>0, <3>1, <1>2
    <3> QED BY <2>0, <3>1, <3>2
  <2>2. ASSUME NEW j \in 1..Len(f[m]), f[m][j].n_from = rows[12].n_from
        PROVE  j = last
    <3>1. j \in 1..11 /\ rows[j].n_from = rows[12].n_from
      BY <2>2, <1>5, <1>6
    <3> QED BY <3>1, <1>2, <1>4, <1>5
  <2> QED BY <2>1, <2>2, OldRow
<1>9. /\ Len(AsDict(rows)) = 11 /\ AsDict(rows)[10] = rows[12]
      /\ \A i \in (1..11) \ {10} : AsDict(rows)[i] = rows[i]
  <2>1. AsDict(rows) = [f[m] EXCEPT ![last] = rows[12]]
    BY <1>7, <1>8
  <2>2. /\ f[m] \in Seq(T) /\ Len(f[m]) = 11 /\ last = 10
        /\ \A i \in 1..11 : f[m][i] = rows[i]
    BY <1>5, <1>6
  <2>3. DOMAIN f[m] = 1..11 /\ f[m] = [i \in 1..11 |-> f[m][i]]
    <3>1. PICK d : d = f[m]
      OBVIOUS
    <3>2. d \in Seq(T) /\ Len(d) = 11
      BY <3>1, <2>2
    <3>3. DOMAIN d = 1..11 /\ d = [i \in DOMAIN d |-> d[i]]
      BY <3>2
    <3> QED BY <3>1, <3>3
  <2>4. AsDict(rows) = [i \in 1..11 |-> IF i = 10 THEN rows[12] ELSE rows[i]]
    BY <2>1, <2>2, <2>3
  <2> QED BY <2>4
<1>10. Tables[3] = AsDict(rows)
  BY DEF Tables, rows
<1>11. PICK table : table = AsDict(rows)
  OBVIOUS
<1>12. ASSUME NEW k \in 1..11
       PROVE  {table[k].n_from, table[k].n_to} = RegionEnds(k)
  <2>1. CASE k = 1
    <3>1. table[1] = rows[1]
      BY <1>9, <1>11
    <3> QED BY <2>1, <3>1, <1>2 DEF RegionEnds
  <2>2. CASE k = 2
    <3>1. table[2] = rows[2]
      BY <1>9, <1>11
    <3> QED BY <2>2, <3>1, <1>2 DEF RegionEnds
  <2>3. CASE k = 3
    <3>1. table[3] = rows[3]
      BY <1>9, <1>11
    <3> QED BY <2>3, <3>1, <1>2 DEF RegionEnds
  <2>4. CASE k = 4
    <3>1. table[4] = rows[4]
      BY <1>9, <1>11
    <3> QED BY <2>4, <3>1, <1>2 DEF RegionEnds
  <2>5. CASE k = 5
    <3>1. table[5] = rows[5]
      BY <1>9, <1>11
    <3> QED BY <2>5, <3>1, <1>2 DEF RegionEnds
  <2>6. CASE k = 6
    <3>1. table[6] = rows[6]
      BY <1>9, <1>11
    <3> QED BY <2>6, <3>1, <1>2 DEF RegionEnds
  <2>7. CASE k = 7
    <3>1. table[7] = rows[7]
      BY <1>9, <1>11
    <3> QED BY <2>7, <3>1, <1>2 DEF RegionEnds
  <2>8. CASE k = 8
    <3>1. table[8] = rows[8]
      BY <1>9, <1>11
    <3> QED BY <2>8, <3>1, <1>2 DEF RegionEnds
  <2>9. CASE k = 9
    <3>1. table[9] = rows[9]
      BY <1>9, <1>11
    <3> QED BY <2>9, <3>1, <1>2 DEF RegionEnds
  <2>10. CASE k = 10
    <3>1. table[10] = rows[12]
      BY <1>9, <1>11
    <3> QED BY <2>10, <3>1, <1>2 DEF RegionEnds
  <2>11. CASE k = 11
    <3>1. table[11] = rows[11]
      BY <1>9, <1>11
    <3> QED BY <2>11, <3>1, <1>2 DEF RegionEnds
  <2> QED BY <2>1, <2>2, <2>3, <2>4, <2>5, <2>6, <2>7, <2>8, <2>9, <2>10, <2>11
<1> QED BY <1>9, <1>10, <1>11, <1>12

\* Nodes of some kinds, and the sequences of them that no node is in twice.
Named(kinds) == kinds \X Nat

Distinct(s, kinds) ==
  /\ s \in Seq(Named(kinds))
  /\ \A i, j \in 1..Len(s) : s[i] = s[j] => i = j

LEMMA Listed ==
  ASSUME NEW S, NEW m \in Nat, NEW s, s = [k \in 1..m |-> s[k]],
         \A k \in 1..m : s[k] \in S
  PROVE  s \in Seq(S) /\ Len(s) = m
OBVIOUS

LEMMA NumberedNodes ==
  ASSUME NEW kind, NEW n \in Int
  PROVE  /\ Distinct(Numbered(kind, n), {kind})
         /\ n >= 0 => Len(Numbered(kind, n)) = n
         /\ \A k \in 1..n : Numbered(kind, n)[k] = <<kind, k>>
<1>1. PICK m \in Nat : 1..n = 1..m /\ (n >= 0 => m = n)
  <2>1. CASE n >= 0
    BY <2>1
  <2>2. CASE n < 0
    <3>1. 1..n = 1..0
      BY <2>2
    <3> QED BY <2>2, <3>1
  <2> QED BY <2>1, <2>2
<1>2. Numbered(kind, n) = [k \in 1..m |-> <<kind, k>>]
  BY <1>1 DEF Numbered
<1>3. PICK s : s = Numbered(kind, n)
  OBVIOUS
<1>4. /\ s = [k \in 1..m |-> s[k]]
      /\ \A k \in 1..m : s[k] = <<kind, k>> /\ s[k] \in Named({kind})
  BY <1>2, <1>3 DEF Named
<1>5. s \in Seq(Named({kind})) /\ Len(s) = m
  BY <1>4, Listed
<1>6. \A i, j \in 1..m : s[i] = s[j] => i = j
  BY <1>4
<1>7. Distinct(s, {kind})
  BY <1>5, <1>6 DEF Distinct
<1> QED BY <1>1, <1>3, <1>4, <1>5, <1>7

\* Sequences of nodes of different kinds one after the other.
LEMMA DistinctConcat ==
  ASSUME NEW K, NEW L, K \cap L = {}, NEW s, NEW t,
         Distinct(s, K), Distinct(t, L)
  PROVE  /\ Distinct(s \o t, K \cup L)
         /\ Len(s \o t) = Len(s) + Len(t)
         /\ \A i \in 1..Len(s) : (s \o t)[i] = s[i]
         /\ \A i \in 1..Len(t) : (s \o t)[Len(s) + i] = t[i]
<1>1. Named(K) \cap Named(L) = {} /\ Named(K) \cup Named(L) = Named(K \cup L)
  BY DEF Named
<1>2. s \in Seq(Named(K)) /\ t \in Seq(Named(L))
  BY DEF Distinct
<1> HIDE DEF Named
<1>3. /\ s \o t \in Seq(Named(K) \cup Named(L))
      /\ Len(s \o t) = Len(s) + Len(t)
      /\ \A i \in 1..Len(s) : (s \o t)[i] = s[i]
      /\ \A i \in 1..Len(t) : (s \o t)[Len(s) + i] = t[i]
      /\ \A i \in 1..(Len(s) + Len(t)) :
           (s \o t)[i] = IF i <= Len(s) THEN s[i] ELSE t[i - Len(s)]
  BY <1>2
<1>4. ASSUME NEW i \in 1..Len(s \o t), NEW j \in 1..Len(s \o t),
             (s \o t)[i] = (s \o t)[j]
      PROVE  i = j
  <2>0. /\ Len(s) \in Nat /\ Len(t) \in Nat
        /\ \A k \in 1..Len(s) : s[k] \in Named(K)
        /\ \A k \in 1..Len(t) : t[k] \in Named(L)
    BY <1>2
  <2>1. CASE i <= Len(s) /\ j <= Len(s)
    BY <2>0, <2>1, <1>3, <1>4 DEF Distinct
  <2>2. CASE ~(i <= Len(s)) /\ ~(j <= Len(s))
    <3>1. i - Len(s) \in 1..Len(t) /\ j - Len(s) \in 1..Len(t)
      BY <2>0, <2>2, <1>3
    <3>2. t[i - Len(s)] = t[j - Len(s)]
      BY <2>2, <1>3, <1>4
    <3>3. i - Len(s) = j - Len(s)
      BY <3>1, <3>2 DEF Distinct
    <3> QED BY <2>0, <3>3
  <2>3. CASE i <= Len(s) /\ ~(j <= Len(s))
    <3>1. i \in 1..Len(s) /\ j - Len(s) \in 1..Len(t)
      BY <2>0, <2>3, <1>3
    <3>2. (s \o t)[i] \in Named(K) /\ (s \o t)[j] \in Named(L)
      BY <2>0, <2>3, <3>1, <1>3
    <3> QED BY <3>2, <1>1, <1>4
  <2>4. CASE ~(i <= Len(s)) /\ j <= Len(s)
    <3>1. j \in 1..Len(s) /\ i - Len(s) \in 1..Len(t)
      BY <2>0, <2>4, <1>3
    <3>2. (s \o t)[j] \in Named(K) /\ (s \o t)[i] \in Named(L)
      BY <2>0, <2>4, <3>1, <1>3
    <3> QED BY <3>2, <1>1, <1>4
  <2> QED BY <2>1, <2>2, <2>3, <2>4
<1>5. s \o t \in Seq(Named(K \cup L))
  BY <1>1, <1>3
<1>6. Distinct(s \o t, K \cup L)
  BY <1>4, <1>5 DEF Distinct
<1> QED BY <1>3, <1>6

LEMMA ClusterNodes ==
  ASSUME NEW w \in Int, NEW c \in Int
  PROVE  Distinct(CreateCluster(w, c), {"lb", "cp", "wn"})
<1> DEFINE lb == IF c > 1 THEN Numbered("lb", 1) ELSE <<>>
<1>1. Distinct(lb, {"lb"})
  <2>1. Distinct(<<>>, {"lb"})
    BY DEF Distinct
  <2>2. Distinct(Numbered("lb", 1), {"lb"})
    <3>1. PICK one \in Int : one = 1
      OBVIOUS
    <3>2. Distinct(Numbered("lb", one), {"lb"})
      BY NumberedNodes
    <3> QED BY <3>1, <3>2
  <2> QED BY <2>1, <2>2
<1>2. Distinct(lb \o Numbered("cp", c), {"lb"} \cup {"cp"})
  <2>1. {"lb"} \cap {"cp"} = {}
    OBVIOUS
  <2> HIDE DEF lb
  <2> QED BY <1>1, <2>1, NumberedNodes, DistinctConcat
<1>3. Distinct((lb \o Numbered("cp", c)) \o Numbered("wn", w),
               ({"lb"} \cup {"cp"}) \cup {"wn"})
  <2>1. ({"lb"} \cup {"cp"}) \cap {"wn"} = {}
    OBVIOUS
  <2> HIDE DEF lb
  <2> QED BY <1>2, <2>1, NumberedNodes, DistinctConcat
<1>4. ({"lb"} \cup {"cp"}) \cup {"wn"} = {"lb", "cp", "wn"}
  OBVIOUS
<1> QED BY <1>3, <1>4 DEF CreateCluster

\* The cluster of ha_topo: a load balancer, three control planes, three
\* workers.
LEMMA HaCluster ==
  /\ Len(CreateCluster(3, 3)) = 7
  /\ CreateCluster(3, 3)[1] = <<"lb", 1>>
  /\ \A k \in 1..3 : /\ CreateCluster(3, 3)[1 + k] = <<"cp", k>>
                     /\ CreateCluster(3, 3)[4 + k] = <<"wn", k>>
<1>1. PICK one, three : one = 1 /\ three = 3
  OBVIOUS
<1>2. PICK lb, cp, wn : /\ lb = Numbered("lb", one)
                        /\ cp = Numbered("cp", three)
                        /\ wn = Numbered("wn", three)
  OBVIOUS
<1>3. /\ Distinct(lb, {"lb"}) /\ Distinct(cp, {"cp"}) /\ Distinct(wn, {"wn"})
      /\ Len(lb) = 1 /\ Len(cp) = 3 /\ Len(wn) = 3
      /\ lb[1] = <<"lb", 1>>
      /\ \A k \in 1..3 : cp[k] = <<"cp", k>> /\ wn[k] = <<"wn", k>>
  <2>1. one \in Int /\ three \in Int /\ one >= 0 /\ three >= 0
    BY <1>1
  <2>2. /\ Distinct(lb, {"lb"}) /\ Len(lb) = one
        /\ \A k \in 1..one : lb[k] = <<"lb", k>>
    BY <2>1, <1>2, NumberedNodes
  <2>3. /\ Distinct(cp, {"cp"}) /\ Len(cp) = three
        /\ \A k \in 1..three : cp[k] = <<"cp", k>>
    BY <2>1, <1>2, NumberedNodes
  <2>4. /\ Distinct(wn, {"wn"}) /\ Len(wn) = three
        /\ \A k \in 1..three : wn[k] = <<"wn", k>>
    BY <2>1, <1>2, NumberedNodes
  <2> QED BY <2>2, <2>3, <2>4, <1>1
<1>4. /\ Distinct(lb \o cp, {"lb"} \cup {"cp"}) /\ Len(lb \o cp) = 4
      /\ (lb \o cp)[1] = <<"lb", 1>>
      /\ \A k \in 1..3 : (lb \o cp)[1 + k] = <<"cp", k>>
  <2>1. {"lb"} \cap {"cp"} = {}
    OBVIOUS
  <2>2. /\ Distinct(lb \o cp, {"lb"} \cup {"cp"})
        /\ Len(lb \o cp) = Len(lb) + Len(cp)
        /\ \A i \in 1..Len(lb) : (lb \o cp)[i] = lb[i]
        /\ \A i \in 1..Len(cp) : (lb \o cp)[Len(lb) + i] = cp[i]
    <3>1. PICK K, L : K = {"lb"} /\ L = {"cp"}
      OBVIOUS
    <3>2. Distinct(lb, K) /\ Distinct(cp, L) /\ K \cap L = {}
      BY <1>3, <2>1, <3>1
    <3>3. Distinct(lb \o cp, K \cup L)
      BY <3>2, DistinctConcat
    <3>4. /\ Len(lb \o cp) = Len(lb) + Len(cp)
          /\ \A i \in 1..Len(lb) : (lb \o cp)[i] = lb[i]
          /\ \A i \in 1..Len(cp) : (lb \o cp)[Len(lb) + i] = cp[i]
      BY <3>2, DistinctConcat
    <3> QED BY <3>1, <3>3, <3>4
  <2> QED BY <1>3, <2>2
<1>5. PICK s : s = lb \o cp
  OBVIOUS
<1>6. /\ Len(s \o wn) = 7 /\ (s \o wn)[1] = <<"lb", 1>>
      /\ \A k \in 1..3 : /\ (s \o wn)[1 + k] = <<"cp", k>>
                         /\ (s \o wn)[4 + k] = <<"wn", k>>
  <2>1. ({"lb"} \cup {"cp"}) \cap {"wn"} = {}
    OBVIOUS
  <2>2. Distinct(s, {"lb"} \cup {"cp"})
    BY <1>4, <1>5
  <2>3. /\ Len(s \o wn) = Len(s) + Len(wn)
        /\ \A i \in 1..Len(s) : (s \o wn)[i] = s[i]
        /\ \A i \in 1..Len(wn) : (s \o wn)[Len(s) + i] = wn[i]
    <3>1. Distinct(wn, {"wn"})
      BY <1>3
    <3> QED BY <3>1, <2>1, <2>2, DistinctConcat
  <2>4. Len(s) = 4 /\ \A k \in 1..3 : 1 + k \in 1..4
    BY <1>4, <1>5
  <2> QED BY <1>3, <1>4, <1>5, <2>3, <2>4
<1>7. CreateCluster(3, 3) = s \o wn
  BY <1>1, <1>2, <1>5 DEF CreateCluster
<1> QED BY <1>6, <1>7

-----------------------------------------------------------------------------
(***************************************************************************)
(* Links.                                                                  *)
(***************************************************************************)
HostKinds == {"h", "lb", "cp", "wn"}
Whole(a) == a.number_nodes \in Int /\ a.number_clients \in Int

LEMMA HostsDistinct ==
  ASSUME NEW a, Whole(a)
  PROVE  Distinct(Hosts(a), HostKinds) /\ Distinct(Clients(a), {"mc"})
<1>1. \A s, K : K \subseteq HostKinds /\ Distinct(s, K) => Distinct(s, HostKinds)
  <2> SUFFICES ASSUME NEW s, NEW K, K \subseteq HostKinds, Distinct(s, K)
               PROVE  Distinct(s, HostKinds)
    OBVIOUS
  <2>1. Named(K) \subseteq Named(HostKinds)
    BY DEF Named
  <2>2. s \in Seq(Named(K))
    BY DEF Distinct
  <2> HIDE DEF Named
  <2>3. s \in Seq(Named(HostKinds))
    BY <2>1, <2>2
  <2> QED BY <2>3 DEF Distinct
<1>2. {"h"} \subseteq HostKinds /\ {"lb", "cp", "wn"} \subseteq HostKinds
  BY DEF HostKinds
<1>3. PICK n, c, one, three : /\ n = a.number_nodes /\ c = a.number_clients
                              /\ one = 1 /\ three = 3
  OBVIOUS
<1>4. n \in Int /\ c \in Int /\ n - one \in Int /\ n - three \in Int
      /\ one \in Int /\ three \in Int
  BY <1>3 DEF Whole
<1>5. Distinct(Clients(a), {"mc"})
  BY <1>3, <1>4, NumberedNodes DEF Clients
<1>6. CASE a.topo_type = "simple"
  <2>1. Distinct(Numbered("h", n), {"h"})
    BY <1>4, NumberedNodes
  <2>2. Hosts(a) = Numbered("h", n)
    BY <1>3, <1>6 DEF Hosts
  <2>3. Distinct(Hosts(a), HostKinds)
    BY <1>1, <1>2, <2>1, <2>2
  <2> QED BY <1>5, <2>3
<1>7. CASE a.topo_type # "simple"
  <2>1. Distinct(CreateCluster(n - one, one), {"lb", "cp", "wn"})
    BY <1>4, ClusterNodes
  <2>2. Distinct(CreateCluster(n - three, three), {"lb", "cp", "wn"})
    BY <1>4, ClusterNodes
  <2>3. \/ Hosts(a) = CreateCluster(n - one, one)
        \/ Hosts(a) = CreateCluster(n - three, three)
    BY <1>3, <1>7 DEF Hosts
  <2>4. Distinct(Hosts(a), HostKinds)
    BY <1>1, <1>2, <2>1, <2>2, <2>3
  <2> QED BY <1>5, <2>4
<1> QED BY <1>6, <1>7

LEMMA NodesOf ==
  ASSUME NEW a, Whole(a)
  PROVE  /\ Nodes(a) = {Hosts(a)[k] : k \in 1..Len(Hosts(a))}
                         \cup {Clients(a)[k] : k \in 1..Len(Clients(a))}
         /\ ToSet(Clients(a)) = {Clients(a)[k] : k \in 1..Len(Clients(a))}
         /\ \A n \in Nodes(a) : \A k : n # Switch(k)
         /\ \A j \in 1..Len(Hosts(a)) : \A k \in 1..Len(Clients(a)) :
              Hosts(a)[j] # Clients(a)[k]
<1>1. PICK s, t : s = Hosts(a) /\ t = Clients(a)
  OBVIOUS
<1>2. s \in Seq(Named(HostKinds)) /\ t \in Seq(Named({"mc"}))
  BY <1>1, HostsDistinct DEF Distinct
<1>3. Named(HostKinds) \cap Named({"mc"}) = {}
  BY DEF Named, HostKinds
<1>4. \A n \in Named(HostKinds) \cup Named({"mc"}) : \A k : n # Switch(k)
  BY DEF Named, HostKinds, Switch
<1> HIDE DEF Named
<1>5. /\ s \o t \in Seq(Named(HostKinds) \cup Named({"mc"}))
      /\ Len(s) \in Nat /\ Len(t) \in Nat
      /\ DOMAIN (s \o t) = 1..(Len(s) + Len(t))
      /\ \A i \in 1..(Len(s) + Len(t)) :
           (s \o t)[i] = IF i <= Len(s) THEN s[i] ELSE t[i - Len(s)]
      /\ \A k \in 1..Len(s) : s[k] \in Named(HostKinds)
      /\ \A k \in 1..Len(t) : t[k] \in Named({"mc"})
      /\ DOMAIN t = 1..Len(t)
  BY <1>2
<1>6. ToSet(s \o t) = {s[k] : k \in 1..Len(s)} \cup {t[k] : k \in 1..Len(t)}
  <2>1. ASSUME NEW i \in DOMAIN (s \o t)
        PROVE  (s \o t)[i] \in {s[k] : k \in 1..Len(s)} \cup {t[k] : k \in 1..Len(t)}
    <3>1. CASE i <= Len(s)
      BY <3>1, <1>5
    <3>2. CASE ~(i <= Len(s))
      <4>1. i - Len(s) \in 1..Len(t) /\ (s \o t)[i] = t[i - Len(s)]
        BY <3>2, <1>5
      <4> QED BY <4>1
    <3> QED BY <3>1, <3>2
  <2>2. ASSUME NEW k \in 1..Len(s)
        PROVE  k \in DOMAIN (s \o t) /\ (s \o t)[k] = s[k]
    BY <1>5
  <2>3. ASSUME NEW k \in 1..Len(t)
        PROVE  \E i \in DOMAIN (s \o t) : (s \o t)[i] = t[k]
    <3>1. /\ Len(s) + k \in DOMAIN (s \o t)
          /\ (s \o t)[Len(s) + k] = t[k]
      BY <1>5
    <3> QED BY <3>1
  <2> QED BY <2>1, <2>2, <2>3 DEF ToSet
<1>7. ToSet(t) = {t[k] : k \in 1..Len(t)}
  BY <1>5 DEF ToSet
<1> QED BY <1>1, <1>3, <1>4, <1>5, <1>6, <1>7 DEF Nodes

\* Every link is one that setup() asks the specification of.
LEMMA LinksAsked ==
  ASSUME NEW a, NEW l \in Links(a)
  PROVE  \E x, y : l = Link(a, x, y)
BY DEF Links, StarLinks, RegionLinks

\* A node of the star has the link to its switch, and no other.
LEMMA StarLink ==
  ASSUME NEW a, Whole(a), a.topo_type # "ha_reg_k8s", NEW n \in Nodes(a)
  PROVE  {l \in Links(a) : n \in l.ends} = {Link(a, n, Switch(1))}
<1>1. Links(a) = {Link(a, m, Switch(1)) : m \in Nodes(a)}
  BY DEF Links, StarLinks, Nodes
<1>2. \A m : Link(a, m, Switch(1)).ends = {m, Switch(1)}
  BY DEF Link
<1>3. n # Switch(1)
  BY NodesOf
<1> HIDE DEF Link
<1> QED BY <1>1, <1>2, <1>3

\* A node of a region has the link to the region's switch, and no other.
LEMMA RegionLink ==
  ASSUME NEW a, Whole(a), a.topo_type = "ha_reg_k8s", NEW n \in Nodes(a)
  PROVE  \E k : {l \in Links(a) : n \in l.ends} = {Link(a, n, Switch(k))}
<1>1. /\ \A x, y : Link(a, x, y).ends = {x, y}
      /\ \A k : n # Switch(k)
  BY NodesOf DEF Link
<1>2. Links(a) = {Link(a, Switch(k), Switch(1)) : k \in 2..4}
                   \cup {Link(a, Switch(3), Switch(4))}
                   \cup {Link(a, Hosts(a)[k], Switch(RegionOf(k))) :
                           k \in 1..Len(Hosts(a))}
                   \cup {Link(a, Clients(a)[k], Switch(2)) :
                           k \in 1..Len(Clients(a))}
  BY NodesOf DEF Links, RegionLinks
<1> HIDE DEF Link
<1>3. CASE \E j \in 1..Len(Hosts(a)) : n = Hosts(a)[j]
  <2>1. PICK j \in 1..Len(Hosts(a)) : n = Hosts(a)[j]
    BY <1>3
  <2>2. \A k \in 1..Len(Hosts(a)) : n = Hosts(a)[k] => k = j
    BY <2>1, HostsDistinct DEF Distinct
  <2>3. \A k \in 1..Len(Clients(a)) : n # Clients(a)[k]
    BY <2>1, NodesOf
  <2>4. Link(a, n, Switch(RegionOf(j))) \in Links(a)
    BY <2>1, <1>2
  <2>5. ASSUME NEW l \in Links(a), n \in l.ends
        PROVE  l = Link(a, n, Switch(RegionOf(j)))
    <3>1. \/ \E k, m : l = Link(a, Switch(k), Switch(m))
          \/ \E k \in 1..Len(Hosts(a)) :
               l = Link(a, Hosts(a)[k], Switch(RegionOf(k)))
          \/ \E k \in 1..Len(Clients(a)) : l = Link(a, Clients(a)[k], Switch(2))
      BY <1>2
    <3>2. \A x, y : l = Link(a, x, y) => n = x \/ n = y
      BY <1>1, <2>5
    <3>3. \E k \in 1..Len(Hosts(a)) :
            l = Link(a, Hosts(a)[k], Switch(RegionOf(k))) /\ n = Hosts(a)[k]
      BY <3>1, <3>2, <1>1, <2>3
    <3> QED BY <3>3, <2>1, <2>2
  <2>6. n \in Link(a, n, Switch(RegionOf(j))).ends
    BY <1>1
  <2> QED BY <2>4, <2>5, <2>6
<1>4. CASE \E j \in 1..Len(Clients(a)) : n = Clients(a)[j]
  <2>1. PICK j \in 1..Len(Clients(a)) : n = Clients(a)[j]
    BY <1>4
  <2>2. \A k \in 1..Len(Hosts(a)) : n # Hosts(a)[k]
    BY <2>1, NodesOf
  <2>3. Link(a, n, Switch(2)) \in Links(a) /\ n \in Link(a, n, Switch(2)).ends
    BY <2>1, <1>1, <1>2
  <2>4. ASSUME NEW l \in Links(a), n \in l.ends
        PROVE  l = Link(a, n, Switch(2))
    <3>1. \/ \E k, m : l = Link(a, Switch(k), Switch(m))
          \/ \E k \in 1..Len(Hosts(a)) :
               l = Link(a, Hosts(a)[k], Switch(RegionOf(k)))
          \/ \E k \in 1..Len(Clients(a)) : l = Link(a, Clients(a)[k], Switch(2))
      BY <1>2
    <3>2. \A x, y : l = Link(a, x, y) => n = x \/ n = y
      BY <1>1, <2>4
    <3> QED BY <3>1, <3>2, <1>1, <2>2
  <2> QED BY <2>3, <2>4
<1> QED BY <1>3, <1>4, NodesOf

\* What --net-spec and the defaults have to be for the network to be what was
\* asked for: every entry names a link that is set up, no two the same, and
\* a star's delay can be halved in the unit of the model.
EntryEnds(a, i) == {a.net_spec[i].n_from, a.net_spec[i].n_to}

Fits(a) ==
  /\ Whole(a)
  /\ Len(a.net_spec) \in Nat /\ DOMAIN a.net_spec = 1..Len(a.net_spec)
  /\ \A i \in 1..Len(a.net_spec) :
       EntryEnds(a, i) \in {l.ends : l \in Links(a)}
  /\ \A i, j \in 1..Len(a.net_spec) :
       EntryEnds(a, i) = EntryEnds(a, j) => i = j
  /\ a.topo_type # "ha_reg_k8s" =>
       /\ a.link_latency \in Nat /\ a.link_latency % 2 = 0
       /\ a.link_loss \in Nat /\ a.link_jitter \in Nat

LEMMA LinkHasEntry ==
  ASSUME NEW a, Fits(a), NEW i \in 1..Len(a.net_spec)
  PROVE  \E l \in Links(a) :
           /\ l.ends = EntryEnds(a, i)
           /\ l.spec = [latency |-> a.net_spec[i].latency,
                        loss |-> a.net_spec[i].loss,
                        jitter |-> a.net_spec[i].jitter]
<1>1. PICK l \in Links(a) : l.ends = EntryEnds(a, i)
  BY DEF Fits
<1>2. PICK x, y : l = Link(a, x, y)
  BY LinksAsked
<1>3. l.ends = {x, y} /\ l.spec = GetLinkSpec(a, x, y)
  BY <1>2 DEF Link
<1>4. SpecFor(a, x, y) = i
  <2>1. PICK s : s = a.net_spec
    OBVIOUS
  <2>2. Len(s) \in Nat /\ i \in 1..Len(s) /\ {s[i].n_from, s[i].n_to} = {x, y}
    BY <1>1, <1>3, <2>1 DEF Fits, EntryEnds
  <2>3. ASSUME NEW j \in 1..(i - 1)
        PROVE  {s[j].n_from, s[j].n_to} # {x, y}
    <3>1. j \in 1..Len(s) /\ j # i
      BY <2>2
    <3>2. EntryEnds(a, j) # EntryEnds(a, i)
      BY <2>1, <3>1 DEF Fits
    <3> QED BY <1>1, <1>3, <2>1, <3>2 DEF EntryEnds
  <2>4. SelectInSeq(s, LAMBDA sp : {sp.n_from, sp.n_to} = {x, y}) = i
    BY <2>2, <2>3, FirstEntry
  <2> QED BY <2>1, <2>4 DEF SpecFor
<1>5. i # 0
  BY DEF Fits
<1>6. GetLinkSpec(a, x, y) = [latency |-> a.net_spec[i].latency,
                              loss |-> a.net_spec[i].loss,
                              jitter |-> a.net_spec[i].jitter]
  BY <1>4, <1>5 DEF GetLinkSpec
<1> QED BY <1>1, <1>3, <1>6

\* A node that no entry names has the default attributes on its link.
LEMMA PlainLink ==
  ASSUME NEW a, Fits(a), NEW n \in Plain(a)
  PROVE  Link(a, n, Switch(1)).spec = DefaultSpec(a)
<1>1. PICK s, switch : s = a.net_spec /\ switch = Switch(1)
  OBVIOUS
<1>2. ASSUME NEW j \in 1..Len(s)
      PROVE  {s[j].n_from, s[j].n_to} # {n, switch}
  <2>1. s[j] \in ToSet(s)
    BY <1>1 DEF ToSet, Fits
  <2>2. n \notin {s[j].n_from, s[j].n_to}
    BY <1>1, <2>1 DEF Plain
  <2> QED BY <2>2
<1>3. SelectInSeq(s, LAMBDA sp : {sp.n_from, sp.n_to} = {n, switch}) = 0
  BY <1>2 DEF SelectInSeq
<1>4. SpecFor(a, n, Switch(1)) = 0
  BY <1>1, <1>3 DEF SpecFor
<1>5. GetLinkSpec(a, n, Switch(1)) = DefaultSpec(a)
  BY <1>4, Zenon DEF GetLinkSpec
<1> QED BY <1>5 DEF Link

\* Two halves.
LEMMA TwoHalves ==
  ASSUME NEW x \in Nat
  PROVE  x % 2 = 0 => Half(x) + Half(x) = x
BY DEF Half

LEMMA EvenSquare ==
  ASSUME NEW j \in Nat, NEW x \in Nat, x % 2 = 0
  PROVE  (j * x) * (j * x) \in Nat /\ ((j * x) * (j * x)) % 2 = 0
<1>1. PICK d \in Nat : x = 2 * d
  <2>1. x = 2 * (x \div 2) /\ x \div 2 \in Nat
    OBVIOUS
  <2> QED BY <2>1
<1>2. PICK e \in Nat : e = d * (j * x)
  <2>1. j * x \in Nat
    OBVIOUS
  <2>2. d * (j * x) \in Nat
    BY <2>1
  <2> QED BY <2>2
<1>3. (j * x) * (j * x) = 2 * (j * e)
  BY <1>1, <1>2
<1>4. PICK z \in Nat : z = j * e
  OBVIOUS
<1>5. PICK square : square = (j * x) * (j * x)
  OBVIOUS
<1>6. square = 2 * z
  BY <1>3, <1>4, <1>5
<1>7. square \in Nat /\ square % 2 = 0
  BY <1>6
<1> QED BY <1>5, <1>7

LEMMA DefaultPath ==
  ASSUME NEW a, Fits(a), a.topo_type # "ha_reg_k8s"
  PROVE  LET spec == DefaultSpec(a)
             spread == a.link_jitter * a.link_latency
         IN /\ spec["latency"] + spec["latency"] = a.link_latency
            /\ spec["jitter"] + spec["jitter"] = spread * spread
<1>1. PICK latency, jitter :
        latency = a.link_latency /\ jitter = a.link_jitter
  OBVIOUS
<1>2. /\ latency \in Nat /\ latency % 2 = 0 /\ jitter \in Nat
  BY <1>1 DEF Fits
<1>3. PICK sq \in Nat : sq = (jitter * latency) * (jitter * latency) /\ sq % 2 = 0
  BY <1>2, EvenSquare
<1>4. /\ DefaultSpec(a)["latency"] = Half(latency)
      /\ DefaultSpec(a)["jitter"] = Half(sq)
  BY <1>1, <1>3 DEF DefaultSpec, PerLink
<1>5. /\ Half(latency) + Half(latency) = latency
      /\ Half(sq) + Half(sq) = sq
  BY <1>2, <1>3, TwoHalves
<1> QED BY <1>1, <1>3, <1>4, <1>5

\* The links are there once the driver has set them up.
NetInv == net # {} => \E a : /\ args = {a} /\ net = Links(a)
                             /\ ~TopologyRaises(a)

LEMMA FittingNetwork ==
  ASSUME NetInv, net # {}, \A a \in args : Fits(a)
  PROVE  WiredAsAsked
<1> SUFFICES
      ASSUME NEW a \in args
      PROVE  /\ \A sp \in ToSet(a.net_spec) : \E l \in net :
                  /\ l.ends = {sp.n_from, sp.n_to}
                  /\ l.spec = [latency |-> sp.latency, loss |-> sp.loss,
                               jitter |-> sp.jitter]
             /\ \A n \in Nodes(a) :
                  Cardinality({l \in net : n \in l.ends}) = 1
             /\ a.topo_type # "ha_reg_k8s" =>
                  \A m, n \in Plain(a) : m # n =>
                    LET spread == a.link_jitter * a.link_latency
                    IN /\ Along(m, n, "latency") = a.link_latency
                       /\ Along(m, n, "jitter") = spread * spread
  BY DEF WiredAsAsked
<1>1. args = {a} /\ net = Links(a) /\ Fits(a)
  BY DEF NetInv
<1>2. Whole(a) /\ Plain(a) \subseteq Nodes(a)
  BY <1>1 DEF Plain, Fits
<1>3. ASSUME NEW sp \in ToSet(a.net_spec)
      PROVE  \E l \in net : /\ l.ends = {sp.n_from, sp.n_to}
                            /\ l.spec = [latency |-> sp.latency,
                                         loss |-> sp.loss,
                                         jitter |-> sp.jitter]
  <2>1. PICK i \in 1..Len(a.net_spec) : sp = a.net_spec[i]
    BY <1>1 DEF ToSet, Fits
  <2> QED BY <1>1, <2>1, LinkHasEntry DEF EntryEnds
<1>4. ASSUME NEW n \in Nodes(a)
      PROVE  Cardinality({l \in net : n \in l.ends}) = 1
  <2>1. \E l : {m \in Links(a) : n \in m.ends} = {l}
    <3>1. CASE a.topo_type = "ha_reg_k8s"
      <4>1. \E k : {m \in Links(a) : n \in m.ends} = {Link(a, n, Switch(k))}
        BY <3>1, <1>2, RegionLink
      <4> QED BY <4>1
    <3>2. CASE a.topo_type # "ha_reg_k8s"
      <4>1. {m \in Links(a) : n \in m.ends} = {Link(a, n, Switch(1))}
        BY <3>2, <1>2, StarLink
      <4> QED BY <4>1
    <3> QED BY <3>1, <3>2
  <2> QED BY <1>1, <2>1, FS_Singleton
<1>5. ASSUME a.topo_type # "ha_reg_k8s", NEW n \in Plain(a)
      PROVE  LinkOf(n).spec = DefaultSpec(a)
  <2>1. {l \in net : n \in l.ends} = {Link(a, n, Switch(1))}
    BY <1>1, <1>2, <1>5, StarLink
  <2>2. LinkOf(n) \in {l \in net : n \in l.ends}
    BY <2>1 DEF LinkOf
  <2>3. LinkOf(n) = Link(a, n, Switch(1))
    BY <2>1, <2>2
  <2> QED BY <1>1, <1>2, <1>5, <2>3, PlainLink
<1>6. ASSUME a.topo_type # "ha_reg_k8s",
             NEW m \in Plain(a), NEW n \in Plain(a)
      PROVE  LET spread == a.link_jitter * a.link_latency
             IN /\ Along(m, n, "latency") = a.link_latency
                /\ Along(m, n, "jitter") = spread * spread
  <2>1. LinkOf(m).spec = DefaultSpec(a) /\ LinkOf(n).spec = DefaultSpec(a)
    BY <1>5, <1>6
  <2> QED BY <1>1, <1>6, <2>1, DefaultPath DEF Along
<1> QED BY <1>3, <1>4, <1>6

-----------------------------------------------------------------------------
(***************************************************************************)
(* The networks the scripts ask for.                                       *)
(***************************************************************************)
LEMMA OverGiven ==
  ASSUME NEW f, NEW g, NEW x \in DOMAIN f
  PROVE  x \in DOMAIN Over(f, g) /\ Over(f, g)[x] = f[x]
BY DEF Over

LEMMA OverOthers ==
  ASSUME NEW f, NEW g, NEW x, x \notin DOMAIN f
  PROVE  /\ x \in DOMAIN Over(f, g) <=> x \in DOMAIN g
         /\ x \in DOMAIN g => Over(f, g)[x] = g[x]
BY DEF Over

TopoNames == {"topo_type", "number_nodes", "number_clients", "link_latency",
              "link_loss", "link_jitter", "net_spec"}

\* On the network of ha_topo, with options that do not matter to it.
OnTable(a, v) ==
  /\ a.topo_type = (IF v = 3 THEN "ha_reg_k8s" ELSE "ha_k8s")
  /\ a.number_nodes = 6 /\ a.number_clients \in Nat \ {0}
  /\ a.link_latency \in Nat /\ a.link_latency % 2 = 0
  /\ a.link_loss \in Nat /\ a.link_jitter \in Nat
  /\ Len(a.net_spec) = Len(Tables[v])
  /\ DOMAIN a.net_spec = 1..Len(Tables[v])
  /\ \A k \in 1..Len(Tables[v]) :
       /\ a.net_spec[k].n_from = Tables[v][k].n_from
       /\ a.net_spec[k].n_to = Tables[v][k].n_to

LEMMA HaSpec ==
  ASSUME NEW v \in 0..3, NEW loss, NEW s
  PROVE  LET spec == HaTopo(v, loss, s).net_spec IN
         /\ Len(spec) = Len(Tables[v])
         /\ DOMAIN spec = 1..Len(Tables[v])
         /\ \A k \in 1..Len(Tables[v]) :
              /\ spec[k].n_from = Tables[v][k].n_from
              /\ spec[k].n_to = Tables[v][k].n_to
<1>1. Len(Tables[v]) \in Nat
  <2>1. CASE v = 3
    BY <2>1, RegionTable
  <2>2. CASE v # 3
    BY <2>2, StarTable
  <2> QED BY <2>1, <2>2
<1>2. PICK rows : rows = Tables[v]
  OBVIOUS
<1> QED BY <1>1, <1>2 DEF HaTopo

LEMMA ScriptLine ==
  ASSUME NEW p, NEW v \in 0..3, NEW loss, NEW s, NEW now,
         DOMAIN p \cap TopoNames = {}
  PROVE  OnTable(Parse(RunTestCommand(Over(p, HaTopo(v, loss, s))), now), v)
<1>1. PICK ha, params, r, line, a :
        /\ ha = HaTopo(v, loss, s) /\ params = Over(p, ha)
        /\ r = [result_location |-> "directory"]
        /\ line = Over(r, Over(params, DefaultParameters))
        /\ a = Parse(line, now)
  OBVIOUS
<1>2. line = RunTestCommand(params)
  BY <1>1 DEF RunTestCommand
<1>3. /\ DOMAIN ha = {"topo_type", "number_nodes", "link_latency",
                      "sys_variant", "net_spec"}
      /\ ha.topo_type = (IF v = 3 THEN "ha_reg_k8s" ELSE "ha_k8s")
      /\ ha.number_nodes = 6 /\ ha.link_latency = 4
      /\ ha.net_spec = HaTopo(v, loss, s).net_spec
  BY <1>1 DEF HaTopo
<1>4. \A x \in {"topo_type", "number_nodes", "link_latency", "net_spec"} :
        x \in DOMAIN line /\ line[x] = ha[x]
  <2> TAKE x \in {"topo_type", "number_nodes", "link_latency", "net_spec"}
  <2>1. x \in DOMAIN ha \ DOMAIN p /\ x \notin DOMAIN r
    BY <1>1, <1>3 DEF TopoNames
  <2>2. x \in DOMAIN params /\ params[x] = ha[x]
    BY <1>1, <2>1, OverOthers
  <2>3. PICK q : q = Over(params, DefaultParameters)
    OBVIOUS
  <2>4. x \in DOMAIN q /\ q[x] = ha[x]
    BY <2>2, <2>3, OverGiven
  <2> QED BY <1>1, <2>1, <2>3, <2>4, OverOthers
<1>5. \A x \in {"number_clients", "link_loss", "link_jitter"} :
        x \in DOMAIN line /\ line[x] = DefaultParameters[x]
  <2> TAKE x \in {"number_clients", "link_loss", "link_jitter"}
  <2>1. x \notin DOMAIN ha /\ x \notin DOMAIN p /\ x \notin DOMAIN r
    BY <1>1, <1>3 DEF TopoNames
  <2>2. x \notin DOMAIN params
    BY <1>1, <2>1, OverOthers
  <2>3. x \in DOMAIN DefaultParameters
    BY DEF DefaultParameters
  <2>4. PICK q : q = Over(params, DefaultParameters)
    OBVIOUS
  <2>5. x \in DOMAIN q /\ q[x] = DefaultParameters[x]
    BY <2>2, <2>3, <2>4, OverOthers
  <2> QED BY <1>1, <2>1, <2>4, <2>5, OverOthers
<1>6. \A x \in TopoNames : a[x] = line[x]
  BY <1>1, <1>4, <1>5, ParseKeeps DEF TopoNames
<1>7. /\ DefaultParameters.number_clients = 1
      /\ DefaultParameters.link_loss = 0 /\ DefaultParameters.link_jitter = 0
  BY DEF DefaultParameters
<1>8. /\ a.topo_type = ha.topo_type /\ a.number_nodes = 6
      /\ a.link_latency = 4 /\ a.net_spec = ha.net_spec
      /\ a.number_clients = 1 /\ a.link_loss = 0 /\ a.link_jitter = 0
  BY <1>3, <1>4, <1>5, <1>6, <1>7 DEF TopoNames
<1>9. OnTable(a, v)
  BY <1>3, <1>8, HaSpec DEF OnTable
<1> QED BY <1>1, <1>2, <1>9

LEMMA EdgeLine ==
  ASSUME NEW config, NEW v \in 0..3, NEW loss, NEW now,
         config.number_nodes = 6, config.number_clients \in Nat \ {0},
         config.link_latency \in Nat, config.link_latency % 2 = 0,
         config.link_loss \in Nat, config.link_jitter \in Nat
  PROVE  OnTable(Parse(EdgeReplay(config, v, loss), now), v)
<1>1. PICK line, a : /\ line = EdgeReplay(config, v, loss)
                     /\ a = Parse(line, now)
  OBVIOUS
<1>2. \A x \in EdgeNames : x \in DOMAIN line /\ line[x] = config[x]
  BY <1>1, EdgeKeeps
<1>3. \A x \in {"topo_type", "net_spec"} :
        x \in DOMAIN line /\ line[x] = OnHaTopo(v, loss)[x]
  <2>1. \A x \in {"topo_type", "net_spec"} :
          x \in DOMAIN OnHaTopo(v, loss) /\ x \notin WorkloadNames \cup EdgeNames
    BY DEF OnHaTopo, WorkloadNames, EdgeNames
  <2> QED BY <1>1, <2>1 DEF EdgeReplay, Replay
<1>4. \A x \in TopoNames : a[x] = line[x]
  BY <1>1, <1>2, <1>3, ParseKeeps DEF TopoNames, EdgeNames
<1>5. /\ a.topo_type = OnHaTopo(v, loss).topo_type
      /\ a.net_spec = OnHaTopo(v, loss).net_spec
      /\ a.number_nodes = config.number_nodes
      /\ a.number_clients = config.number_clients
      /\ a.link_latency = config.link_latency
      /\ a.link_loss = config.link_loss /\ a.link_jitter = config.link_jitter
  BY <1>2, <1>3, <1>4 DEF TopoNames, EdgeNames
<1>6. /\ OnHaTopo(v, loss).topo_type
           = (IF v = 3 THEN "ha_reg_k8s" ELSE "ha_k8s")
      /\ OnHaTopo(v, loss).net_spec = HaTopo(v, loss, 0).net_spec
  <2>1. HaTopo(v, loss, 0).topo_type
          = (IF v = 3 THEN "ha_reg_k8s" ELSE "ha_k8s")
    BY DEF HaTopo
  <2> QED BY <2>1 DEF OnHaTopo
<1>7. OnTable(a, v)
  BY <1>5, <1>6, HaSpec, SMTT(30) DEF OnTable
<1> QED BY <1>1, <1>7

LEMMA HaNodes ==
  ASSUME NEW a, a.topo_type \in {"ha_k8s", "ha_reg_k8s"}, a.number_nodes = 6,
         a.number_clients \in Nat \ {0}
  PROVE  /\ Len(Hosts(a)) = 7 /\ Hosts(a)[1] = <<"lb", 1>>
         /\ Hosts(a)[2] = <<"cp", 1>> /\ Hosts(a)[3] = <<"cp", 2>>
         /\ Hosts(a)[4] = <<"cp", 3>> /\ Hosts(a)[5] = <<"wn", 1>>
         /\ Hosts(a)[6] = <<"wn", 2>> /\ Hosts(a)[7] = <<"wn", 3>>
         /\ 1 \in 1..Len(Clients(a)) /\ Clients(a)[1] = <<"mc", 1>>
<1>1. PICK s, t : s = Hosts(a) /\ t = Clients(a)
  OBVIOUS
<1>2. s = CreateCluster(3, 3)
  <2>1. a.number_nodes - 3 = 3
    OBVIOUS
  <2> QED BY <1>1, <2>1 DEF Hosts
<1>3. /\ Len(s) = 7 /\ s[1] = <<"lb", 1>>
      /\ \A k \in 1..3 : s[1 + k] = <<"cp", k>> /\ s[4 + k] = <<"wn", k>>
  BY <1>2, HaCluster
<1>4. /\ s[1 + 1] = <<"cp", 1>> /\ s[1 + 2] = <<"cp", 2>>
      /\ s[1 + 3] = <<"cp", 3>>
      /\ s[4 + 1] = <<"wn", 1>> /\ s[4 + 2] = <<"wn", 2>>
      /\ s[4 + 3] = <<"wn", 3>>
  BY <1>3
<1>5. 1 \in 1..Len(t) /\ t[1] = <<"mc", 1>>
  <2>1. PICK c, kind : c = a.number_clients /\ kind = "mc"
    OBVIOUS
  <2>2. c \in Int /\ c >= 0 /\ 1 \in 1..c
    BY <2>1
  <2>3. t = Numbered(kind, c)
    BY <1>1, <2>1 DEF Clients
  <2>4. Len(Numbered(kind, c)) = c
    BY <2>2, NumberedNodes
  <2>5. \A k \in 1..c : Numbered(kind, c)[k] = <<kind, k>>
    BY <2>2, NumberedNodes
  <2> QED BY <2>1, <2>2, <2>3, <2>4, <2>5
<1> QED BY <1>1, <1>3, <1>4, <1>5

\* The tables of ha_topo name links of its topologies.
LEMMA StarFits ==
  ASSUME NEW a, NEW v \in 0..2, OnTable(a, v)
  PROVE  Fits(a)
<1>0. PICK T : T = Tables[v]
  OBVIOUS
<1>1. /\ a.topo_type = "ha_k8s" /\ Whole(a)
      /\ Len(a.net_spec) = Len(T) /\ DOMAIN a.net_spec = 1..Len(T)
      /\ \A k \in 1..Len(T) : /\ a.net_spec[k].n_from = T[k].n_from
                              /\ a.net_spec[k].n_to = T[k].n_to
  BY <1>0 DEF OnTable, Whole
<1>2. /\ Len(T) = 8
      /\ \A k \in 1..8 : T[k].n_from = StarNodes[k] /\ T[k].n_to = Switch(1)
  BY <1>0, StarTable
<1>3. \A k \in 1..8 : EntryEnds(a, k) = {StarNodes[k], Switch(1)}
  BY <1>1, <1>2 DEF EntryEnds
<1>4. \A k \in 1..8 : StarNodes[k] \in Nodes(a)
  <2>1. PICK s, t, N : s = Hosts(a) /\ t = Clients(a) /\ N = Nodes(a)
    OBVIOUS
  <2>2. /\ Len(s) = 7 /\ s[1] = <<"lb", 1>>
        /\ s[2] = <<"cp", 1>> /\ s[3] = <<"cp", 2>> /\ s[4] = <<"cp", 3>>
        /\ s[5] = <<"wn", 1>> /\ s[6] = <<"wn", 2>> /\ s[7] = <<"wn", 3>>
        /\ 1 \in 1..Len(t) /\ t[1] = <<"mc", 1>>
    BY <1>1, <2>1, HaNodes DEF OnTable
  <2>3. N = {s[k] : k \in 1..Len(s)} \cup {t[k] : k \in 1..Len(t)}
    BY <1>1, <2>1, NodesOf
  <2>4. t[1] \in N /\ \A k \in 1..7 : s[k] \in N
    BY <2>2, <2>3
  <2>5. /\ <<"lb", 1>> \in N /\ <<"cp", 1>> \in N /\ <<"cp", 2>> \in N
        /\ <<"cp", 3>> \in N /\ <<"wn", 1>> \in N /\ <<"wn", 2>> \in N
        /\ <<"wn", 3>> \in N /\ <<"mc", 1>> \in N
    <3>1. /\ s[1] \in N /\ s[2] \in N /\ s[3] \in N /\ s[4] \in N
          /\ s[5] \in N /\ s[6] \in N /\ s[7] \in N
      BY <2>4
    <3> QED BY <2>2, <2>4, <3>1
  <2>6. \A k \in 1..8 : StarNodes[k] \in N
    BY <2>5 DEF StarNodes
  <2> QED BY <2>1, <2>6
<1>5. \A m \in Nodes(a) : \E l \in Links(a) : l.ends = {m, Switch(1)}
  <2>1. Links(a) = {Link(a, m, Switch(1)) : m \in Nodes(a)}
    BY <1>1 DEF Links, StarLinks, Nodes
  <2>2. \A m : Link(a, m, Switch(1)).ends = {m, Switch(1)}
    BY DEF Link
  <2> HIDE DEF Link
  <2> QED BY <2>1, <2>2
<1>6. ASSUME NEW i \in 1..8
      PROVE  EntryEnds(a, i) \in {l.ends : l \in Links(a)}
  <2>1. PICK l \in Links(a) : l.ends = {StarNodes[i], Switch(1)}
    BY <1>4, <1>5
  <2> QED BY <2>1, <1>3
<1>7. \A i, j \in 1..8 : EntryEnds(a, i) = EntryEnds(a, j) => i = j
  <2>1. \A i, j \in 1..8 : StarNodes[i] = StarNodes[j] => i = j
    BY DEF StarNodes
  <2>2. \A i \in 1..8 : StarNodes[i] # Switch(1)
    BY <1>1, <1>4, NodesOf
  <2> QED BY <1>3, <2>1, <2>2
<1>8. /\ a.link_latency \in Nat /\ a.link_latency % 2 = 0
      /\ a.link_loss \in Nat /\ a.link_jitter \in Nat
  BY DEF OnTable
<1> QED BY <1>1, <1>2, <1>6, <1>7, <1>8 DEF Fits

LEMMA RegionFits ==
  ASSUME NEW a, OnTable(a, 3)
  PROVE  Fits(a)
<1>1. /\ a.topo_type = "ha_reg_k8s" /\ Whole(a)
      /\ Len(a.net_spec) = 11 /\ DOMAIN a.net_spec = 1..11
      /\ \A k \in 1..11 : EntryEnds(a, k) = RegionEnds(k)
  <2>1. \A k \in 1..11 : /\ a.net_spec[k].n_from = Tables[3][k].n_from
                         /\ a.net_spec[k].n_to = Tables[3][k].n_to
    BY RegionTable DEF OnTable
  <2>2. \A k \in 1..11 : EntryEnds(a, k) = RegionEnds(k)
    BY <2>1, RegionTable DEF EntryEnds
  <2> QED BY <2>2, RegionTable DEF OnTable, Whole
<1>2. \A k \in 1..11 : RegionEnds(k) \in {l.ends : l \in Links(a)}
  <2>1. PICK s, t : s = Hosts(a) /\ t = Clients(a)
    OBVIOUS
  <2>2. /\ Len(s) = 7 /\ s[1] = <<"lb", 1>>
        /\ s[2] = <<"cp", 1>> /\ s[3] = <<"cp", 2>> /\ s[4] = <<"cp", 3>>
        /\ s[5] = <<"wn", 1>> /\ s[6] = <<"wn", 2>> /\ s[7] = <<"wn", 3>>
        /\ 1 \in 1..Len(t) /\ t[1] = <<"mc", 1>>
    BY <1>1, <2>1, HaNodes DEF OnTable
  <2>5. Links(a) = {Link(a, Switch(k), Switch(1)) : k \in 2..4}
                     \cup {Link(a, Switch(3), Switch(4))}
                     \cup {Link(a, s[k], Switch(RegionOf(k))) : k \in 1..Len(s)}
                     \cup {Link(a, t[k], Switch(2)) : k \in 1..Len(t)}
    BY <1>1, <2>1, NodesOf DEF Links, RegionLinks
  <2>6. \A x, y : Link(a, x, y).ends = {x, y}
    BY DEF Link
  <2> HIDE DEF Link
  <2>7. /\ \A k \in 2..4 : {Switch(k), Switch(1)} \in {l.ends : l \in Links(a)}
        /\ {Switch(3), Switch(4)} \in {l.ends : l \in Links(a)}
    BY <2>5, <2>6
  <2>8. /\ \A k \in 1..7 :
             {s[k], Switch(RegionOf(k))} \in {l.ends : l \in Links(a)}
        /\ {t[1], Switch(2)} \in {l.ends : l \in Links(a)}
    <3>1. \A k \in 1..7 : Link(a, s[k], Switch(RegionOf(k))) \in Links(a)
      BY <2>2, <2>5
    <3>2. Link(a, t[1], Switch(2)) \in Links(a)
      BY <2>2, <2>5
    <3> QED BY <3>1, <3>2, <2>6
  <2>9. /\ RegionOf(1) = 2 /\ RegionOf(2) = 2 /\ RegionOf(3) = 3
        /\ RegionOf(4) = 4 /\ RegionOf(5) = 2 /\ RegionOf(6) = 3
        /\ RegionOf(7) = 4
    BY DEF RegionOf
  <2>11. PICK E : E = {l.ends : l \in Links(a)}
    OBVIOUS
  <2>12. /\ {s[1], Switch(2)} \in E /\ {s[2], Switch(2)} \in E
         /\ {s[3], Switch(3)} \in E /\ {s[4], Switch(4)} \in E
         /\ {s[5], Switch(2)} \in E /\ {s[6], Switch(3)} \in E
         /\ {s[7], Switch(4)} \in E
    BY <2>8, <2>9, <2>11
  <2>13. /\ {<<"lb", 1>>, Switch(2)} \in E /\ {<<"cp", 1>>, Switch(2)} \in E
         /\ {<<"cp", 2>>, Switch(3)} \in E /\ {<<"cp", 3>>, Switch(4)} \in E
         /\ {<<"wn", 1>>, Switch(2)} \in E /\ {<<"wn", 2>>, Switch(3)} \in E
         /\ {<<"wn", 3>>, Switch(4)} \in E /\ {<<"mc", 1>>, Switch(2)} \in E
    BY <2>2, <2>8, <2>11, <2>12
  <2>14. /\ {Switch(2), Switch(1)} \in E /\ {Switch(3), Switch(4)} \in E
         /\ {Switch(4), Switch(1)} \in E
    BY <2>7, <2>11
  <2>15. \A k \in 1..11 : RegionEnds(k) \in E
    <3>1. ASSUME NEW k \in 1..8 PROVE RegionEnds(k) \in E
      BY <3>1, <2>13 DEF RegionEnds
    <3>2. ASSUME NEW k \in 9..11 PROVE RegionEnds(k) \in E
      BY <3>2, <2>14 DEF RegionEnds
    <3> QED BY <3>1, <3>2
  <2> QED BY <2>11, <2>15
<1>3. \A i, j \in 1..11 : RegionEnds(i) = RegionEnds(j) => i = j
  <2>1. \A n \in {StarNodes[k] : k \in 1..8} : \A k : n # Switch(k)
    BY DEF StarNodes, Switch
  <2>2. \A k \in 1..8 : \E m : RegionEnds(k) = {StarNodes[k], Switch(m)}
    BY DEF RegionEnds, StarNodes
  <2>3. /\ RegionEnds(9) = {Switch(2), Switch(1)}
        /\ RegionEnds(10) = {Switch(3), Switch(4)}
        /\ RegionEnds(11) = {Switch(4), Switch(1)}
    BY DEF RegionEnds
  <2>4. \A i, j \in 1..8 : StarNodes[i] = StarNodes[j] => i = j
    BY DEF StarNodes
  <2>5. \A i, j \in 1..8 : RegionEnds(i) = RegionEnds(j) => i = j
    BY <2>1, <2>2, <2>4
  <2>6. ASSUME NEW i \in 1..8, NEW j \in 9..11
        PROVE  RegionEnds(i) # RegionEnds(j)
    <3>1. StarNodes[i] \in RegionEnds(i)
      BY <2>2
    <3>2. \E x, y : RegionEnds(j) = {Switch(x), Switch(y)}
      BY <2>3
    <3> QED BY <3>1, <3>2, <2>1
  <2>7. \A i, j \in 9..11 : RegionEnds(i) = RegionEnds(j) => i = j
    <3>1. \A i, j \in 1..4 : Switch(i) = Switch(j) => i = j
      BY DEF Switch
    <3>2. /\ RegionEnds(9) # RegionEnds(10) /\ RegionEnds(9) # RegionEnds(11)
          /\ RegionEnds(10) # RegionEnds(11)
      BY <2>3, <3>1
    <3> QED BY <3>2
  <2> QED BY <2>5, <2>6, <2>7
<1> QED BY <1>1, <1>2, <1>3 DEF Fits

-----------------------------------------------------------------------------
(***************************************************************************)
(* The network of the test that runs.                                      *)
(***************************************************************************)
\* A command line that asks for a network of its topology, or for one whose
\* constructor raises.
Sound(a) == Fits(a) \/ TopologyRaises(a)
Given(line) == \A now : Sound(Parse(line, now))

\* The campaigns that scripts put together; of the tests an edge replay is
\* made of, those with the cluster that ha_topo describes.
Scripted ==
  \/ job.mode \in {"kubetest", "throughput", "failures", "tester"}
  \/ /\ job.mode = "edge"
     /\ \A k \in 1..Len(Sources) :
          LET config == Sources[k].config IN
          /\ config.number_nodes = 6 /\ config.number_clients \in Nat \ {0}
          /\ config.link_latency \in Nat /\ config.link_latency % 2 = 0
          /\ config.link_loss \in Nat /\ config.link_jitter \in Nat

ScriptInv ==
  Scripted =>
    /\ \A t \in todo : Given(t.cmd)
    /\ \A c \in command : Given(c)
    /\ \A a \in args : Sound(a)

\* Where the network and the options it was made from are.
NetworkInv ==
  /\ NetInv
  /\ pc \notin {"test", "resps", "ops", "logs", "exit", "failed"} => net = {}
  /\ pc \in {"save", "setup"} => \E a : args = {a}

LEMMA TableGiven ==
  ASSUME NEW line, NEW v \in 0..3, \A now : OnTable(Parse(line, now), v)
  PROVE  Given(line)
<1>1. \A a : OnTable(a, v) => Fits(a)
  <2>1. CASE v = 3
    BY <2>1, RegionFits
  <2>2. CASE v # 3
    BY <2>2, StarFits
  <2> QED BY <2>1, <2>2
<1> QED BY <1>1 DEF Given, Sound

LEMMA ScriptsGiven ==
  ASSUME job \in Jobs, Scripted
  PROVE  \A t \in Actions : Given(t.cmd)
<1>0. job.variant \in 0..3
  BY CampaignAssumption
<1>1. ASSUME NEW p, NEW loss, NEW s, DOMAIN p \cap TopoNames = {}
      PROVE  Given(RunTestCommand(Over(p, HaTopo(job.variant, loss, s))))
  BY <1>0, <1>1, ScriptLine, TableGiven
<1>2. \A k, cmd : Task(k, cmd).cmd = cmd
  BY DEF Task
<1>3. CASE job.mode = "kubetest"
  <2>1. PICK cmd : cmd = RunTestCommand(Kubetest(job.variant, job.loss))
    OBVIOUS
  <2>2. Given(cmd)
    <3>1. PICK p : p = [rate |-> 20, failure_timeout |-> 10,
                        delay_interval |-> 100, failure_type |-> "none",
                        duration |-> 100, arrival_process |-> "poisson"]
      OBVIOUS
    <3>2. DOMAIN p \cap TopoNames = {}
      BY <3>1 DEF TopoNames
    <3>3. Kubetest(job.variant, job.loss)
            = Over(p, HaTopo(job.variant, job.loss, 0))
      BY <3>1 DEF Kubetest
    <3> QED BY <2>1, <3>2, <3>3, <1>1
  <2>3. \A t \in Actions : \E k : t = Task(k, cmd)
    BY <1>3, <2>1 DEF Actions
  <2> QED BY <1>2, <2>2, <2>3
<1>4. CASE job.mode = "throughput"
  <2>1. ASSUME NEW k \in 1..job.runs
        PROVE  Given(RunTestCommand(KubetestThroughput(job.variant, 1000 * k)))
    <3>1. PICK p : p = [rate |-> 1000 * k, failure_timeout |-> 10,
                        delay_interval |-> 100, failure_type |-> "none",
                        duration |-> 60, key_distribution |-> "tptest",
                        new_client_per_request |-> TRUE]
      OBVIOUS
    <3>2. DOMAIN p \cap TopoNames = {}
      BY <3>1 DEF TopoNames
    <3>3. KubetestThroughput(job.variant, 1000 * k)
            = Over(p, HaTopo(job.variant, 0, 0))
      BY <3>1 DEF KubetestThroughput
    <3> QED BY <3>2, <3>3, <1>1
  <2>2. \A t \in Actions : \E k \in 1..job.runs :
          t = Task(k, RunTestCommand(KubetestThroughput(job.variant, 1000 * k)))
    BY <1>4 DEF Actions
  <2> QED BY <1>2, <2>1, <2>2
<1>5. CASE job.mode = "failures"
  <2>1. PICK params :
          params = KubetestWithFailures(job.variant, job.loss, job.failure,
                                        600, 1)
    OBVIOUS
  <2>2. Given(RunTestCommand(params))
    <3>1. PICK p : p = [rate |-> 600, failure_timeout |-> 10,
                        delay_interval |-> 100, failure_type |-> job.failure,
                        duration |-> 60, key_distribution |-> "tptest",
                        new_client_per_request |-> TRUE, mtbf |-> 5,
                        light_reads |-> TRUE]
      OBVIOUS
    <3>2. DOMAIN p \cap TopoNames = {}
      BY <3>1 DEF TopoNames
    <3>3. params = Over(p, HaTopo(job.variant, job.loss, 1))
      BY <2>1, <3>1 DEF KubetestWithFailures
    <3> QED BY <3>2, <3>3, <1>1
  <2>3. \A t \in Actions : \E k : t = Task(k, RunTestCommand(params))
    BY <1>5, <2>1 DEF Actions
  <2> QED BY <1>2, <2>2, <2>3
<1>6. CASE job.mode = "edge"
  <2>1. ASSUME NEW k \in 1..Len(Sources)
        PROVE  Given(EdgeReplay(Sources[k].config, job.variant, job.loss))
    <3>1. PICK config : config = Sources[k].config
      OBVIOUS
    <3>2. /\ config.number_nodes = 6 /\ config.number_clients \in Nat \ {0}
          /\ config.link_latency \in Nat /\ config.link_latency % 2 = 0
          /\ config.link_loss \in Nat /\ config.link_jitter \in Nat
      BY <1>6, <3>1 DEF Scripted
    <3>3. \A now :
            OnTable(Parse(EdgeReplay(config, job.variant, job.loss), now),
                    job.variant)
      BY <1>0, <3>2, EdgeLine
    <3> QED BY <1>0, <3>1, <3>3, TableGiven
  <2>2. \A t \in Actions : \E k \in 1..Len(Sources) :
          t = Task(k, EdgeReplay(Sources[k].config, job.variant, job.loss))
    BY <1>6 DEF Actions
  <2> QED BY <1>2, <2>1, <2>2
<1>7. CASE job.mode = "tester"
  <2>1. ASSUME NEW p \in ConspirePaper
        PROVE  Given(TesterCommand(p))
    <3>1. "topo_type" \in DOMAIN p /\ p.topo_type = "wan"
      BY DEF ConspirePaper
    <3>2. "topo_type" \in DOMAIN TesterCommand(p)
          /\ TesterCommand(p).topo_type = "wan"
      BY <3>1, OverGiven DEF TesterCommand
    <3>3. \A now : Parse(TesterCommand(p), now).topo_type = "wan"
      BY <3>2, ParseKeeps
    <3> QED BY <3>3 DEF Given, Sound, TopologyRaises
  <2>2. \A t \in Actions : \E p \in ConspirePaper : t = Task(1, TesterCommand(p))
    BY <1>7 DEF Actions
  <2> QED BY <1>2, <2>1, <2>2
<1> QED BY <1>3, <1>4, <1>5, <1>6, <1>7 DEF Scripted

\* The network is there from its setting up to the end of the driver.
LEMMA NetworkSteps ==
  ASSUME NetworkInv, [Next]_vars
  PROVE  NetworkInv'
<1> DEFINE Running == {"test", "resps", "ops", "logs", "exit", "failed"}
<1>1. CASE UNCHANGED vars
  BY <1>1 DEF NetworkInv, NetInv, vars
<1>2. ASSUME UNCHANGED <<args, net>>, pc' \notin {"save", "setup"},
             pc' \in Running \/ pc \notin Running
      PROVE  NetworkInv'
  <2>1. NetInv'
    BY <1>2 DEF NetworkInv, NetInv
  <2>2. pc' \notin Running => net' = {}
    BY <1>2 DEF NetworkInv
  <2> QED BY <1>2, <2>1, <2>2 DEF NetworkInv
<1>3. ASSUME net' = {}, pc' \notin {"save", "setup"}
      PROVE  NetworkInv'
  BY <1>3 DEF NetworkInv, NetInv
<1>4. CASE Start
  BY <1>2, <1>4 DEF Start, testVars
<1>5. CASE Scan
  <2>1. ASSUME NEW u \in listing, ScanCounts(u) \/ ScanSkips(u) \/ ScanRemoves(u)
        PROVE  NetworkInv'
    <3>1. UNCHANGED <<args, net>> /\ pc = "scan" /\ pc' \in {"scan", "remove"}
      BY <2>1 DEF ScanCounts, ScanSkips, ScanRemoves, scanned
    <3> QED BY <3>1, <1>2
  <2>2. ASSUME RemoveFile \/ RemoveDir \/ ScanStray \/ ScanEnds
        PROVE  NetworkInv'
    <3>1. /\ UNCHANGED <<args, net>> /\ pc \in {"scan", "remove"}
          /\ pc' \in {"scan", "remove", "off", "next"}
      BY <2>2 DEF RemoveFile, RemoveDir, ScanStray, ScanEnds, scanned, testVars
    <3> QED BY <3>1, <1>2
  <2> QED BY <1>5, <2>1, <2>2 DEF Scan
<1>6. CASE Test
  <2>1. CASE BeginTest
    <3>1. UNCHANGED <<args, net>> /\ pc = "next" /\ pc' \in {"next", "make", "off"}
      BY <2>1 DEF BeginTest
    <3> QED BY <3>1, <1>2
  <2>2. CASE MakeDir
    BY <2>2, <1>2 DEF MakeDir
  <2>3. CASE ParseArgs
    <3>1. net = {} /\ net' = {} /\ \E a : args' = {a}
      BY <2>3 DEF ParseArgs, NetworkInv
    <3> QED BY <3>1 DEF NetworkInv, NetInv
  <2>4. CASE WriteConfigFull
    <3>1. pc = "save" /\ pc' = "setup" /\ UNCHANGED <<args, net>>
      BY <2>4 DEF WriteConfigFull
    <3> QED BY <3>1 DEF NetworkInv, NetInv
  <2>5. CASE Setup
    <3>1. PICK a : args = {a} /\ net = {} /\ args' = args
      BY <2>5 DEF Setup, NetworkInv
    <3>2. TheArgs = a
      BY <3>1 DEF TheArgs
    <3>3. \/ pc' = "failed" /\ net' = {}
          \/ pc' = "test" /\ net' = Links(a) /\ ~TopologyRaises(a)
      BY <2>5, <3>1, <3>2 DEF Setup
    <3> QED BY <3>1, <3>3 DEF NetworkInv, NetInv
  <2>6. CASE OpenResps \/ WriteResps \/ WriteOps \/ HandleTestEnd
    <3>1. UNCHANGED <<args, net>> /\ pc' \in Running
          /\ pc' \notin {"save", "setup"}
      BY <2>6 DEF OpenResps, WriteResps, WriteOps, HandleTestEnd
    <3> QED BY <3>1, <1>2
  <2>7. CASE DriverExits \/ DriverFails
    <3>1. net' = {} /\ pc' \in {"next", "off"}
      BY <2>7 DEF DriverExits, DriverFails, testOver
    <3> QED BY <3>1, <1>3
  <2> QED BY <1>6, <2>1, <2>2, <2>3, <2>4, <2>5, <2>6, <2>7 DEF Test
<1>7. CASE Done
  BY <1>2, <1>7 DEF Done, testVars
<1>8. CASE SetupFails
  BY <1>2, <1>8 DEF SetupFails
<1>9. CASE TestDies
  <2>1. UNCHANGED <<args, net>> /\ pc' = "exit"
    BY <1>9 DEF TestDies
  <2> QED BY <2>1, <1>2
<1>10. CASE Crash
  BY <1>3, <1>10 DEF Crash, testOver
<1> QED BY <1>1, <1>4, <1>5, <1>6, <1>7, <1>8, <1>9, <1>10 DEF Next

\* What a script runs is one of the lines it has put together.
LEMMA ScriptSteps ==
  ASSUME TypeOK, RunInv, ScriptInv, [Next]_vars
  PROVE  ScriptInv'
<1>1. job' = job
  BY DEF Next, vars, Start, Scan, Test, Done, SetupFails, TestDies, Crash,
         ScanCounts, ScanSkips, ScanRemoves, RemoveFile, RemoveDir, ScanStray,
         ScanEnds, BeginTest, MakeDir, ParseArgs, WriteConfigFull, Setup,
         OpenResps, WriteResps, WriteOps, HandleTestEnd, DriverExits,
         DriverFails, scanned, untested
<1>2. Scripted' <=> Scripted
  BY <1>1 DEF Scripted, Sources
<1> SUFFICES ASSUME Scripted
             PROVE  /\ \A t \in todo' : Given(t.cmd)
                    /\ \A c \in command' : Given(c)
                    /\ \A a \in args' : Sound(a)
  BY <1>2 DEF ScriptInv
<1>3. /\ \A t \in todo : Given(t.cmd)
      /\ \A c \in command : Given(c)
      /\ \A a \in args : Sound(a)
  BY DEF ScriptInv
<1>4. CASE ScanEnds
  <2>1. todo' = Actions /\ UNCHANGED <<command, args>>
    BY <1>4 DEF ScanEnds, testVars
  <2>2. \A t \in Actions : Given(t.cmd)
    BY ScriptsGiven DEF TypeOK
  <2> QED BY <1>3, <2>1, <2>2
<1>5. CASE BeginTest
  <2>1. PICK t \in todo : /\ todo' = todo \ {t}
                          /\ command' = {t.cmd} \/ command' = command
                          /\ args' = args
    BY <1>5 DEF BeginTest
  <2> QED BY <1>3, <2>1
<1>6. CASE ParseArgs
  <2>1. PICK c : c = CHOOSE x \in command : TRUE
    OBVIOUS
  <2>2. job.mode # "hand"
    BY DEF Scripted
  <2>3. args' = {Parse(c, Now(cur))} /\ UNCHANGED <<todo, command>>
    BY <1>6, <2>1, <2>2 DEF ParseArgs, untested
  <2>4. command # {}
    BY <1>6 DEF ParseArgs, RunInv
  <2>5. c \in command
    BY <2>1, <2>4
  <2> QED BY <1>3, <2>3, <2>5 DEF Given
<1>7. CASE \/ Start \/ Done \/ SetupFails \/ TestDies \/ Crash
           \/ \E u \in listing : ScanCounts(u) \/ ScanSkips(u) \/ ScanRemoves(u)
           \/ RemoveFile \/ RemoveDir \/ ScanStray
           \/ MakeDir \/ WriteConfigFull \/ Setup
           \/ OpenResps \/ WriteResps \/ WriteOps \/ HandleTestEnd
           \/ DriverExits \/ DriverFails \/ UNCHANGED vars
  <2>1. /\ todo' \in {{}, todo} /\ command' \in {{}, command}
        /\ args' \in {{}, args}
    BY <1>7
    DEF vars, Start, Done, SetupFails, TestDies, Crash, ScanCounts, ScanSkips,
        ScanRemoves, RemoveFile, RemoveDir, ScanStray, MakeDir,
        WriteConfigFull, Setup, OpenResps, WriteResps, WriteOps, HandleTestEnd,
        DriverExits, DriverFails, scanned, untested, testVars, testOver
  <2> QED BY <1>3, <2>1
<1> QED BY <1>4, <1>5, <1>6, <1>7 DEF Next, Scan, Test

\* Where the links are and which options they were made from, in every state.
LEMMA NetworkInvariant == Spec => [](NetworkInv /\ ScriptInv)
<1>1. Init => NetworkInv /\ ScriptInv
  BY DEF Init, NetworkInv, NetInv, ScriptInv
<1>2. Inv /\ NetworkInv /\ ScriptInv /\ [Next]_vars
      => (NetworkInv /\ ScriptInv)'
  BY NetworkSteps, ScriptSteps DEF Inv
<1> QED BY Invariant, <1>1, <1>2, PTL DEF Spec

(* If every entry of --net-spec names a link of the topology, no two the   *)
(* same, the network that setup() builds is wired as the options say: for  *)
(* any number of nodes and clients, any of the topologies, and options     *)
(* from anywhere, a test run by hand with --config among them.             *)
THEOREM NetworkIsWired ==
  Spec => []((\A a \in args : Fits(a)) => WiredAsAsked)
<1>1. NetworkInv => ((\A a \in args : Fits(a)) => WiredAsAsked)
  <2>1. net = {} => WiredAsAsked
    BY DEF WiredAsAsked
  <2> QED BY <2>1, FittingNetwork DEF NetworkInv
<1> QED BY NetworkInvariant, <1>1, PTL

(* The entries that ha_topo puts on the command line do name links of      *)
(* ha_k8s and ha_reg_k8s, one each: for every campaign that kubetester.py  *)
(* starts, and every edge replay of a test on six nodes, the network is    *)
(* wired as the options say.  (The entries are those of the table as a     *)
(* dict, from which the line for the link between s3 and s1 is gone, and   *)
(* nothing is said of the loss between nodes without an entry.)            *)
THEOREM ScriptedNetworks == Spec => [](Scripted => WiredAsAsked)
<1>1. NetworkInv /\ ScriptInv => (Scripted => WiredAsAsked)
  <2> SUFFICES ASSUME NetworkInv, ScriptInv, Scripted PROVE WiredAsAsked
    OBVIOUS
  <2>1. CASE net = {}
    BY <2>1 DEF WiredAsAsked
  <2>2. CASE net # {}
    <3>1. \A a \in args : Fits(a)
      BY <2>2 DEF NetworkInv, NetInv, ScriptInv, Sound
    <3> QED BY <2>2, <3>1, FittingNetwork DEF NetworkInv
  <2> QED BY <2>1, <2>2
<1> QED BY NetworkInvariant, <1>1, PTL

-----------------------------------------------------------------------------
(***************************************************************************)
(* How far a campaign has got.                                             *)
(***************************************************************************)
\* Program points from taking up a test to its last log.
Working == {"make", "parse", "save", "setup", "test", "resps", "ops", "logs"}

\* Completed tests that neither a test nor a removal is at work on.
Busy == (Filling \ {"exit"}) \cup {"remove"}
Finished == {u \in CountedDirs : pc \in Busy => u # cur}

\* What a scan has counted is finished, and what a replay saves has the seed
\* of the one command that is being run.
PassInv ==
  /\ job.mode \in Resumes /\ pc \notin {"off", "done"} => seen \subseteq Finished
  /\ \A c, d \in command : c = d
  /\ job.mode \in Replays =>
       /\ pc = "save" =>
            \A a \in args : \A c \in command : a.key_gen_seed = c.key_gen_seed
       /\ pc \in Working \ {"make", "parse", "save"} =>
            \A c \in command : Seed(cur) = c.key_gen_seed
  /\ pc = "done" => todo = {}

\* The replays that nothing is known of: neither completed nor to come.
Found(k) == \E u \in Finished : Seed(u) = Sources[k].config.key_gen_seed
Coming(k) == \/ Task(k, Line(k)) \in todo
             \/ pc \in Working /\ Line(k) \in command
Lost == {k \in Places : ~Found(k) /\ ~Coming(k)}

InHand == IF pc \in Working THEN 1 ELSE 0

\* What is neither completed nor to come has cost a fault, of those that
\* could still happen when there were f.
Owed(f) ==
  /\ faults <= f
  /\ pc \in (Working \cup {"next", "exit", "done"}) =>
       /\ job.mode = "kubetest" =>
            job.runs <= Cardinality(Finished) + Cardinality(todo) + InHand
                          + (f - faults)
       /\ job.mode \in Replays => Cardinality(Lost) <= f - faults

\* The steps that leave the folder as it is, with no test to finish there.
LEMMA FolderKept ==
  ASSUME Inv, job.mode \in Resumes,
         \/ Start \/ ScanEnds \/ ScanStray \/ BeginTest
         \/ DriverExits \/ DriverFails \/ Done \/ Crash \/ TestDies
         \/ \E u \in listing : ScanCounts(u) \/ ScanSkips(u)
  PROVE  disk' = disk /\ job' = job /\ pc' \notin Busy
<1>1. CASE Start
  BY <1>1 DEF Start, Busy, Filling
<1>2. CASE ScanEnds
  BY <1>2 DEF ScanEnds, Busy, Filling
<1>3. CASE ScanStray
  BY <1>3 DEF ScanStray, scanned, Busy, Filling
<1>4. CASE BeginTest
  BY <1>4 DEF BeginTest, Busy, Filling
<1>5. CASE DriverExits
  BY <1>5 DEF DriverExits, Busy, Filling
<1>6. CASE DriverFails
  BY <1>6 DEF DriverFails, Busy, Filling
<1>7. CASE Done
  BY <1>7 DEF Done, Busy, Filling
<1>8. CASE Crash
  BY <1>8 DEF Crash, Busy, Filling
<1>9. CASE TestDies
  BY <1>9 DEF TestDies, untested, Busy, Filling
<1>10. CASE \E u \in listing : ScanCounts(u) \/ ScanSkips(u)
  BY <1>10 DEF ScanCounts, ScanSkips, scanned, Busy, Filling
<1> QED
  BY <1>1, <1>2, <1>3, <1>4, <1>5, <1>6, <1>7, <1>8, <1>9, <1>10

\* The steps on the directory that is being filled or removed.
LEMMA OneTouched ==
  ASSUME Inv,
         \/ ParseArgs \/ WriteConfigFull \/ Setup \/ SetupFails \/ OpenResps
         \/ WriteResps \/ WriteOps \/ HandleTestEnd \/ RemoveFile \/ RemoveDir
  PROVE  /\ pc \in Busy /\ cur \in DOMAIN disk /\ job' = job
         /\ cur' = cur \/ pc' \notin Busy
         /\ \A u \in DOMAIN disk \ {cur} : u \in DOMAIN disk' /\ disk'[u] = disk[u]
<1>0. TypeOK /\ Directories
  BY DEF Inv, TypeOK, Directories
<1>1. CASE ParseArgs
  <2>1. pc \in Busy /\ cur \in DOMAIN disk /\ job' = job /\ cur' = cur
    BY <1>0, <1>1 DEF ParseArgs, untested, TypeOK, Busy, Filling
  <2>2. disk' = disk \/ disk' = Put({}, {"full"})
    BY <1>1 DEF ParseArgs
  <2> QED BY <1>0, <2>1, <2>2, PutEffect
<1>2. CASE WriteConfigFull
  <2>1. pc \in Busy /\ cur \in DOMAIN disk /\ job' = job /\ cur' = cur
    BY <1>0, <1>2 DEF WriteConfigFull, untested, TypeOK, Busy, Filling
  <2>2. disk' = [disk EXCEPT ![cur] = [files |-> @.files,
                                       saved |-> {SaveConfig(TheArgs)}]]
    BY <1>2 DEF WriteConfigFull
  <2> QED BY <1>0, <2>1, <2>2, SaveEffect
<1>3. CASE Setup \/ SetupFails
  BY <1>0, <1>3 DEF Setup, SetupFails, untested, TypeOK, Busy, Filling
<1>4. CASE OpenResps \/ WriteResps \/ WriteOps \/ HandleTestEnd
  <2>1. pc \in Busy /\ cur \in DOMAIN disk /\ job' = job /\ cur' = cur
    BY <1>0, <1>4 DEF OpenResps, WriteResps, WriteOps, HandleTestEnd, untested,
                      TypeOK, Busy, Filling
  <2>2. PICK old \in {{}, {"part"}},
             new \in {{"part"}, {"resps"}, {"ops"}, {"node"}, {"node", "bare"}} :
          disk' = Put(old, new)
    BY <1>4 DEF OpenResps, WriteResps, WriteOps, HandleTestEnd
  <2> QED BY <1>0, <2>1, <2>2, PutEffect
<1>5. CASE RemoveFile
  <2>1. pc \in Busy /\ cur \in DOMAIN disk /\ job' = job /\ cur' = cur
    BY <1>0, <1>5 DEF RemoveFile, testVars, TypeOK, Busy
  <2>2. PICK f \in disk[cur].files :
          disk' = [disk EXCEPT ![cur] =
                     [files |-> @.files \ {f},
                      saved |-> IF f = "full" THEN {} ELSE @.saved]]
    BY <1>5 DEF RemoveFile
  <2> QED BY <1>0, <2>1, <2>2, RemoveEffect
<1>6. CASE RemoveDir
  <2>1. pc \in Busy /\ cur \in DOMAIN disk /\ job' = job /\ pc' \notin Busy
    BY <1>0, <1>6 DEF RemoveDir, TypeOK, Busy, Filling
  <2>2. disk' = Restrict(disk, DOMAIN disk \ {cur})
    BY <1>6 DEF RemoveDir
  <2> QED BY <1>0, <2>1, <2>2, RemoveDirEffect
<1> QED BY <1>1, <1>2, <1>3, <1>4, <1>5, <1>6

\* What is finished stays, with what it has saved.
LEMMA FinishedKept ==
  ASSUME Inv, Next, job.mode \in Resumes
  PROVE  /\ Finished \subseteq Finished'
         /\ \A u \in Finished : disk'[u] = disk[u] /\ Seed(u)' = Seed(u)
<1>0. SUFFICES ASSUME NEW u \in Finished
               PROVE  /\ u \in DOMAIN disk' /\ disk'[u] = disk[u]
                      /\ pc' \in Busy => u # cur'
  BY DEF Finished, CountedDirs, Counted, Complete, Has, Seed, Saved
<1>1. u \in DOMAIN disk /\ Counted(u) /\ (pc \in Busy => u # cur)
  BY DEF Finished, CountedDirs
<1>2. CASE \/ Start \/ ScanEnds \/ ScanStray \/ BeginTest
           \/ DriverExits \/ DriverFails \/ Done \/ Crash \/ TestDies
           \/ \E v \in listing : ScanCounts(v) \/ ScanSkips(v)
  BY <1>1, <1>2, FolderKept
<1>3. CASE \/ ParseArgs \/ WriteConfigFull \/ Setup \/ SetupFails \/ OpenResps
           \/ WriteResps \/ WriteOps \/ HandleTestEnd \/ RemoveFile \/ RemoveDir
  BY <1>1, <1>3, OneTouched
<1>4. ASSUME NEW v \in listing, ScanRemoves(v)
      PROVE  disk' = disk /\ cur' = v /\ v # u
  <2>1. disk' = disk /\ cur' = v /\ v \in listing \ {0}
    BY <1>4 DEF ScanRemoves, scanned
  <2>2. disk[v].saved = {} \/ ~Complete(v)
    BY <1>4 DEF ScanRemoves
  <2>3. disk[u].saved # {} /\ Complete(u)
    BY <1>1 DEF Counted, Complete, Inv, FileInv
  <2> QED BY <2>1, <2>2, <2>3
<1>5. CASE MakeDir
  BY <1>1, <1>5, MakeDirEffect DEF Inv
<1> QED BY <1>1, <1>2, <1>3, <1>4, <1>5 DEF Next, Scan, Test

\* The steps that leave alone what the scan has counted and the command.
LEMMA PassKept ==
  ASSUME Inv, PassInv, Next,
         seen' = seen, job' = job,
         command' = {} \/ command' = command,
         pc' \notin {"off", "done"} => pc \notin {"off", "done"},
         pc' = "save" => pc = "save" /\ args' = args,
         pc' \in Working \ {"make", "parse", "save"} =>
           /\ pc \in Working \ {"make", "parse", "save"}
           /\ cur' = cur /\ disk'[cur].saved = disk[cur].saved,
         pc' = "done" => todo' = {}
  PROVE  PassInv'
<1>1. ASSUME job.mode \in Resumes, pc' \notin {"off", "done"}
      PROVE  seen' \subseteq Finished'
  BY <1>1, FinishedKept DEF PassInv
<1>2. \A c, d \in command' : c = d
  BY DEF PassInv
<1>3. ASSUME job.mode \in Replays, pc' = "save"
      PROVE  \A a \in args' : \A c \in command' :
               a.key_gen_seed = c.key_gen_seed
  BY <1>3 DEF PassInv
<1>4. ASSUME job.mode \in Replays,
             pc' \in Working \ {"make", "parse", "save"}
      PROVE  \A c \in command' : Seed(cur)' = c.key_gen_seed
  BY <1>4 DEF PassInv, Seed, Saved
<1> QED BY <1>1, <1>2, <1>3, <1>4 DEF PassInv

LEMMA PassStart ==
  ASSUME Inv, PassInv, Start
  PROVE  PassInv'
BY DEF Start, testVars, PassInv, Working

LEMMA PassCounts ==
  ASSUME Inv, PassInv, NEW u \in listing, ScanCounts(u)
  PROVE  PassInv'
<1>1. /\ pc = "scan" /\ pc' = "scan" /\ u \in listing \ {0} /\ Counted(u)
      /\ seen' = seen \cup {u}
      /\ UNCHANGED <<job, disk, todo, command, cur, args>>
  BY DEF ScanCounts, scanned
<1>2. CountedDirs' = CountedDirs
  BY <1>1 DEF CountedDirs, Counted, Complete, Has
<1>3. u \in CountedDirs
  BY <1>1 DEF CountedDirs, Inv, ScanInv
<1>4. Finished' = CountedDirs
  BY <1>1, <1>2 DEF Finished, Busy, Filling
<1>5. job.mode \in Resumes => seen \subseteq CountedDirs
  BY <1>1 DEF PassInv, Finished
<1> QED BY <1>1, <1>3, <1>4, <1>5 DEF PassInv, Working

LEMMA PassScan ==
  ASSUME Inv, PassInv, Scan
  PROVE  PassInv'
<1>1. CASE \E u \in listing : ScanCounts(u)
  BY <1>1, PassCounts
<1>2. CASE \/ \E u \in listing : ScanSkips(u) \/ ScanRemoves(u)
           \/ RemoveFile \/ RemoveDir \/ ScanStray \/ ScanEnds
  <2>1. /\ seen' = seen /\ job' = job /\ command' = command
        /\ pc \notin {"off", "done"} /\ pc' \in {"scan", "remove", "off", "next"}
    BY <1>2 DEF ScanSkips, ScanRemoves, RemoveFile, RemoveDir, ScanStray,
                ScanEnds, scanned, scanVars, testVars
  <2>2. Next
    BY DEF Next
  <2> QED BY <2>1, <2>2, PassKept DEF Working
<1> QED BY <1>1, <1>2 DEF Scan

LEMMA PassBegins ==
  ASSUME Inv, PassInv, BeginTest
  PROVE  PassInv'
<1>1. /\ pc = "next" /\ UNCHANGED <<job, disk, seen, cur, args>>
      /\ pc' \in {"make", "next", "off"}
  BY DEF BeginTest, scanVars
<1>2. (\E task \in todo : command' = {task.cmd}) \/ command' = command
  BY DEF BeginTest
<1>3. \A c, d \in command' : c = d
  BY <1>2 DEF PassInv
<1>4. Next
  BY DEF Next, Test
<1>5. job.mode \in Resumes => seen' \subseteq Finished'
  BY <1>1, <1>4, FinishedKept DEF PassInv
<1> QED BY <1>1, <1>3, <1>5 DEF PassInv, Working

LEMMA PassParses ==
  ASSUME Inv, PassInv, ParseArgs
  PROVE  PassInv'
<1>1. /\ pc = "parse" /\ pc' \in {"save", "failed"}
      /\ UNCHANGED <<job, seen, todo, command, cur>>
  BY DEF ParseArgs, untested, scanVars
<1>2. Next
  BY DEF Next, Test
<1>3. job.mode \in Resumes => seen' \subseteq Finished'
  BY <1>1, <1>2, FinishedKept DEF PassInv
<1>4. ASSUME job.mode \in Replays, pc' = "save", NEW a \in args', NEW c \in command'
      PROVE  a.key_gen_seed = c.key_gen_seed
  <2>1. SeedInv'
    BY <1>2, Step DEF Inv
  <2>2. PICK d \in command' : a.key_gen_seed = d.key_gen_seed
    BY <1>1, <1>4, <2>1 DEF SeedInv
  <2>3. d = c
    BY <1>1 DEF PassInv
  <2> QED BY <2>2, <2>3
<1> QED BY <1>1, <1>3, <1>4 DEF PassInv, Working

LEMMA PassSaves ==
  ASSUME Inv, PassInv, WriteConfigFull
  PROVE  PassInv'
<1>1. /\ pc = "save" /\ pc' = "setup"
      /\ UNCHANGED <<job, seen, todo, command, cur, args>>
      /\ disk' = [disk EXCEPT ![cur] = [files |-> @.files,
                                        saved |-> {SaveConfig(TheArgs)}]]
  BY DEF WriteConfigFull, untested, scanVars
<1>2. Next
  BY DEF Next, Test
<1>3. job.mode \in Resumes => seen' \subseteq Finished'
  BY <1>1, <1>2, FinishedKept DEF PassInv
<1>4. ASSUME job.mode \in Replays, NEW c \in command'
      PROVE  Seed(cur)' = c.key_gen_seed
  <2>1. Directories /\ cur \in DOMAIN disk
    BY <1>1 DEF Inv, TypeOK, Directories, Filling
  <2>2. disk'[cur].saved = {SaveConfig(TheArgs)}
    BY <1>1, <2>1, SaveEffect
  <2>3. TheArgs \in args
    BY <1>1 DEF Inv, RunInv, TheArgs
  <2>4. TheArgs.key_gen_seed = c.key_gen_seed
    BY <1>1, <1>4, <2>3 DEF PassInv
  <2>5. SaveConfig(TheArgs).key_gen_seed = TheArgs.key_gen_seed
    BY NamesKnown, SeedIsKept, SaveKeeps DEF Kept
  <2>6. Seed(cur)' = SaveConfig(TheArgs).key_gen_seed
    BY <1>1, <2>2 DEF Seed, Saved
  <2> QED BY <2>4, <2>5, <2>6
<1> QED BY <1>1, <1>3, <1>4 DEF PassInv

LEMMA PassSteps ==
  ASSUME Inv, PassInv, [Next]_vars
  PROVE  PassInv'
<1>1. CASE Start \/ Scan \/ BeginTest \/ ParseArgs \/ WriteConfigFull
  BY <1>1, PassStart, PassScan, PassBegins, PassParses, PassSaves
<1>2. CASE MakeDir \/ DriverExits \/ DriverFails \/ Crash
  <2>1. /\ seen' = seen /\ job' = job
        /\ command' = {} \/ command' = command
        /\ pc \notin {"off", "done"} /\ pc' \in {"parse", "next", "off"}
    BY <1>2 DEF MakeDir, DriverExits, DriverFails, Crash, untested, scanVars, testOver
  <2>2. Next
    BY <1>2 DEF Next, Test
  <2> QED BY <2>1, <2>2, PassKept DEF Working
<1>3. CASE Done
  BY <1>3, PassKept DEF Done, scanVars, testVars, Working, Next
<1>4. CASE Setup \/ SetupFails \/ TestDies
  <2>1. /\ UNCHANGED <<seen, job, command, disk, cur, args>>
        /\ pc \notin {"off", "done"} /\ pc' \in {"failed", "exit", "test"}
        /\ pc' = "test" => pc = "setup"
    BY <1>4 DEF Setup, SetupFails, TestDies, untested, scanVars
  <2>2. Next
    BY <1>4 DEF Next, Test
  <2> QED BY <2>1, <2>2, PassKept DEF Working
<1>5. CASE OpenResps \/ WriteResps \/ WriteOps \/ HandleTestEnd
  <2>1. /\ UNCHANGED <<seen, job, command, cur, args>>
        /\ pc \in {"test", "resps", "ops", "logs"}
        /\ pc' \in {"resps", "ops", "logs", "exit"}
    BY <1>5 DEF OpenResps, WriteResps, WriteOps, HandleTestEnd, untested, scanVars
  <2>2. PICK old \in {{}, {"part"}},
             new \in {{"part"}, {"resps"}, {"ops"}, {"node"}, {"node", "bare"}} :
          disk' = Put(old, new)
    BY <1>5 DEF OpenResps, WriteResps, WriteOps, HandleTestEnd
  <2>3. cur \in DOMAIN disk /\ Directories
    BY <2>1 DEF Inv, TypeOK, Directories, Filling
  <2>4. disk'[cur].saved = disk[cur].saved
    BY <2>2, <2>3, PutEffect
  <2>5. Next
    BY <1>5 DEF Next, Test
  <2> QED BY <2>1, <2>4, <2>5, PassKept DEF Working
<1>6. CASE UNCHANGED vars
  BY <1>6 DEF vars, PassInv, Finished, CountedDirs, Counted, Complete, Has, Seed, Saved
<1> QED BY <1>1, <1>2, <1>3, <1>4, <1>5, <1>6 DEF Next, Test

\* Finitely many directories are finished, and a step finishes no fewer.
LEMMA FinishedFinite ==
  ASSUME TypeOK
  PROVE  IsFiniteSet(Finished) /\ Cardinality(Finished) \in Nat
<1>1. Finished \in SUBSET DOMAIN disk
  BY DEF Finished, CountedDirs
<1> QED BY <1>1, FS_Subset, FS_CardinalityType DEF TypeOK

LEMMA NoFewer ==
  ASSUME Inv, Next, job.mode \in Resumes
  PROVE  /\ Cardinality(Finished) \in Nat /\ Cardinality(Finished') \in Nat
         /\ Cardinality(Finished) <= Cardinality(Finished')
<1>1. TypeOK'
  BY Step DEF Inv
<1>2. IsFiniteSet(Finished') /\ Cardinality(Finished') \in Nat
  <2>1. Finished' \in SUBSET DOMAIN disk'
    BY DEF Finished, CountedDirs
  <2> QED BY <1>1, <2>1, FS_Subset, FS_CardinalityType DEF TypeOK
<1>3. Finished \in SUBSET Finished'
  BY FinishedKept
<1> QED BY <1>2, <1>3, FS_Subset, FinishedFinite DEF Inv

\* A replay that was found stays found.
LEMMA FoundKept ==
  ASSUME Inv, Next, job' = job, job.mode \in Resumes, NEW k, Found(k)
  PROVE  Found(k)'
BY FinishedKept DEF Found, Sources

\* There are finitely many replays.
LEMMA LostFinite ==
  ASSUME job.mode \in Replays
  PROVE  IsFiniteSet(Lost) /\ Cardinality(Lost) \in Nat
<1>1. Places = 1..Len(Sources)
  BY DEF Places, Replays
<1>2. Lost \in SUBSET Places
  BY DEF Lost
<1>3. IsFiniteSet(Places)
  BY <1>1, FS_Interval
<1> QED BY <1>2, <1>3, FS_Subset, FS_CardinalityType

\* As many tests as are missing are taken up, and no fewer.
LEMMA ActionsExact ==
  ASSUME job.mode = "kubetest", job.runs \in Nat, Cardinality(seen) \in Nat,
         Cardinality(seen) <= job.runs
  PROVE  Cardinality(Actions) = job.runs - Cardinality(seen)
<1> DEFINE n == job.runs - Cardinality(seen)
           c == RunTestCommand(Kubetest(job.variant, job.loss))
           f == [k \in 1..n |-> Task(k, c)]
<1>1. Actions = {Task(k, c) : k \in 1..n}
  BY DEF Actions
<1>2. n \in Nat /\ n + Cardinality(seen) = job.runs
  OBVIOUS
<1> HIDE DEF n, c
<1>3. f \in Surjection(1..n, Actions)
  BY <1>1 DEF Surjection
<1>4. \A j, k \in 1..n : Task(j, c) = Task(k, c) => j = k
  BY DEF Task
<1>5. f \in Injection(1..n, Actions)
  BY <1>1, <1>4 DEF Injection, IsInjective
<1>6. IsFiniteSet(1..n) /\ Cardinality(1..n) = n
  BY <1>2, FS_Interval
<1>7. IsFiniteSet(Actions)
  BY <1>3, <1>6, FS_Surjection
<1> HIDE DEF f
<1>8. Cardinality(1..n) = Cardinality(Actions)
  BY <1>3, <1>5, <1>7, FS_Injection
<1> QED BY <1>6, <1>8 DEF n

\* Steps of a test, and the end of the script: what is to come stays to come.
LEMMA OwedKept ==
  ASSUME Inv, Next, NEW f \in Nat, Owed(f),
         UNCHANGED <<job, todo, faults>>,
         \/ pc \in Working /\ pc' \in Working /\ command' = command
         \/ pc \in {"next", "exit"} /\ pc' \in {"next", "done"}
  PROVE  Owed(f)'
<1>1. CASE job.mode = "kubetest"
  <2>1. job.mode \in Resumes /\ job.mode \notin Replays
    BY <1>1 DEF Resumes, Replays
  <2>2. InHand' = InHand /\ InHand \in Nat
    BY DEF InHand, Working
  <2>3. job.runs <= Cardinality(Finished) + Cardinality(todo) + InHand
                      + (f - faults)
    BY <1>1 DEF Owed
  <2>4. IsFiniteSet(todo) /\ Cardinality(todo) \in Nat
    BY <1>1, FS_CardinalityType DEF Inv, CountInv, Working, Filling
  <2>5. job.runs \in Nat /\ faults \in Nat
    BY CampaignAssumption DEF Inv, TypeOK
  <2>6. job.runs <= Cardinality(Finished') + Cardinality(todo) + InHand
                      + (f - faults)
    BY <2>1, <2>2, <2>3, <2>4, <2>5, NoFewer
  <2> QED BY <1>1, <2>1, <2>2, <2>6 DEF Owed
<1>2. CASE job.mode \in Replays
  <2>1. job.mode \in Resumes /\ job.mode # "kubetest"
    BY <1>2 DEF Resumes, Replays
  <2>2. \A k \in Places : Found(k) => Found(k)'
    BY <2>1, FoundKept
  <2>3. \A k \in Places : Coming(k) => Coming(k)'
    BY JobKept DEF Coming, Working
  <2>4. Lost' \in SUBSET Lost
    BY <2>2, <2>3, JobKept DEF Lost
  <2>5. IsFiniteSet(Lost) /\ Cardinality(Lost) \in Nat
    BY <1>2, LostFinite
  <2>6. Cardinality(Lost') <= Cardinality(Lost) /\ Cardinality(Lost') \in Nat
    BY <2>4, <2>5, FS_Subset, FS_CardinalityType
  <2>7. faults \in Nat /\ Cardinality(Lost) <= f - faults
    BY <1>2 DEF Owed, Inv, TypeOK, Working
  <2>8. Cardinality(Lost') <= f - faults'
    BY <2>5, <2>6, <2>7
  <2> QED BY <1>2, <2>1, <2>8 DEF Owed
<1>3. CASE job.mode \notin Resumes
  BY <1>3 DEF Owed, Resumes, Replays
<1> QED BY <1>1, <1>2, <1>3 DEF Resumes

\* Steps after which the script is not at its tests.
LEMMA OwedBetween ==
  ASSUME Inv, NEW f \in Nat, Owed(f), faults' \in Int, faults' <= faults,
         \/ pc' \notin Working \cup {"next", "exit", "done"}
         \/ job' = job /\ job.mode \notin Resumes
  PROVE  Owed(f)'
<1>1. faults \in Nat /\ faults <= f
  BY DEF Inv, TypeOK, Owed
<1> QED BY <1>1 DEF Owed, Resumes, Replays

\* A scan that is over takes up all that is missing.
LEMMA OwedScanned ==
  ASSUME Inv, PassInv, NEW f \in Nat, Owed(f), ScanEnds
  PROVE  Owed(f)'
<1>1. /\ pc = "scan" /\ pc' = "next" /\ todo' = Actions /\ listing = {}
      /\ UNCHANGED <<job, disk, seen, command, faults>>
  BY DEF ScanEnds, scanVars, testVars
<1>2. faults \in Nat /\ faults <= f
  BY DEF Owed, Inv, TypeOK
<1>3. Next
  BY DEF Next, Scan
<1>4. CASE job.mode = "kubetest"
  <2>1. job.mode \in Resumes /\ job.mode \notin Replays
    BY <1>4 DEF Resumes, Replays
  <2>2. /\ IsFiniteSet(Finished) /\ Cardinality(Finished) \in Nat
        /\ Cardinality(Finished') \in Nat
        /\ Cardinality(Finished) <= Cardinality(Finished')
    BY <1>3, <2>1, NoFewer, FinishedFinite DEF Inv
  <2>3. seen \in SUBSET Finished
    BY <1>1, <2>1 DEF PassInv
  <2>4. /\ IsFiniteSet(seen) /\ Cardinality(seen) \in Nat
        /\ Cardinality(seen) <= Cardinality(Finished)
    BY <2>2, <2>3, FS_Subset, FS_CardinalityType
  <2>5. /\ job.runs \in Nat /\ Cardinality(FullDirs) <= job.runs
        /\ IsFiniteSet(FullDirs) /\ Cardinality(FullDirs) \in Nat
    BY <1>4, CampaignAssumption, FullDirsFinite DEF Inv, TypeOK, CountInv
  <2>6. seen \in SUBSET FullDirs
    BY <2>3 DEF Finished, CountedDirs, Counted, FullDirs
  <2>7. Cardinality(seen) <= job.runs
    BY <2>4, <2>5, <2>6, FS_Subset
  <2>8. Cardinality(todo') = job.runs - Cardinality(seen)
    BY <1>1, <1>4, <2>4, <2>5, <2>7, ActionsExact
  <2>9. InHand' = 0
    BY <1>1 DEF InHand, Working
  <2>10. job.runs <= Cardinality(Finished') + Cardinality(todo') + InHand'
                       + (f - faults')
    BY <1>1, <1>2, <2>2, <2>4, <2>5, <2>8, <2>9
  <2> QED BY <1>1, <1>2, <1>4, <2>1, <2>10 DEF Owed
<1>5. CASE job.mode \in Replays
  <2>1. job.mode # "kubetest"
    BY <1>5 DEF Replays
  <2>2. \A k \in Places : Task(k, Line(k)) \in Actions
    <3>1. CASE job.mode = "edge"
      BY <3>1 DEF Actions, Places, Line
    <3>2. CASE job.mode = "pi4"
      BY <3>2 DEF Actions, Places, Line
    <3> QED BY <1>5, <3>1, <3>2 DEF Replays
  <2>3. Lost' = {}
    BY <1>1, <2>2, JobKept DEF Lost, Coming
  <2>4. Cardinality(Lost') = 0
    BY <2>3, FS_EmptySet
  <2> QED BY <1>1, <1>2, <2>1, <2>4 DEF Owed
<1>6. CASE job.mode \notin Resumes
  BY <1>1, <1>2, <1>6, OwedBetween
<1> QED BY <1>4, <1>5, <1>6 DEF Resumes

\* The test that is taken up is in hand; one that is skipped was found.
LEMMA OwedBegun ==
  ASSUME Inv, PassInv, NEW f \in Nat, Owed(f), BeginTest
  PROVE  Owed(f)'
<1>1. pc = "next" /\ UNCHANGED <<job, disk, seen, cur, args, faults>>
  BY DEF BeginTest, scanVars
<1>2. PICK task \in todo :
        /\ todo' = todo \ {task}
        /\ \/ ~Skipped(task) /\ pc' = "make" /\ command' = {task.cmd}
           \/ Skipped(task) /\ pc' = "next" /\ command' = command
           \/ pc' = "off"
  BY <1>1 DEF BeginTest
<1>3. faults \in Nat /\ faults <= f
  BY DEF Owed, Inv, TypeOK
<1>4. Next
  BY DEF Next, Test
<1>5. CASE pc' = "off"
  BY <1>1, <1>3, <1>5, OwedBetween DEF Working
<1>6. CASE job.mode = "kubetest" /\ pc' # "off"
  <2>1. job.mode \in Resumes /\ job.mode \notin Replays
    BY <1>6 DEF Resumes, Replays
  <2>2. pc' = "make"
    BY <1>2, <1>6, <2>1 DEF Skipped
  <2>3. InHand = 0 /\ InHand' = 1
    BY <1>1, <2>2 DEF InHand, Working
  <2>4. job.runs <= Cardinality(Finished) + Cardinality(todo) + InHand
                      + (f - faults)
    BY <1>1, <1>6 DEF Owed
  <2>5. IsFiniteSet(todo)
    BY <1>1, <1>6 DEF Inv, CountInv
  <2>6. /\ Cardinality(todo) \in Nat /\ Cardinality(todo') \in Nat
        /\ Cardinality(todo') = Cardinality(todo) - 1
    BY <1>2, <2>5, FS_RemoveElement, FS_CardinalityType
  <2>7. job.runs \in Nat
    BY CampaignAssumption DEF Inv, TypeOK
  <2>8. job.runs <= Cardinality(Finished') + Cardinality(todo') + InHand'
                      + (f - faults')
    BY <1>1, <1>3, <1>4, <2>1, <2>3, <2>4, <2>6, <2>7, NoFewer
  <2> QED BY <1>1, <1>3, <1>6, <2>1, <2>8 DEF Owed
<1>7. CASE job.mode \in Replays /\ pc' # "off"
  <2>1. job.mode \in Resumes /\ job.mode # "kubetest" /\ Modelled
    BY <1>7 DEF Resumes, Replays, Modelled
  <2>2. PICK j \in Places : task = Task(j, Line(j))
    BY <1>2, <2>1 DEF Inv, OriginInv
  <2>3. task.cmd = Line(j)
    BY <2>2 DEF Task
  <2>4. ASSUME NEW k \in Places, ~Found(k)', ~Coming(k)'
        PROVE  ~Found(k) /\ ~Coming(k)
    <3>1. ~Found(k)
      BY <1>1, <1>4, <2>1, <2>4, FoundKept
    <3>2. ASSUME Task(k, Line(k)) \in todo
          PROVE  FALSE
      <4>1. Task(k, Line(k)) = task
        BY <1>1, <1>2, <2>4, <3>2, JobKept DEF Coming
      <4>2. task.cmd = Line(k)
        BY <4>1 DEF Task
      <4>3. CASE pc' = "make" /\ command' = {task.cmd}
        BY <1>1, <2>4, <4>2, <4>3, JobKept DEF Coming, Working
      <4>4. CASE Skipped(task)
        <5>1. PICK u \in seen : Saved(u).key_gen_seed = Line(k).key_gen_seed
          BY <4>2, <4>4 DEF Skipped
        <5>2. u \in Finished
          BY <1>1, <2>1, <5>1 DEF PassInv
        <5>3. Line(k).key_gen_seed = Sources[k].config.key_gen_seed
          BY <1>7, LineKeeps, SeedIsKept
        <5> QED BY <3>1, <5>1, <5>2, <5>3 DEF Found, Seed
      <4> QED BY <1>2, <1>7, <4>3, <4>4
    <3> QED BY <1>1, <3>1, <3>2 DEF Coming, Working
  <2>5. Lost' \in SUBSET Lost
    BY <1>1, <2>4, JobKept DEF Lost
  <2>6. /\ Cardinality(Lost') \in Nat /\ Cardinality(Lost) \in Nat
        /\ Cardinality(Lost') <= Cardinality(Lost)
    BY <1>7, <2>5, LostFinite, FS_Subset, FS_CardinalityType
  <2>7. Cardinality(Lost) <= f - faults
    BY <1>1, <1>7 DEF Owed
  <2>8. Cardinality(Lost') <= f - faults'
    BY <1>1, <1>3, <2>6, <2>7
  <2> QED BY <1>1, <1>3, <1>7, <2>1, <2>8 DEF Owed
<1>8. CASE job.mode \notin Resumes
  BY <1>1, <1>3, <1>8, OwedBetween
<1> QED BY <1>5, <1>6, <1>7, <1>8 DEF Resumes

\* A test that ends well is finished, and its replay found.
LEMMA OwedCompleted ==
  ASSUME Inv, PassInv, NEW f \in Nat, Owed(f), pc = "logs", HandleTestEnd,
         disk' = Put({}, {"node"}), faults' = faults
  PROVE  Owed(f)'
<1>1. pc' = "exit" /\ UNCHANGED <<job, todo, command, cur>>
  BY DEF HandleTestEnd, untested
<1>2. faults \in Nat /\ faults <= f
  BY DEF Owed, Inv, TypeOK
<1>3. Next
  BY DEF Next, Test
<1>4. Directories /\ cur \in DOMAIN disk
  BY DEF Inv, TypeOK, Directories, Filling
<1>5. /\ DOMAIN disk' = DOMAIN disk /\ disk'[cur].saved = disk[cur].saved
      /\ disk'[cur].files = {"full", "resps", "ops", "node"}
  <2>1. disk[cur].files = {"full", "resps", "ops"}
    BY DEF Inv, FileInv
  <2> QED BY <1>4, <2>1, PutEffect
<1>6. cur \in Finished' /\ cur \notin Finished /\ Seed(cur)' = Seed(cur)
  BY <1>1, <1>4, <1>5 DEF Finished, CountedDirs, Counted, Complete, Has, Busy,
                          Filling, Seed, Saved
<1>7. CASE job.mode = "kubetest"
  <2>1. job.mode \in Resumes /\ job.mode \notin Replays
    BY <1>7 DEF Resumes, Replays
  <2>2. InHand = 1 /\ InHand' = 0
    BY <1>1 DEF InHand, Working
  <2>3. Finished \cup {cur} \in SUBSET Finished'
    BY <1>3, <1>6, <2>1, FinishedKept
  <2>4. IsFiniteSet(Finished) /\ Cardinality(Finished) \in Nat
    BY FinishedFinite DEF Inv
  <2>5. /\ IsFiniteSet(Finished \cup {cur})
        /\ Cardinality(Finished \cup {cur}) = Cardinality(Finished) + 1
    BY <1>6, <2>4, FS_AddElement
  <2>6. IsFiniteSet(Finished') /\ Cardinality(Finished') \in Nat
    <3>1. Finished' \in SUBSET DOMAIN disk
      BY <1>5 DEF Finished, CountedDirs
    <3> QED BY <3>1, FS_Subset, FS_CardinalityType DEF Inv, TypeOK
  <2>7. Cardinality(Finished) + 1 <= Cardinality(Finished')
    BY <2>3, <2>5, <2>6, FS_Subset
  <2>8. job.runs <= Cardinality(Finished) + Cardinality(todo) + InHand
                      + (f - faults)
    BY <1>7 DEF Owed, Working
  <2>9. Cardinality(todo) \in Nat /\ job.runs \in Nat
    BY <1>7, FS_CardinalityType, CampaignAssumption
       DEF Inv, TypeOK, CountInv, Filling
  <2>10. job.runs <= Cardinality(Finished') + Cardinality(todo') + InHand'
                       + (f - faults')
    BY <1>1, <1>2, <2>2, <2>4, <2>6, <2>7, <2>8, <2>9
  <2> QED BY <1>1, <1>2, <1>7, <2>1, <2>10 DEF Owed
<1>8. CASE job.mode \in Replays
  <2>1. job.mode \in Resumes /\ job.mode # "kubetest"
    BY <1>8 DEF Resumes, Replays
  <2>2. ASSUME NEW k \in Places, ~Found(k)', ~Coming(k)'
        PROVE  ~Found(k) /\ ~Coming(k)
    <3>1. ~Found(k)
      BY <1>1, <1>3, <2>1, <2>2, FoundKept
    <3>2. Task(k, Line(k)) \notin todo
      BY <1>1, <2>2, JobKept DEF Coming
    <3>3. ASSUME Line(k) \in command
          PROVE  FALSE
      <4>1. Seed(cur) = Line(k).key_gen_seed
        BY <1>8, <3>3 DEF PassInv, Working
      <4>2. Line(k).key_gen_seed = Sources[k].config.key_gen_seed
        BY <1>8, LineKeeps, SeedIsKept
      <4>3. Found(k)'
        BY <1>1, <1>6, <4>1, <4>2 DEF Found, Sources
      <4> QED BY <2>2, <4>3
    <3> QED BY <3>1, <3>2, <3>3 DEF Coming
  <2>3. Lost' \in SUBSET Lost
    BY <1>1, <2>2, JobKept DEF Lost
  <2>4. /\ Cardinality(Lost') \in Nat /\ Cardinality(Lost) \in Nat
        /\ Cardinality(Lost') <= Cardinality(Lost)
    BY <1>8, <2>3, LostFinite, FS_Subset, FS_CardinalityType
  <2>5. Cardinality(Lost) <= f - faults
    BY <1>8 DEF Owed, Working
  <2>6. Cardinality(Lost') <= f - faults'
    BY <1>2, <2>4, <2>5
  <2> QED BY <1>1, <1>2, <1>8, <2>1, <2>6 DEF Owed
<1>9. CASE job.mode \notin Resumes
  BY <1>1, <1>2, <1>9, OwedBetween
<1> QED BY <1>7, <1>8, <1>9 DEF Resumes

\* A test that ends badly has cost a fault, and is one.
LEMMA OwedFaulty ==
  ASSUME Inv, PassInv, Next, NEW f \in Nat, Owed(f), pc \in Working,
         pc' = "exit", faults' = faults - 1,
         UNCHANGED <<job, todo, command>>
  PROVE  Owed(f)'
<1>1. faults \in Nat /\ faults <= f
  BY DEF Owed, Inv, TypeOK
<1>2. CASE job.mode = "kubetest"
  <2>1. job.mode \in Resumes /\ job.mode \notin Replays
    BY <1>2 DEF Resumes, Replays
  <2>2. InHand = 1 /\ InHand' = 0
    BY DEF InHand, Working
  <2>3. job.runs <= Cardinality(Finished) + Cardinality(todo) + InHand
                      + (f - faults)
    BY <1>2 DEF Owed
  <2>4. Cardinality(todo) \in Nat /\ job.runs \in Nat
    BY <1>2, FS_CardinalityType, CampaignAssumption
       DEF Inv, TypeOK, CountInv, Working, Filling
  <2>5. job.runs <= Cardinality(Finished') + Cardinality(todo') + InHand'
                      + (f - faults')
    BY <1>1, <2>1, <2>2, <2>3, <2>4, NoFewer
  <2> QED BY <1>1, <1>2, <2>1, <2>5 DEF Owed
<1>3. CASE job.mode \in Replays
  <2>1. job.mode \in Resumes /\ job.mode # "kubetest"
    BY <1>3 DEF Resumes, Replays
  <2>2. \E k : Lost' \subseteq Lost \cup {k}
    <3>1. ASSUME NEW k \in Places, ~Found(k)', ~Coming(k)'
          PROVE  k \in Lost \/ Line(k) \in command
      <4>1. ~Found(k)
        BY <2>1, <3>1, FoundKept
      <4> QED BY <3>1, <4>1, JobKept DEF Coming, Lost
    <3>2. ASSUME NEW j \in Places, NEW k \in Places, Line(j) \in command,
                 Line(k) \in command
          PROVE  j = k
      <4>1. Line(j) = Line(k)
        BY <3>2 DEF PassInv
      <4> QED BY <1>3, <4>1, SeedsDiffer DEF Inv, TypeOK
    <3>3. \A k \in Lost' : k \in Places /\ (k \in Lost \/ Line(k) \in command)
      BY <3>1, JobKept DEF Lost
    <3>4. CASE \E j \in Places : Line(j) \in command
      <4>1. PICK j \in Places : Line(j) \in command
        BY <3>4
      <4> QED BY <3>2, <3>3, <4>1
    <3>5. CASE ~\E j \in Places : Line(j) \in command
      BY <3>3, <3>5
    <3> QED BY <3>4, <3>5
  <2>3. PICK k : Lost' \subseteq Lost \cup {k}
    BY <2>2
  <2>4. IsFiniteSet(Lost) /\ Cardinality(Lost) \in Nat
    BY <1>3, LostFinite
  <2>5. /\ IsFiniteSet(Lost \cup {k}) /\ Cardinality(Lost \cup {k}) \in Nat
        /\ Cardinality(Lost \cup {k}) <= Cardinality(Lost) + 1
    <3>1. IsFiniteSet(Lost \cup {k})
      BY <2>4, FS_AddElement
    <3>2. Cardinality(Lost \cup {k}) \in Nat
      BY <3>1, FS_CardinalityType
    <3>3. \/ Cardinality(Lost \cup {k}) = Cardinality(Lost)
          \/ Cardinality(Lost \cup {k}) = Cardinality(Lost) + 1
      BY <2>4, FS_AddElement
    <3> QED BY <2>4, <3>1, <3>2, <3>3
  <2>6. /\ Cardinality(Lost') \in Nat
        /\ Cardinality(Lost') <= Cardinality(Lost \cup {k})
    BY <2>3, <2>5, FS_Subset, FS_CardinalityType
  <2>7. Cardinality(Lost) <= f - faults
    BY <1>3 DEF Owed
  <2>8. Cardinality(Lost') <= f - faults'
    BY <1>1, <2>4, <2>5, <2>6, <2>7
  <2> QED BY <1>1, <1>3, <2>1, <2>8 DEF Owed
<1>4. CASE job.mode \notin Resumes
  BY <1>1, <1>4, OwedBetween
<1> QED BY <1>2, <1>3, <1>4 DEF Resumes

\* Every step leaves no more open than there have been faults.
LEMMA OwedSteps ==
  ASSUME Inv, PassInv, NEW f \in Nat, Owed(f), [Next]_vars
  PROVE  Owed(f)'
<1>0. faults \in Nat /\ faults <= f
  BY DEF Owed, Inv, TypeOK
<1>1. CASE Start
  BY <1>0, <1>1, OwedBetween DEF Start, Working
<1>2. CASE Scan
  <2>1. CASE ScanEnds
    BY <2>1, OwedScanned
  <2>2. CASE \/ \E u \in listing : ScanCounts(u) \/ ScanSkips(u) \/ ScanRemoves(u)
             \/ RemoveFile \/ RemoveDir \/ ScanStray
    <3>1. faults' = faults /\ pc' \in {"scan", "remove", "off"}
      BY <2>2 DEF ScanCounts, ScanSkips, ScanRemoves, RemoveFile, RemoveDir,
                  ScanStray, scanned
    <3> QED BY <1>0, <3>1, OwedBetween DEF Working
  <2> QED BY <1>2, <2>1, <2>2 DEF Scan
<1>3. CASE BeginTest
  BY <1>3, OwedBegun
<1>4. CASE \/ MakeDir \/ ParseArgs \/ WriteConfigFull \/ Setup
           \/ OpenResps \/ WriteResps \/ WriteOps
  <2>1. /\ UNCHANGED <<job, todo, command, faults>>
        /\ pc \in Working /\ pc' \in Working \cup {"failed"}
    BY <1>4 DEF MakeDir, ParseArgs, WriteConfigFull, Setup, OpenResps,
                WriteResps, WriteOps, untested, Working
  <2>2. Next
    BY <1>4 DEF Next, Test
  <2>3. CASE pc' \in Working
    BY <2>1, <2>2, <2>3, OwedKept
  <2>4. CASE pc' = "failed"
    BY <1>0, <2>1, <2>4, OwedBetween DEF Working
  <2> QED BY <2>1, <2>3, <2>4
<1>5. CASE HandleTestEnd
  <2>1. /\ pc = "logs" /\ pc' = "exit" /\ UNCHANGED <<job, todo, command>>
        /\ \/ disk' = Put({}, {"node"}) /\ faults' = faults
           \/ faults' = faults - 1
    BY <1>5 DEF HandleTestEnd, untested
  <2>2. Next
    BY <1>5 DEF Next, Test
  <2> QED BY <1>5, <2>1, <2>2, OwedCompleted, OwedFaulty DEF Working
<1>6. CASE TestDies
  <2>1. /\ pc \in Working /\ pc' = "exit" /\ UNCHANGED <<job, todo, command>>
        /\ faults' = faults - 1
    BY <1>6 DEF TestDies, untested, Working
  <2>2. Next
    BY <1>6 DEF Next
  <2> QED BY <2>1, <2>2, OwedFaulty
<1>7. CASE DriverExits \/ Done
  <2>1. /\ UNCHANGED <<job, todo, faults>>
        /\ \/ pc = "exit" /\ pc' = "next" /\ command' = {}
           \/ pc = "next" /\ pc' = "done" /\ command' = command
    BY <1>7 DEF DriverExits, Done, testOver, testVars
  <2>2. Next
    BY <1>7 DEF Next, Test
  <2> QED BY <2>1, <2>2, OwedKept
<1>8. CASE DriverFails
  <2>1. /\ UNCHANGED <<job, faults>>
        /\ pc' = "off" \/ job.mode \notin Resumes
    BY <1>8 DEF DriverFails, Resumes, Replays
  <2> QED BY <1>0, <2>1, OwedBetween DEF Working
<1>9. CASE SetupFails \/ Crash
  <2>1. faults' = faults - 1 /\ pc' \in {"failed", "off"}
    BY <1>9 DEF SetupFails, Crash
  <2> QED BY <1>0, <2>1, OwedBetween DEF Working
<1>10. CASE UNCHANGED vars
  BY <1>10 DEF vars, Owed, Finished, CountedDirs, Counted, Complete, Has, InHand,
               Lost, Found, Coming, Places, Sources, Line, Seed, Saved
<1> QED BY <1>1, <1>2, <1>3, <1>4, <1>5, <1>6, <1>7, <1>8, <1>9, <1>10
        DEF Next, Test

LEMMA PassInvariant == Spec => []PassInv
<1>1. Init => PassInv
  BY DEF Init, PassInv, Working
<1>2. Inv /\ PassInv /\ [Next]_vars => PassInv'
  BY PassSteps
<1> QED BY Invariant, <1>1, <1>2, PTL DEF Spec

(* What kubetester.py has completed no later scan or test takes away: a    *)
(* directory that counts, and that neither the running test nor a removal  *)
(* is at work on, goes on counting.  A removal that was interrupted may    *)
(* leave one that counts, and then that stays.                             *)
THEOREM NothingIsThrownAway ==
  Spec => [][job.mode \in Resumes => Finished \subseteq Finished']_vars
<1>1. Inv /\ [Next]_vars
        => [job.mode \in Resumes => Finished \subseteq Finished']_vars
  BY FinishedKept
<1> QED BY Invariant, <1>1, PTL DEF Spec

\* The tests that the folder lacks.
Missing ==
  IF job.mode = "kubetest"
  THEN job.runs - Cardinality(CountedDirs)
  ELSE Cardinality({k \in 1..Len(Sources) : \A u \in CountedDirs :
                      Saved(u).key_gen_seed # Sources[k].config.key_gen_seed})

(* The part of Converges that is not liveness: from whatever an earlier    *)
(* start has left, each fault costs one test at most.  A script that scans *)
(* its folder when f faults are still to come, and gets to its end, has    *)
(* left no more tests undone than there were faults since; without a       *)
(* fault, none.                                                            *)
THEOREM FaultsCostOneTest ==
  ASSUME NEW f \in 0..MaxFaults
  PROVE  Spec => [](pc = "scan" /\ faults = f
                    => [](job.mode \in Resumes /\ pc = "done"
                          => Missing <= f - faults))
<1> DEFINE Begun == pc = "scan" /\ faults = f
           Short == job.mode \in Resumes /\ pc = "done" => Missing <= f - faults
           Open == Owed(f)
<1>0. f \in Nat
  BY CampaignAssumption
<1>1. Inv /\ Begun => Open
  BY <1>0 DEF Owed, Working
<1>2. Inv /\ PassInv /\ Open /\ [Next]_vars => Open'
  BY <1>0, OwedSteps
<1>3. Inv /\ PassInv /\ Open => Short
  <2> SUFFICES ASSUME Inv, PassInv, Open, job.mode \in Resumes, pc = "done"
               PROVE  Missing <= f - faults
    OBVIOUS
  <2>1. Finished = CountedDirs /\ InHand = 0 /\ todo = {}
    BY DEF Finished, Busy, Filling, InHand, Working, PassInv
  <2>2. CASE job.mode = "kubetest"
    <3>1. job.runs <= Cardinality(Finished) + Cardinality(todo) + InHand
                        + (f - faults)
      BY <2>2 DEF Owed
    <3>2. Cardinality(todo) = 0 /\ Cardinality(CountedDirs) \in Nat
      BY <2>1, FS_EmptySet, FinishedFinite DEF Inv
    <3>3. job.runs \in Nat /\ faults \in Nat
      BY CampaignAssumption DEF Inv, TypeOK
    <3> QED BY <1>0, <2>1, <2>2, <3>1, <3>2, <3>3 DEF Missing
  <2>3. CASE job.mode \in Replays
    <3>1. Places = 1..Len(Sources) /\ job.mode # "kubetest"
      BY <2>3 DEF Places, Replays
    <3>2. Lost = {k \in 1..Len(Sources) : \A u \in CountedDirs :
                    Saved(u).key_gen_seed # Sources[k].config.key_gen_seed}
      BY <2>1, <3>1 DEF Lost, Found, Coming, Seed, Working
    <3> QED BY <2>3, <3>1, <3>2 DEF Owed, Missing
  <2> QED BY <2>2, <2>3 DEF Resumes
<1> HIDE DEF Begun, Short, Open
<1>4. Spec => [](Begun => []Short)
  BY Invariant, PassInvariant, <1>1, <1>2, <1>3, PTL DEF Spec
<1> QED BY <1>4 DEF Begun, Short

=============================================================================
