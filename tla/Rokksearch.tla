----------------------------- MODULE Rokksearch -----------------------------
(***************************************************************************)
(* rokksearch: one command after another over the same files, each a       *)
(* process that may be killed, on a machine whose devices come and go.     *)
(* Between them rokktui saves sessions to those files.  A search is one    *)
(* job of a SearchService; --demo writes a pattern file with a promise,    *)
(* and --benchmark-long runs a Benchmark.                                  *)
(*                                                                         *)
(* A flag of a command is <<>> when it is not given, and <<value>> when it *)
(* is.  A pattern of the service is a record of all that is hashed.        *)
(***************************************************************************)
EXTENDS SearchService, PatternFile, BackendChoice, Benchmark

CONSTANTS
  Commands,      \* the command lines typed
  Names,         \* pattern files
  Saved,         \* what rokktui saves: PatternFiles whose models build_request accepts
  Hosts,         \* the devices a machine may have
  World,         \* World[<<edition, seed, y>>][<<x, z>>]: 1 for bedrock
  Rare,          \* Rare[<<edition, y>>]: the rarer block
  TileIn(_,_,_), \* the tile of a region with a position
  Border,        \* Region::kWorldBorder
  BedrockReach,  \* how far Bedrock Edition searches may go
  Margin,        \* demo::kMargin
  Radii,         \* bound: the radii --demo may measure, from its least one on
  Seeds,         \* bound: the seeds it may draw
  Sizes,         \* bound: the sizes its pattern may grow to
  Budget         \* bound: commands and sessions saved

Plan == INSTANCE SearchPlan

VARIABLES
  at,        \* where main() is; "gone": no process
  cmd,       \* its command line
  told,      \* its exit code and the matches on stdout
  files,     \* what the pattern files hold
  wrote,     \* history: the PatternFile last saved there
  expected,  \* history: the match --demo announced for it
  due,       \* history: the progress there was for this search when it began
  budget

process == <<at, cmd, told, due>>
written == <<files, wrote, expected>>
service == <<backend, jobs, disk>>
vars == <<process, written, service, bench, budget>>

Silence == [code |-> 0, matches |-> {}, early |-> FALSE]
Nowhere == [x |-> 0, z |-> 0, mask |-> {}]

NoFlags == [pattern |-> <<>>, edition |-> <<>>, seed |-> <<>>, y |-> <<>>, size |-> <<>>,
            center |-> <<>>, radius |-> <<>>, region |-> <<>>, all |-> <<>>, checkpoint |-> <<>>,
            backend |-> "", first |-> FALSE, demo |-> FALSE, benchmark |-> FALSE]

\* the command lines main() understands
Given(S) == {flag \in Seq(S) : Len(flag) <= 1}
CommandLines ==
  [pattern : Given(Names), edition : Given({"java", "bedrock"}), seed : Given(Texts), y : Given(Int),
   size : Given(Int \X Int), center : Given(Int \X Int), radius : Given(Int),
   region : Given([x0 : Int, x1 : Int, z0 : Int, z1 : Int]), all : Given(BOOLEAN),
   checkpoint : Given(Texts), backend : STRING, first : BOOLEAN, demo : BOOLEAN, benchmark : BOOLEAN]

Init == /\ at = "gone" /\ cmd = NoFlags /\ told = Silence /\ due = 0 /\ budget = Budget
        /\ files = [n \in Names |-> <<>>] /\ wrote = [n \in Names |-> DefaultFile]
        /\ expected = [n \in Names |-> Nowhere]
        /\ backend = "cpu" /\ jobs = <<>> /\ disk = [p \in Paths |-> Absent]
        /\ bench = Idle

-----------------------------------------------------------------------------
(* What a command asks for                                                 *)

Flag(flag, default) == IF flag = <<>> THEN default ELSE flag[1]

\* Region::centered, or Region::world for a radius of -1
Square(x, z, r) ==
  IF r = -1 THEN [x0 |-> -Border, x1 |-> Border - 1, z0 |-> -Border, z1 |-> Border - 1]
  ELSE [x0 |-> x - r, x1 |-> x + r, z0 |-> z - r, z1 |-> z + r]

\* --radius counts only with --center
SearchRegion(c, pf) ==
  IF c.region # <<>> THEN c.region[1]
  ELSE IF c.center # <<>> THEN Square(c.center[1][1], c.center[1][2], Flag(c.radius, 5000))
  ELSE Square(Number[pf.center_x], Number[pf.center_z], Number[pf.radius])

\* no file is like one with the defaults, and --size a grid that knows nothing
Grid(c, pf) ==
  IF c.pattern # <<>> \/ c.size = <<>> THEN pf.grid
  ELSE [j \in 1 .. c.size[1][2] |-> [i \in 1 .. c.size[1][1] |-> "."]]

\* the hashed fields of the SearchRequest, from the flags over those of the file
Asked(c, pf) ==
  [edition |-> Flag(c.edition, pf.edition), seed |-> Number[Flag(c.seed, pf.seed)],
   y |-> Flag(c.y, pf.y), all |-> Flag(c.all, pf.all_orientations),
   region |-> SearchRegion(c, pf), grid |-> Grid(c, pf)]

\* an empty --checkpoint is none
Path(c, pf) ==
  LET named == IF c.checkpoint \in {<<>>, <<"">>} THEN pf.checkpoint ELSE c.checkpoint[1]
  IN IF named = "" THEN AutosavePath ELSE named

First(c, pf) == c.first \/ pf.stop_first

Searches(c) == ~c.demo /\ ~c.benchmark

Loaded(c) == IF c.pattern = <<>> THEN DefaultFile ELSE Load(files[c.pattern[1]])

\* Pattern::knowns
Knowns(grid) ==
  LET known(j, i) == [i |-> i - 1, j |-> j - 1, want |-> IF grid[j][i] = "#" THEN 1 ELSE 0]
      row(j) == FlattenSeq([i \in DOMAIN grid[j] |-> IF grid[j][i] = "." THEN <<>> ELSE <<known(j, i)>>])
  IN FlattenSeq([j \in DOMAIN grid |-> row(j)])

\* what run() answers with an error before it does anything
Refused(p) ==
  LET r == p.region IN
  \/ r.x1 < r.x0 \/ r.z1 < r.z0
  \/ p.y \notin -64 .. -59
  \/ Knowns(p.grid) = <<>>
  \/ p.edition = "bedrock" /\ Max({-r.x0, r.x1, -r.z0, r.z1}) > BedrockReach

AnchorOf(p) == Plan!Anchor(Knowns(p.grid), Rare[<<p.edition, p.y>>])

\* the true matches of a search: what workers find and jobs report
MatchesOf(p) ==
  LET all == {[x |-> x, z |-> z, mask |-> Plan!TrueMask(knowns, anchor, p.all, block, x, z)] :
                x \in p.region.x0 .. p.region.x1, z \in p.region.z0 .. p.region.z1,
                knowns \in {Knowns(p.grid)}, anchor \in {AnchorOf(p)},
                block \in {World[<<p.edition, p.seed, p.y>>]}}
  IN {match \in all : match.mask # {}}

TrueMatches == [p \in Patterns |-> IF Refused(p) THEN {} ELSE MatchesOf(p)]

\* the matches of a job that has searched these tiles; one that was refused has none
Reported(p, tiles) ==
  IF Refused(p) THEN {}
  ELSE {match \in TrueMatches[p] : TileIn(p.region, match.x, match.z) \in tiles}

ASSUME RokksearchAssumption ==
  /\ AutosavePath # "" /\ Border \in Nat /\ Margin \in Nat /\ {"cpu", "gpu"} \subseteq Backends
  /\ \A p \in Patterns :
       Hits[p] = {TileIn(p.region, match.x, match.z) : match \in TrueMatches[p]}

-----------------------------------------------------------------------------
(* The process                                                             *)

Launched(c) == at = "gone" /\ budget > 0 /\ budget' = budget - 1 /\ cmd' = c

Exit(code) == at' = "told" /\ told' = [Silence EXCEPT !.code = code]

\* the size of a device's tiles, all that a checkpoint knows of it
GridOf(device) == IF device.id = "cpu" THEN "cpu" ELSE "gpu"

\* main() up to make_client(); 0: nothing is wrong with the command line
LaunchCode(c, device) ==
  CASE c.pattern # <<>> /\ files[c.pattern[1]] = <<>> -> 1
    [] c.pattern = <<>> /\ c.size # <<>> /\ (\E n \in Range(c.size[1]) : n \notin 1 .. MaxDim) -> 2
    [] c.pattern = <<>> /\ c.region = <<>> /\ c.center = <<>> -> 2
    [] device = NoDevice -> 1
    [] OTHER -> 0

\* what the progress files held for this search, as the user meant it
Owed(c, grid) ==
  LET pf == IF c.pattern = <<>> THEN DefaultFile ELSE wrote[c.pattern[1]]
      file == disk[Path(c, pf)]
  IN IF file.kind = "whole" /\ file.of = <<Asked(c, pf), grid>> THEN file.done ELSE 0

Search(c) ==
  /\ Searches(c) /\ Launched(c)
  /\ \E host \in Hosts :
       LET device == ResolveBackend(c.backend, host)
           code == LaunchCode(c, device)
           pf == Loaded(c)
       IN IF code # 0
          THEN Exit(code) /\ UNCHANGED <<due, service>>
          ELSE /\ backend' = GridOf(device)
               /\ Submitted([pattern |-> Asked(c, pf), path |-> Path(c, pf),
                             first |-> First(c, pf), from |-> Absent])
               /\ due' = Owed(c, GridOf(device))
               /\ at' = "poll" /\ UNCHANGED <<told, disk>>
  /\ UNCHANGED <<written, bench>>

\* the thread of the job, which first looks at the request
JobStep ==
  /\ JobThread(1)
  /\ Refused(jobs[1].req.pattern) => jobs'[1].state = "error"
  /\ UNCHANGED <<process, written, bench, budget>>

\* mutant: an error ends the loop like the other ends
OverAlways(state) == state \in Final

Over(state) == state \in {"done", "cancelled"}

\* mutant: an error is not looked for
FailedNever(state) == FALSE

Failed(state) == state = "error"

\* the polling loop; a poll that shows a live job changes nothing
PollJob ==
  /\ at = "poll"
  /\ \/ Failed(Poll(1).state) /\ Exit(1)
     \/ Over(Poll(1).state) /\ at' = "results" /\ UNCHANGED told
  /\ UNCHANGED <<cmd, due, written, service, bench, budget>>

\* the last poll(), results(), and the lines on stdout
PrintResults ==
  /\ at = "results" /\ at' = "told"
  /\ told' = [code |-> 0, early |-> Poll(1).early,
              matches |-> Reported(jobs[1].req.pattern, Results(1))]
  /\ UNCHANGED <<cmd, due, written, service, bench, budget>>

\* the process has ended; its job had before
Gone == /\ at' = "gone" /\ jobs' = <<>> /\ bench' = Idle
        /\ cmd' = NoFlags /\ told' = Silence /\ due' = 0
        /\ UNCHANGED <<written, backend, disk, budget>>

End == at = "told" /\ Gone

\* Ctrl+C
Kill == at \in {"poll", "results"} /\ Gone

-----------------------------------------------------------------------------
(* --demo                                                                  *)

\* mutant: the spot may be anywhere in the region
SpotsAnywhere(lo, hi) == {lo, hi}

\* bound: of the spots between, those at the ends
Spots(lo, hi) == {lo + Margin, hi - Margin}

\* copy_world: s x s blocks from the corner (fx, fz)
CopyWorld(edition, seed, y, fx, fz, s) ==
  [j \in 1 .. s |-> [i \in 1 .. s |->
     IF World[<<edition, seed, y>>][<<fx + i - 1, fz + j - 1>>] = 1 THEN "#" ELSE "o"]]

\* the file for the spot (px, pz) of a region of radius r, with a pattern of size s
DemoFile(c, seed, r, px, pz, s) ==
  LET edition == Flag(c.edition, "java")
      y == Flag(c.y, -60)
  IN [edition |-> edition, seed |-> ToText(seed), y |-> y, center_x |-> "0", center_z |-> "0",
      radius |-> ToText(IF 2 * r + 1 >= 2 * Border THEN -1 ELSE r),
      all_orientations |-> Flag(c.all, TRUE), checkpoint |-> "", stop_first |-> FALSE,
      grid |-> CopyWorld(edition, seed, y, px - s \div 2, pz - s \div 2, s)]

\* "expect match": where a search of the file reports the spot
Announced(pf, px, pz) ==
  LET anchor == AnchorOf(Asked(NoFlags, pf))
      s == Len(pf.grid)
  IN [x |-> px - s \div 2 + anchor.i, z |-> pz - s \div 2 + anchor.j, mask |-> {1}]

DemoSeeds(c) == IF c.seed # <<>> THEN {Number[c.seed[1]]} ELSE Seeds

DemoRegion(r) == Square(0, 0, IF 2 * r + 1 >= 2 * Border THEN -1 ELSE r)

\* the layers that are not all bedrock or all air
DemoLayers(c) == (IF Flag(c.edition, "java") = "bedrock" THEN -62 ELSE -63) .. -60

\* the files it may write; a square has the same spots along both axes
DemoFiles(c) ==
  UNION {{DemoFile(c, seed, r, px, pz, s) : seed \in DemoSeeds(c), s \in Sizes,
            px \in Spots(DemoRegion(r).x0, DemoRegion(r).x1),
            pz \in Spots(DemoRegion(r).x0, DemoRegion(r).x1)} : r \in Radii}

\* what a pattern file may hold
Written ==
  Saved \cup UNION {DemoFiles(c) : c \in {d \in Commands : d.demo /\ Flag(d.y, -60) \in DemoLayers(d)}}

\* A search is among the Patterns of the service, its progress among the Paths,
\* and every number written to a file has a text.
ASSUME RequestAssumption ==
  /\ Commands \subseteq CommandLines /\ Saved \subseteq PatternFiles
  /\ Sizes \subseteq 1 .. MaxDim /\ Radii \subseteq Nat /\ Seeds \subseteq Int
  /\ \A n \in Sizes \cup Radii \cup Seeds \cup {-1} : HasText(n)
  /\ \A c \in Commands :
       IF Searches(c)
       THEN \A pf \in IF c.pattern = <<>> THEN {DefaultFile} ELSE Written :
              Asked(c, pf) \in Patterns /\ Path(c, pf) \in Paths
       ELSE /\ \A y \in Range(c.y) \cup {-60} : y \in DemoLayers(c) => HasText(y)
            /\ \A seed \in Range(c.seed) : HasText(Number[seed])

\* The world is known in every region that is searched, and a demo's pattern fits
\* the margin, which is less than its radius (rokksearch.cpp:477, 530, 546).
ASSUME DemoAssumption ==
  /\ Margin < Border /\ (\A r \in Radii : r >= Margin) /\ (\A s \in Sizes : s <= 2 * Margin)
  /\ \A p \in Patterns : ~Refused(p) =>
       \A x \in p.region.x0 .. p.region.x1, z \in p.region.z0 .. p.region.z1 :
         World[<<p.edition, p.seed, p.y>>][<<x, z>>] \in {0, 1}

Demo(c, n) ==
  /\ c.demo /\ Launched(c)
  /\ IF Flag(c.y, -60) \notin DemoLayers(c)
     THEN Exit(2) /\ UNCHANGED written
     ELSE \/ (\E host \in Hosts : ResolveBackend(c.backend, host) = NoDevice)
             /\ Exit(1) /\ UNCHANGED written
          \/ /\ \E host \in Hosts : ResolveBackend(c.backend, host) # NoDevice
             /\ \E seed \in DemoSeeds(c), r \in Radii, s \in Sizes :
                \E px \in Spots(DemoRegion(r).x0, DemoRegion(r).x1),
                   pz \in Spots(DemoRegion(r).z0, DemoRegion(r).z1) :
                  LET pf == DemoFile(c, seed, r, px, pz, s) IN
                  /\ files' = [files EXCEPT ![n] = Save(pf)]
                  /\ wrote' = [wrote EXCEPT ![n] = pf]
                  /\ expected' = [expected EXCEPT ![n] = Announced(pf, px, pz)]
             /\ Exit(0)
  /\ UNCHANGED <<due, service, bench>>

-----------------------------------------------------------------------------
(* --benchmark-long, and rokktui                                           *)

\* It touches no file, so it is enough to look at it once (bound: as the first command).
StartBenchmark(c) ==
  /\ c.benchmark /\ budget = Budget /\ Launched(c)
  /\ \E host \in Hosts :
       IF ResolveBackend(c.backend, host) = NoDevice
       THEN Exit(1) /\ UNCHANGED bench
       ELSE at' = "bench" /\ (\E healthy \in BOOLEAN : bench' = NewBench(healthy)) /\ UNCHANGED told
  /\ UNCHANGED <<due, written, service>>

Sweep == at = "bench" /\ Sweeping /\ UNCHANGED <<process, written, service, budget>>

EndBenchmark ==
  /\ at = "bench" /\ bench.over /\ Exit(ExitCode)
  /\ UNCHANGED <<cmd, due, written, service, bench, budget>>

\* a session saved by rokktui with the progress its search had made, or a plain pattern
SaveSession(n) ==
  /\ at = "gone" /\ budget > 0 /\ budget' = budget - 1
  /\ \E pf \in Saved, done \in 1 .. Tiles, b \in Backends :
       /\ files' = [files EXCEPT ![n] = Save(pf)]
       /\ wrote' = [wrote EXCEPT ![n] = pf]
       /\ disk' = IF pf.checkpoint = "" THEN disk
                  ELSE [disk EXCEPT ![pf.checkpoint] =
                          [kind |-> "whole", of |-> <<Asked(NoFlags, pf), b>>, done |-> done]]
  /\ expected' = [expected EXCEPT ![n] = Nowhere]
  /\ UNCHANGED <<process, backend, jobs, bench>>

MainLoop == PollJob \/ PrintResults

Next == \/ \E c \in Commands : Search(c) \/ StartBenchmark(c) \/ (\E n \in Names : Demo(c, n))
        \/ JobStep \/ MainLoop \/ Sweep \/ EndBenchmark \/ End \/ Kill
        \/ \E n \in Names : SaveSession(n)

Spec == Init /\ [][Next]_vars

\* the operating system runs both threads, and the loop polls every 100 ms
FairSpec == Spec /\ WF_vars(MainLoop) /\ WF_vars(JobStep)

-----------------------------------------------------------------------------
(* Properties                                                              *)

Intended(c) == IF c.pattern = <<>> THEN DefaultFile ELSE wrote[c.pattern[1]]

\* Exit code 0 means that stdout has every match of what the flags and the saved
\* pattern ask for and no other, whatever searches and kills came before over the
\* same files; or, if the search was to stop at the first match, all those of the
\* nearest tile that has any (rokksearch.cpp:15-16, README.md:205-210).
PrintedIsTruth ==
  (at = "told" /\ Searches(cmd) /\ told.code = 0) =>
    LET p == Asked(cmd, Intended(cmd)) IN
    /\ ~Refused(p) /\ told.matches \subseteq TrueMatches[p]
    /\ ~told.early => told.matches = TrueMatches[p]
    /\ told.early => /\ First(cmd, Intended(cmd)) /\ told.matches # {}
                     /\ Reported(p, {Min(Hits[p])}) \subseteq told.matches

\* A session of rokktui, or a search that was killed, goes on where its progress
\* file was, if it is the same search on tiles of the same size
\* (README.md:195-210, rokksearch.cpp:694-695).
SessionGoesOn ==
  (at = "poll" /\ jobs[1].state \notin {"pending", "error"}) => jobs[1].done >= due

\* A pattern file asks for the search, the progress file and the end that were
\* saved in it (pattern_io.hpp:1-19).
FileRoundTrip ==
  \A n \in Names : (at = "gone" /\ files[n] # <<>>) =>
    LET pf == Load(files[n]) IN
    /\ Asked(NoFlags, pf) = Asked(NoFlags, wrote[n])
    /\ Path(NoFlags, pf) = Path(NoFlags, wrote[n]) /\ pf.stop_first = wrote[n].stop_first

\* A search of a demo's file reports the announced match, unmirrored and unturned
\* among others: the spot and the anchor of its pattern lie inside the region that
\* the file describes (rokksearch.cpp:479-483, tests/demo_test.py:1-6).
DemoFindable ==
  (/\ at = "told" /\ told.code = 0 /\ ~told.early /\ Searches(cmd) /\ cmd.pattern # <<>>
   /\ expected[cmd.pattern[1]] # Nowhere
   /\ Asked(cmd, wrote[cmd.pattern[1]]) = Asked(NoFlags, wrote[cmd.pattern[1]])) =>
     LET spot == expected[cmd.pattern[1]] IN
     \E match \in told.matches :
       match.x = spot.x /\ match.z = spot.z /\ spot.mask \subseteq match.mask

\* The loop ends with the job, however that ends (rokksearch.cpp:733-757).
Ends == at \in {"poll", "results"} ~> at \in {"told", "gone"}
=============================================================================
