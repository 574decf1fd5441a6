----------------------------- MODULE Checkpoint -----------------------------
(***************************************************************************)
(* The checkpoint format: what write_checkpoint puts into a file, what is  *)
(* there when the write is cut off, and what read_checkpoint makes of it.  *)
(* Jobs of several requests, one after the other, share the file.          *)
(***************************************************************************)
EXTENDS Integers, FiniteSets, Sequences

CONSTANTS
  Requests,     \* the requests that use the file
  TileCount,    \* the number of tiles in the grid of a request
  Fingerprint,  \* its fingerprint
  Batches,      \* what a job may get done at once: tiles and their matches
  Places,       \* origins of matches
  Masks,        \* orientation masks
  Nothing

Match == [at : Places, mask : Masks]

\* the hash tells the requests apart
ASSUME RequestAssumption ==
  /\ TileCount \in [Requests -> Nat]
  /\ Fingerprint \in [Requests -> Nat]
  /\ \A q, r \in Requests : Fingerprint[q] = Fingerprint[r] => q = r

ASSUME BatchAssumption ==
  /\ Batches \subseteq [tiles : SUBSET Int, matches : Seq(Match)]
  /\ Masks \subseteq Nat

\* Nothing is no progress of a job.
ASSUME NothingAssumption ==
  Nothing \notin [request : Requests, done : SUBSET Nat, matches : Seq(Match)]

VARIABLES
  job,      \* the running job: request, done tiles, matches; or Nothing
  file,     \* complete lines, and at most one line without its newline
  pending,  \* lines a save has yet to write
  whole     \* history: the progress of the last save, once it is complete

vars == <<job, file, pending, whole>>

Fresh(q) == [request |-> q, done |-> {}, matches |-> <<>>]

-----------------------------------------------------------------------------
(* Writing                                                                 *)

Header(version, print) == [kw |-> "rokkdoxx-checkpoint", version |-> version, print |-> print]
DoneLine(runs)         == [kw |-> "done", runs |-> runs]
CountLine(n)           == [kw |-> "matches", count |-> n]
MatchLine(m)           == [kw |-> "", at |-> m.at, mask |-> m.mask]

\* the numbers of S in increasing order
Ascending(S) ==
  [k \in 1 .. Cardinality(S) |-> CHOOSE a \in S : Cardinality({b \in S : b < a}) = k - 1]

\* the first tile of each run of consecutive tiles, and the last of the run from a
Starts(done) == {a \in done : a - 1 \notin done}
RunEnd(done, a) == CHOOSE b \in done : b >= a /\ b + 1 \notin done /\ a .. b \subseteq done

\* mutant: a run ends at the tile after its last
RunsLong(done) ==
  LET s == Ascending(Starts(done))
  IN [k \in DOMAIN s |-> <<s[k], RunEnd(done, s[k]) + 1>>]

\* the runs of consecutive tiles, in order
Runs(done) ==
  LET s == Ascending(Starts(done))
  IN [k \in DOMAIN s |-> <<s[k], RunEnd(done, s[k])>>]

Text(j) ==
  <<Header(2, Fingerprint[j.request]), DoneLine(Runs(j.done)), CountLine(Len(j.matches))>>
    \o [i \in 1 .. Len(j.matches) |-> MatchLine(j.matches[i])]

-----------------------------------------------------------------------------
(* What is left of a line that was cut off                                 *)

\* what the digits of n that were written read as
Digits(n) == {n \div (10 ^ k) : k \in 0 .. 9} \ ({0} \ {n})

Unreadable == [kw |-> "?"]

\* a run whose dash or last number is cut; atoi("") is 0
TornRun(r) ==
  IF r[1] = r[2] THEN {<<a, a>> : a \in Digits(r[1])}
  ELSE {<<a, a>> : a \in Digits(r[1])} \cup {<<r[1], b>> : b \in {0} \cup Digits(r[2])}

Torn(line) ==
  {Unreadable} \cup
  CASE line.kw = "rokkdoxx-checkpoint" -> {[line EXCEPT !.print = p] : p \in Digits(line.print)}
    [] line.kw = "done" ->
         {DoneLine(<<>>)} \cup
         UNION {{DoneLine(SubSeq(line.runs, 1, k - 1) \o <<r>>) : r \in TornRun(line.runs[k])}
                  : k \in DOMAIN line.runs}
    [] line.kw = "matches" -> {CountLine(n) : n \in Digits(line.count)}
    [] OTHER -> {[line EXCEPT !.mask = n] : n \in Digits(line.mask)}

-----------------------------------------------------------------------------
(* Reading                                                                 *)

\* no file reads like an empty one
Empty == [lines |-> <<>>, tail |-> <<>>]

AllLines(f) == f.lines \o f.tail

\* mutant: the last line counts without its newline
CountsTorn(f, k) == k <= Len(AllLines(f))

\* next_line: line k counts, for its newline was written
Counts(f, k) == k <= Len(f.lines)

\* the header is the request's; >> does not ask for its newline
OwnHeader(f, q) ==
  /\ Len(AllLines(f)) > 0
  /\ AllLines(f)[1] = Header(2, Fingerprint[q])

\* mutant: a list of tiles is taken from any grid
AcceptsAny(f, q) ==
  /\ Len(AllLines(f)) > 0
  /\ Counts(f, 2) /\ AllLines(f)[2].kw = "done"
  /\ Counts(f, 3) /\ AllLines(f)[3].kw = "matches"
  /\ \A i \in 1 .. AllLines(f)[3].count : Counts(f, 3 + i) /\ AllLines(f)[3 + i].kw = ""

\* read_checkpoint returns true
Accepts(f, q) ==
  /\ OwnHeader(f, q)
  /\ Counts(f, 2) /\ AllLines(f)[2].kw = "done"
  /\ Counts(f, 3) /\ AllLines(f)[3].kw = "matches"
  /\ \A i \in 1 .. AllLines(f)[3].count : Counts(f, 3 + i) /\ AllLines(f)[3 + i].kw = ""

\* the tiles of a run that are in the grid
RunTiles(q, r) == (r[1] .. r[2]) \cap (0 .. TileCount[q] - 1)

\* the tiles a done line marks
LineTiles(q, line) == UNION {RunTiles(q, line.runs[k]) : k \in DOMAIN line.runs}

Restored(f, q) ==
  [request |-> q,
   done    |-> LineTiles(q, AllLines(f)[2]),
   matches |-> [i \in 1 .. AllLines(f)[3].count |->
                 [at |-> AllLines(f)[3 + i].at, mask |-> AllLines(f)[3 + i].mask]]]

\* mutant: tiles are marked as their line is read
LoadEarly(f, q) ==
  IF Accepts(f, q) THEN Restored(f, q)
  ELSE IF OwnHeader(f, q) /\ Counts(f, 2) /\ AllLines(f)[2].kw = "done"
  THEN [Fresh(q) EXCEPT !.done = LineTiles(q, AllLines(f)[2])]
  ELSE Fresh(q)

\* what a job of q begins with
Load(f, q) == IF Accepts(f, q) THEN Restored(f, q) ELSE Fresh(q)

-----------------------------------------------------------------------------
(* Jobs that take turns                                                    *)

\* the file of a version that wrote no matches
OldFile(q) == [lines |-> <<Header(1, Fingerprint[q]), DoneLine(<<<<0, TileCount[q] - 1>>>>), CountLine(0)>>,
               tail |-> <<>>]

Init ==
  /\ job = Nothing /\ pending = <<>> /\ whole = Nothing
  /\ file \in {Empty} \cup {OldFile(q) : q \in Requests}

Begin(q) ==
  /\ job = Nothing
  /\ job' = Load(file, q)
  /\ UNCHANGED <<file, pending, whole>>

\* tiles come back with their matches
Work ==
  /\ job # Nothing /\ pending = <<>>
  /\ \E b \in Batches :
       /\ b.tiles \subseteq 0 .. TileCount[job.request] - 1
       /\ b.tiles \cap job.done = {}
       /\ job' = [job EXCEPT !.done = @ \cup b.tiles, !.matches = @ \o b.matches]
  /\ UNCHANGED <<file, pending, whole>>

\* the file is opened and emptied
SaveOpen ==
  /\ job # Nothing /\ pending = <<>>
  /\ file' = Empty
  /\ pending' = Text(job) /\ whole' = Nothing
  /\ UNCHANGED job

\* one more line reaches it
SaveLine ==
  /\ pending # <<>>
  /\ file' = [file EXCEPT !.lines = Append(@, Head(pending))]
  /\ pending' = Tail(pending)
  /\ whole' = IF pending' = <<>> THEN job ELSE Nothing
  /\ UNCHANGED job

\* the rest of the text is lost, in the middle of a line or between two
CutOff ==
  /\ pending # <<>>
  /\ file' \in {file} \cup {[file EXCEPT !.tail = <<l>>] : l \in Torn(Head(pending)) \cup {Head(pending)}}
  /\ pending' = <<>> /\ UNCHANGED whole

\* the disk is full; the job goes on
DiskFull == CutOff /\ UNCHANGED job

\* the process is killed, or the job is over
Kill ==
  /\ job # Nothing /\ job' = Nothing
  /\ \/ CutOff
     \/ pending = <<>> /\ UNCHANGED <<file, pending, whole>>

Next ==
  \/ \E q \in Requests : Begin(q)
  \/ Work \/ SaveOpen \/ SaveLine \/ DiskFull \/ Kill

Spec == Init /\ [][Next]_vars

-----------------------------------------------------------------------------
(* Properties                                                              *)

\* The variables have the types the code gives them.
TypeOK ==
  /\ job # Nothing => /\ job \in [request : Requests, done : SUBSET Nat, matches : Seq(Match)]
                      /\ job.done \subseteq 0 .. TileCount[job.request] - 1
  /\ Len(file.tail) <= 1
  /\ pending # <<>> => job # Nothing /\ file.tail = <<>> /\ whole = Nothing

\* A file whose save was not completed, at whatever character it ends, gives
\* no job anything (search_service.cpp:234-237).
CutRejected == whole = Nothing => \A q \in Requests : Load(file, q) = Fresh(q)

\* A complete one gives the request it was written for exactly the tiles and
\* matches of the save, and any other request nothing (search_service.hpp:107-112).
WholeRestored ==
  whole # Nothing =>
    \A q \in Requests : Load(file, q) = IF q = whole.request THEN whole ELSE Fresh(q)

\* The format implements a store that holds the whole of one job's progress or
\* nothing, which is how SearchJob models a file (search_service.hpp:107-112).
Advances(j, k) ==
  /\ k.request = j.request /\ j.done \subseteq k.done
  /\ \E b \in Batches : k.matches = j.matches \o b.matches

Store == INSTANCE ProgressStore WITH stored <- whole, Further <- Advances
StoreSpec == Store!Spec
=============================================================================
