-------------------------- MODULE CheckpointProofs --------------------------
(***************************************************************************)
(* A checkpoint whose save was cut off gives no job anything, whatever the *)
(* requests, grids and matches, and wherever the cut is.                   *)
(***************************************************************************)
EXTENDS Checkpoint, FiniteSetTheorems, SequenceTheorems, WellFoundedInduction, TLAPS

Numbers == Seq(Int \X Int)

\* a line as write_checkpoint, of this version or the one before, writes it
Line ==
  [kw : {"rokkdoxx-checkpoint"}, version : Nat, print : Nat]
    \cup [kw : {"done"}, runs : {Runs(d) : d \in SUBSET Nat} \cup Numbers]
    \cup [kw : {"matches"}, count : Nat]
    \cup [kw : {""}, at : Places, mask : Masks]

Shards == Line \cup UNION {Torn(l) : l \in Line}

File == [lines : Seq(Line), tail : {<<>>} \cup {<<l>> : l \in Shards}]

\* The file is of another version, or its complete lines are fewer than its
\* matches line asks for.
Short(f) ==
  \/ Len(f.lines) < 3
  \/ f.lines[1].version # 2
  \/ f.lines[3].kw = "matches" /\ Len(f.lines) < 3 + f.lines[3].count

JobOK ==
  job # Nothing => /\ job \in [request : Requests, done : SUBSET Nat, matches : Seq(Match)]
                   /\ job.done \subseteq 0 .. TileCount[job.request] - 1

FileOK == file \in File

\* While a save is on, what is in the file and what is to come make the text.
SaveOK ==
  /\ pending \in Seq(Line)
  /\ pending # <<>> => /\ job # Nothing /\ whole = Nothing
                       /\ file.tail = <<>> /\ file.lines \o pending = Text(job)

CutOK == whole = Nothing => Short(file)

Inv == JobOK /\ FileOK /\ SaveOK /\ CutOK

-----------------------------------------------------------------------------
(* The text of a job                                                       *)

\* The beginning of a concatenation.
LEMMA ConcatFirst ==
  ASSUME NEW S, NEW s \in Seq(S), NEW t \in Seq(S), NEW k \in 1 .. Len(s)
  PROVE  (s \o t)[k] = s[k]
<1>1. Len(s) \in Nat /\ Len(t) \in Nat
  OBVIOUS
<1>2. k \in 1 .. Len(s) + Len(t) /\ k <= Len(s)
  BY <1>1
<1>3. QED
  BY <1>2, ConcatProperties

\* The type and length of a concatenation.
LEMMA ConcatType ==
  ASSUME NEW S, NEW s \in Seq(S), NEW t \in Seq(S)
  PROVE  s \o t \in Seq(S) /\ Len(s \o t) = Len(s) + Len(t)
BY ConcatProperties

\* The shape of a text: its third line counts the lines after it.
LEMMA TextShape ==
  ASSUME NEW j \in [request : Requests, done : SUBSET Nat, matches : Seq(Match)]
  PROVE  /\ Text(j) \in Seq(Line) /\ Len(Text(j)) = 3 + Len(j.matches)
         /\ Text(j)[1].kw = "rokkdoxx-checkpoint"
         /\ Text(j)[3] = CountLine(Len(j.matches))
<1> DEFINE n == Len(j.matches)
           head == <<Header(2, Fingerprint[j.request]), DoneLine(Runs(j.done)), CountLine(n)>>
           rest == [i \in 1 .. n |-> MatchLine(j.matches[i])]
<1>1. n \in Nat /\ j.request \in Requests /\ j.done \in SUBSET Nat /\ j.matches \in Seq(Match)
  OBVIOUS
<1>2. head \in Seq(Line) /\ Len(head) = 3
  <2>1. Header(2, Fingerprint[j.request]) \in Line
    BY <1>1, RequestAssumption DEF Line, Header
  <2>2. DoneLine(Runs(j.done)) \in Line
    BY <1>1 DEF Line, DoneLine
  <2>3. CountLine(n) \in Line
    BY <1>1 DEF Line, CountLine
  <2>4. QED
    BY <2>1, <2>2, <2>3
<1>3. rest \in Seq(Line) /\ Len(rest) = n
  <2>1. ASSUME NEW i \in 1 .. n PROVE MatchLine(j.matches[i]) \in Line
    <3>1. j.matches[i] \in Match
      BY <1>1
    <3>2. QED
      BY <3>1 DEF Match, Line, MatchLine
  <2>2. QED
    BY <1>1, <2>1
<1>4. Text(j) = head \o rest
  BY DEF Text
<1>5. head[1].kw = "rokkdoxx-checkpoint" /\ head[3] = CountLine(n)
  BY DEF Header
<1> HIDE DEF n, head, rest
<1>6. /\ head \o rest \in Seq(Line) /\ Len(head \o rest) = 3 + n
      /\ (head \o rest)[1] = head[1] /\ (head \o rest)[3] = head[3]
  <2>1. head \o rest \in Seq(Line) /\ Len(head \o rest) = Len(head) + Len(rest)
    BY <1>2, <1>3, ConcatType
  <2>2. 1 \in 1 .. Len(head) /\ 3 \in 1 .. Len(head)
    BY <1>2
  <2>3. (head \o rest)[1] = head[1] /\ (head \o rest)[3] = head[3]
    <3>1. ASSUME NEW k \in 1 .. Len(head) PROVE (head \o rest)[k] = head[k]
      BY <1>2, <1>3, ConcatFirst
    <3>2. QED
      BY <2>2, <3>1
  <2>4. QED
    BY <1>2, <1>3, <2>1, <2>3
<1>7. QED
  BY <1>4, <1>5, <1>6 DEF n

-----------------------------------------------------------------------------
(* Reading                                                                 *)

\* The complete lines of a file are the first of all its lines.
LEMMA LinesFirst ==
  ASSUME NEW f \in File, NEW k \in 1 .. Len(f.lines)
  PROVE  AllLines(f)[k] = f.lines[k] /\ f.lines[k] \in Line
<1>1. f.lines \in Seq(Line) /\ f.tail \in {<<>>} \cup {<<l>> : l \in Shards}
  BY DEF File
<1>2. Line \subseteq Shards
  BY DEF Shards
<1>3. f.tail \in Seq(Shards)
  <2>1. CASE f.tail = <<>>
    BY <2>1
  <2>2. ASSUME NEW l \in Shards, f.tail = <<l>> PROVE f.tail \in Seq(Shards)
    BY <2>2
  <2>3. QED
    BY <1>1, <2>1, <2>2
<1>4. f.lines \in Seq(Shards)
  BY <1>1, <1>2, SeqMonotonic
<1>5. AllLines(f)[k] = f.lines[k]
  BY <1>3, <1>4, ConcatFirst DEF AllLines
<1>6. QED
  BY <1>1, <1>5

\* read_checkpoint rejects a file that is short.
LEMMA ShortRejected ==
  ASSUME NEW f \in File, Short(f), NEW q \in Requests
  PROVE  ~Accepts(f, q)
<1> SUFFICES ASSUME Accepts(f, q) PROVE FALSE
  OBVIOUS
<1>1. f.lines \in Seq(Line)
  BY DEF File
<1>2. Len(f.lines) >= 3
  BY <1>1 DEF Accepts, Counts
<1>3. AllLines(f)[1] = f.lines[1] /\ AllLines(f)[3] = f.lines[3] /\ f.lines[3] \in Line
  BY <1>1, <1>2, LinesFirst
<1>4. f.lines[1].version = 2
  <2>1. OwnHeader(f, q)
    BY DEF Accepts
  <2>2. f.lines[1] = Header(2, Fingerprint[q])
    BY <1>3, <2>1 DEF OwnHeader
  <2>3. QED
    BY <2>2 DEF Header
<1>5. f.lines[3].kw = "matches"
  BY <1>3 DEF Accepts
<1>6. f.lines[3].count \in Nat
  BY <1>3, <1>5 DEF Line
<1>7. Len(f.lines) < 3 + f.lines[3].count
  BY <1>2, <1>4 DEF Short
<1>8. f.lines[3].count \in 1 .. f.lines[3].count
  BY <1>1, <1>2, <1>6, <1>7
<1>9. Counts(f, 3 + f.lines[3].count)
  BY <1>3, <1>8 DEF Accepts
<1>10. QED
  BY <1>1, <1>6, <1>7, <1>9 DEF Counts

\* What a job begins with is well formed.
LEMMA LoadType ==
  ASSUME NEW f \in File, NEW q \in Requests
  PROVE  /\ Load(f, q) \in [request : Requests, done : SUBSET Nat, matches : Seq(Match)]
         /\ Load(f, q).request = q
         /\ Load(f, q).done \subseteq 0 .. TileCount[q] - 1
<1>1. CASE Accepts(f, q)
  <2>1. f \in File /\ f.lines \in Seq(Line)
    BY <1>1 DEF File
  <2> DEFINE n == AllLines(f)[3].count
  <2>2. Len(f.lines) >= 3
    BY <1>1, <2>1 DEF Accepts, Counts
  <2>3. n \in Nat
    <3>1. AllLines(f)[3] \in Line
      BY <2>1, <2>2, LinesFirst
    <3>2. QED
      BY <1>1, <3>1 DEF Accepts, Line
  <2>4. ASSUME NEW i \in 1 .. n
        PROVE  [at |-> AllLines(f)[3 + i].at, mask |-> AllLines(f)[3 + i].mask] \in Match
    <3>1. 3 + i <= Len(f.lines) /\ AllLines(f)[3 + i].kw = ""
      BY <1>1, <2>4 DEF Accepts, Counts
    <3>2. AllLines(f)[3 + i] \in Line
      <4>1. 3 + i \in 1 .. Len(f.lines)
        <5>1. i \in Nat \ {0} /\ Len(f.lines) \in Nat
          BY <2>1, <2>3
        <5>2. 3 + i <= Len(f.lines)
          BY <3>1
        <5>3. QED
          BY <5>1, <5>2
      <4> HIDE DEF n
      <4>2. QED
        BY <2>1, <4>1, LinesFirst
    <3>3. QED
      BY <3>1, <3>2 DEF Line, Match
  <2>5. Restored(f, q).matches \in Seq(Match)
    BY <2>3, <2>4 DEF Restored
  <2>6. LineTiles(q, AllLines(f)[2]) \subseteq 0 .. TileCount[q] - 1
    BY DEF LineTiles, RunTiles
  <2>7. TileCount[q] \in Nat
    BY RequestAssumption
  <2>8. LineTiles(q, AllLines(f)[2]) \in SUBSET Nat
    BY <2>6, <2>7
  <2>9. Load(f, q) = Restored(f, q)
    BY <1>1 DEF Load
  <2>10. QED
    BY <2>5, <2>6, <2>8, <2>9 DEF Restored
<1>2. CASE ~Accepts(f, q)
  BY <1>2 DEF Load, Fresh
<1>3. QED
  BY <1>1, <1>2
-----------------------------------------------------------------------------
(* The invariant                                                           *)

LEMMA InitInv == Init => Inv
<1> SUFFICES ASSUME Init PROVE Inv
  OBVIOUS
<1>1. JobOK /\ SaveOK
  BY DEF Init, JobOK, SaveOK
<1>2. ASSUME NEW q \in Requests, file = OldFile(q) PROVE FileOK /\ CutOK
  <2>1. TileCount[q] \in Nat /\ Fingerprint[q] \in Nat
    BY RequestAssumption
  <2>2. Header(1, Fingerprint[q]) \in Line
    BY <2>1 DEF Header, Line
  <2>3. DoneLine(<<<<0, TileCount[q] - 1>>>>) \in Line
    <3>1. <<0, TileCount[q] - 1>> \in Int \X Int
      BY <2>1
    <3>2. <<<<0, TileCount[q] - 1>>>> \in Numbers
      BY <3>1 DEF Numbers
    <3>3. QED
      BY <3>2 DEF DoneLine, Line
  <2>4. CountLine(0) \in Line
    BY DEF CountLine, Line
  <2>5. file.lines \in Seq(Line) /\ file.lines[1].version # 2
    BY <1>2, <2>2, <2>3, <2>4 DEF OldFile, Header
  <2>6. file = [lines |-> file.lines, tail |-> <<>>]
    BY <1>2 DEF OldFile
  <2>7. QED
    BY <2>5, <2>6 DEF FileOK, File, CutOK, Short
<1>3. CASE file = Empty
  <2>1. file.lines = <<>> /\ Len(file.lines) = 0 /\ file.lines \in Seq(Line)
    BY <1>3 DEF Empty
  <2>2. file \in File
    BY <1>3 DEF Empty, File
  <2>3. Len(file.lines) < 3
    BY <2>1
  <2>4. Short(file)
    BY <2>3 DEF Short
  <2>5. QED
    BY <1>1, <2>2, <2>4 DEF Inv, FileOK, CutOK
<1>4. QED
  BY <1>1, <1>2, <1>3 DEF Init, Inv

\* A job begins with what the file gives it.
LEMMA BeginInv == ASSUME Inv, NEW q \in Requests, Begin(q) PROVE Inv'
<1>1. JobOK'
  BY LoadType DEF Inv, FileOK, Begin, JobOK
<1>2. FileOK' /\ CutOK'
  BY DEF Inv, FileOK, CutOK, Begin
<1>3. pending = <<>>
  BY DEF Inv, SaveOK, Begin
<1>4. SaveOK'
  BY <1>3 DEF Begin, Inv, SaveOK
<1>5. QED
  BY <1>1, <1>2, <1>4 DEF Inv

\* Work happens between saves.
LEMMA WorkInv == ASSUME Inv, Work PROVE Inv'
<1>1. PICK b \in Batches :
        /\ b.tiles \subseteq 0 .. TileCount[job.request] - 1
        /\ job' = [job EXCEPT !.done = @ \cup b.tiles, !.matches = @ \o b.matches]
  BY DEF Work
<1>2. job \in [request : Requests, done : SUBSET Nat, matches : Seq(Match)] /\ job.done \subseteq 0 .. TileCount[job.request] - 1
  BY DEF Work, Inv, JobOK
<1>3. b.matches \in Seq(Match) /\ TileCount[job.request] \in Nat
  BY <1>2, BatchAssumption, RequestAssumption
<1>4. job.matches \o b.matches \in Seq(Match)
  BY <1>2, <1>3, ConcatProperties
<1>5. b.tiles \in SUBSET Nat
  BY <1>1, <1>3
<1>6. JobOK'
  BY <1>1, <1>2, <1>4, <1>5 DEF JobOK
<1>7. FileOK' /\ CutOK' /\ SaveOK'
  BY DEF Work, Inv, FileOK, CutOK, SaveOK
<1>8. QED
  BY <1>6, <1>7 DEF Inv

\* An emptied file is short.
LEMMA SaveOpenInv == ASSUME Inv, SaveOpen PROVE Inv'
<1>1. job \in [request : Requests, done : SUBSET Nat, matches : Seq(Match)]
  BY DEF Inv, JobOK, SaveOpen
<1>2. Text(job) \in Seq(Line)
  BY <1>1, TextShape
<1>3. JobOK'
  BY DEF Inv, JobOK, SaveOpen
<1>4. file' = Empty /\ pending' = Text(job) /\ job' = job /\ whole' = Nothing /\ job # Nothing
  BY DEF SaveOpen
<1>5. file'.lines = <<>> /\ file'.tail = <<>>
  BY <1>4 DEF Empty
<1>6. FileOK' /\ CutOK'
  BY <1>4, <1>5 DEF FileOK, File, CutOK, Short, Empty
<1>7. <<>> \o Text(job) = Text(job)
  BY <1>2, ConcatEmptySeq
<1>8. pending' \in Seq(Line) /\ file'.lines \o pending' = Text(job')
  BY <1>2, <1>4, <1>5, <1>7
<1>9. QED
  BY <1>3, <1>4, <1>5, <1>6, <1>8 DEF Inv, SaveOK
\* As long as a line is missing, the file is short.
LEMMA SaveLineInv == ASSUME Inv, SaveLine PROVE Inv'
<1>1. /\ pending # <<>> /\ job # Nothing /\ whole = Nothing /\ file.tail = <<>>
      /\ job \in [request : Requests, done : SUBSET Nat, matches : Seq(Match)]
      /\ file \in File /\ file.lines \in Seq(Line) /\ pending \in Seq(Line)
      /\ file.lines \o pending = Text(job)
  BY DEF SaveLine, Inv, JobOK, FileOK, SaveOK, File
<1>2. Head(pending) \in Line /\ pending' = Tail(pending) /\ pending' \in Seq(Line)
  BY <1>1 DEF SaveLine
<1> DEFINE lines == Append(file.lines, Head(pending))
<1>3. file' = [lines |-> lines, tail |-> <<>>] /\ lines \in Seq(Line) /\ job' = job
  <2>1. lines \in Seq(Line)
    BY <1>1, <1>2, AppendProperties
  <2>2. file' = [file EXCEPT !.lines = lines] /\ job' = job
    BY DEF SaveLine
  <2>3. QED
    BY <1>1, <2>1, <2>2 DEF File
<1>4. lines \o Tail(pending) = Text(job)
  BY <1>1, <1>2, HeadTailAppend
<1>5. JobOK' /\ FileOK'
  BY <1>3 DEF Inv, JobOK, FileOK, File
<1>6. SaveOK'
  BY <1>1, <1>2, <1>3, <1>4 DEF SaveOK, SaveLine
<1>7. CASE pending' = <<>>
  BY <1>1, <1>3, <1>5, <1>6, <1>7 DEF SaveLine, Inv, CutOK
<1>8. CASE pending' # <<>>
  <2> DEFINE n == Len(job.matches)
             rest == Tail(pending)
  <2>1. n \in Nat /\ Len(Text(job)) = 3 + n /\ Text(job)[3] = CountLine(n)
    BY <1>1, TextShape
  <2>2. rest \in Seq(Line) /\ Len(rest) >= 1
    BY <1>2, <1>8
  <2> HIDE DEF n, rest, lines
  <2>3. Len(lines) + Len(rest) = 3 + n
    BY <1>3, <1>4, <2>1, <2>2, ConcatType DEF rest
  <2>4. Len(lines) < 3 + n /\ Len(lines) \in Nat
    BY <1>3, <2>1, <2>2, <2>3
  <2>5. ASSUME NEW k \in 1 .. Len(lines) PROVE lines[k] = Text(job)[k]
    BY <1>3, <1>4, <2>2, ConcatFirst DEF rest
  <2>6. ASSUME Len(lines) >= 3 PROVE lines[3].kw = "matches" /\ lines[3].count = n
    <3>1. lines[3] = CountLine(n)
      BY <2>1, <2>4, <2>5, <2>6
    <3>2. QED
      BY <3>1 DEF CountLine
  <2>7. file'.lines = lines
    BY <1>3
  <2>8. Short(file')
    BY <2>4, <2>6, <2>7 DEF Short
  <2>9. QED
    BY <1>5, <1>6, <2>8 DEF Inv, CutOK
<1>9. QED
  BY <1>7, <1>8
\* A cut leaves the complete lines, and at most a piece of the next.
LEMMA CutOffFile ==
  ASSUME Inv, CutOff
  PROVE  FileOK' /\ pending' = <<>> /\ whole' = whole /\ file'.lines = file.lines
<1>1. file \in File /\ Head(pending) \in Line
  BY DEF CutOff, Inv, FileOK, SaveOK
<1>2. CASE file' = file
  BY <1>1, <1>2 DEF CutOff, FileOK
<1>3. ASSUME NEW l \in Torn(Head(pending)) \cup {Head(pending)}, file' = [file EXCEPT !.tail = <<l>>]
      PROVE  file' \in File /\ file'.lines = file.lines
  <2>1. l \in Shards
    BY <1>1 DEF Shards
  <2>2. file' = [lines |-> file.lines, tail |-> <<l>>]
    BY <1>1, <1>3 DEF File
  <2>3. QED
    BY <1>1, <2>1, <2>2 DEF File
<1>4. QED
  BY <1>2, <1>3 DEF CutOff, FileOK

LEMMA CutOffInv == ASSUME Inv, CutOff, job' = job \/ job' = Nothing PROVE Inv'
<1>1. FileOK' /\ pending' = <<>> /\ whole' = whole /\ file'.lines = file.lines
  BY CutOffFile
<1>2. JobOK'
  BY DEF Inv, JobOK
<1>3. SaveOK'
  BY <1>1 DEF SaveOK
<1>4. CutOK'
  BY <1>1 DEF Inv, CutOK, Short
<1>5. QED
  BY <1>1, <1>2, <1>3, <1>4 DEF Inv

LEMMA NextInv == Inv /\ [Next]_vars => Inv'
<1> SUFFICES ASSUME Inv, [Next]_vars PROVE Inv'
  OBVIOUS
<1>1. CASE \E q \in Requests : Begin(q)
  BY <1>1, BeginInv
<1>2. CASE Work
  BY <1>2, WorkInv
<1>3. CASE SaveOpen
  BY <1>3, SaveOpenInv
<1>4. CASE SaveLine
  BY <1>4, SaveLineInv
<1>5. CASE DiskFull
  BY <1>5, CutOffInv DEF DiskFull
<1>6. CASE Kill
  <2>1. CASE CutOff
    BY <1>6, <2>1, CutOffInv DEF Kill
  <2>2. CASE pending = <<>> /\ UNCHANGED <<file, pending, whole>>
    BY <1>6, <2>2 DEF Kill, Inv, JobOK, FileOK, SaveOK, CutOK, Short
  <2>3. QED
    BY <1>6, <2>1, <2>2 DEF Kill
<1>7. CASE UNCHANGED vars
  BY <1>7 DEF vars, Inv, JobOK, FileOK, SaveOK, CutOK, Short
<1>8. QED
  BY <1>1, <1>2, <1>3, <1>4, <1>5, <1>6, <1>7 DEF Next

LEMMA InvHolds == Spec => []Inv
<1>1. Init => Inv
  BY InitInv
<1>2. Inv /\ [Next]_vars => Inv'
  BY NextInv
<1>3. QED
  BY <1>1, <1>2, PTL DEF Spec

-----------------------------------------------------------------------------
(* Runs of tiles                                                           *)

\* A set of naturals that is not empty has a least element.
LEMMA Least ==
  ASSUME NEW S \in SUBSET Nat, S # {}
  PROVE  \E n \in S : \A m \in S : n <= m
<1> DEFINE R == {x \in Nat \X Nat : x[1] < x[2]}
<1>1. IsWellFoundedOn(R, Nat)
  <2>1. R = OpToRel(<, Nat)
    BY DEF OpToRel
  <2>2. QED
    BY <2>1, NatLessThanWellFounded
<1>2. PICK x \in S : \A y \in S : <<y, x>> \notin R
  <2> HIDE DEF R
  <2>1. QED
    BY <1>1, WFMin
<1>3. ASSUME NEW m \in S PROVE x <= m
  <2>1. <<m, x>> \in Nat \X Nat
    OBVIOUS
  <2>2. ~ (m < x)
    BY <1>2, <2>1
  <2>3. QED
    BY <2>2
<1>4. QED
  BY <1>3

\* The numbers of a finite set, each once, in some order.
LEMMA AscendingRange ==
  ASSUME NEW S \in SUBSET Nat, IsFiniteSet(S)
  PROVE  /\ Ascending(S) \in [1 .. Cardinality(S) -> S]
         /\ \A a \in S : \E k \in 1 .. Cardinality(S) : Ascending(S)[k] = a
<1> DEFINE n == Cardinality(S)
           below(a) == {b \in S : b < a}
           rank == [a \in S |-> Cardinality(below(a)) + 1]
<1>1. n \in Nat
  BY FS_CardinalityType
<1>2. ASSUME NEW a \in S PROVE Cardinality(below(a)) \in 0 .. n - 1 /\ IsFiniteSet(below(a))
  <2>1. below(a) \in SUBSET (S \ {a})
    OBVIOUS
  <2>2. IsFiniteSet(S \ {a}) /\ Cardinality(S \ {a}) = n - 1
    BY FS_RemoveElement
  <2> HIDE DEF below
  <2>3. IsFiniteSet(below(a)) /\ Cardinality(below(a)) <= n - 1 /\ Cardinality(below(a)) \in Nat
    BY <2>1, <2>2, FS_Subset, FS_CardinalityType
  <2>4. QED
    BY <1>1, <2>3
<1>3. ASSUME NEW a \in S, NEW b \in S, a < b PROVE Cardinality(below(a)) < Cardinality(below(b))
  <2>1. below(a) \in SUBSET below(b) /\ a \in below(b) /\ a \notin below(a)
    <3>1. \A c \in S : c < a => c < b
      BY <1>3
    <3>2. ~ (a < a)
      OBVIOUS
    <3>3. QED
      BY <1>3, <3>1, <3>2
  <2>2. IsFiniteSet(below(b)) /\ Cardinality(below(a)) \in Nat /\ Cardinality(below(b)) \in Nat
    BY <1>1, <1>2
  <2> HIDE DEF below
  <2>3. Cardinality(below(a)) <= Cardinality(below(b)) /\ Cardinality(below(a)) # Cardinality(below(b))
    BY <2>1, <2>2, FS_Subset
  <2>4. QED
    BY <2>2, <2>3
<1>4. \A a \in S : rank[a] = Cardinality(below(a)) + 1
  OBVIOUS
<1>5. Ascending(S) = [k \in 1 .. n |-> CHOOSE a \in S : Cardinality(below(a)) = k - 1]
  BY DEF Ascending
<1> HIDE DEF below
<1>6. rank \in [S -> 1 .. n]
  <2>1. ASSUME NEW a \in S PROVE Cardinality(below(a)) + 1 \in 1 .. n
    BY <1>1, <1>2
  <2>2. QED
    BY <2>1
<1> HIDE DEF rank
<1>7. ASSUME NEW a \in S, NEW b \in S, rank[a] = rank[b] PROVE a = b
  <2>1. Cardinality(below(a)) = Cardinality(below(b)) /\ Cardinality(below(a)) \in Int
    BY <1>1, <1>2, <1>4, <1>7
  <2>2. ~ (a < b) /\ ~ (b < a)
    BY <1>3, <2>1
  <2>3. QED
    BY <2>2
<1>8. \A k \in 1 .. n : \E a \in S : rank[a] = k
  <2>1. rank \in Injection(S, 1 .. n)
    BY <1>6, <1>7 DEF Injection, IsInjective
  <2>2. IsFiniteSet(1 .. n) /\ Cardinality(1 .. n) = n
    <3>1. n \in Int /\ 1 \in Int
      BY <1>1
    <3> HIDE DEF n
    <3>2. Cardinality(1 .. n) = (IF 1 > n THEN 0 ELSE n - 1 + 1) /\ IsFiniteSet(1 .. n)
      BY ONLY <3>1, FS_Interval
    <3>3. QED
      BY <1>1, <3>2
  <2>3. rank \in Surjection(S, 1 .. n)
    BY <1>1, <2>1, <2>2, FS_Injection
  <2>4. QED
    BY <2>3 DEF Surjection
<1> HIDE DEF n
<1>9. \A k \in 1 .. n : Ascending(S)[k] \in S /\ rank[Ascending(S)[k]] = k
  <2> TAKE k \in 1 .. n
  <2>1. PICK a \in S : rank[a] = k
    BY <1>8
  <2>2. Cardinality(below(a)) = k - 1
    BY <1>1, <1>2, <1>4, <2>1
  <2> DEFINE c == CHOOSE b \in S : Cardinality(below(b)) = k - 1
  <2>3. c \in S /\ Cardinality(below(c)) = k - 1
    BY <2>2
  <2>4. Ascending(S)[k] = c
    BY <1>5
  <2> HIDE DEF c
  <2>5. QED
    BY <1>1, <1>4, <2>3, <2>4
<1>10. Ascending(S) \in [1 .. n -> S]
  BY <1>5, <1>9
<1>11. \A a \in S : rank[a] \in 1 .. n /\ Ascending(S)[rank[a]] = a
  BY <1>6, <1>7, <1>9
<1>12. QED
  BY <1>10, <1>11 DEF n

\* A run goes from its start to the last tile before one that is not done.
LEMMA RunEnds ==
  ASSUME NEW n \in Nat, NEW D \in SUBSET (0 .. n - 1), NEW a \in D
  PROVE  /\ RunEnd(D, a) \in D /\ RunEnd(D, a) >= a
         /\ RunEnd(D, a) + 1 \notin D /\ a .. RunEnd(D, a) \subseteq D
<1> DEFINE S == {m \in Nat : m > a /\ m \notin D}
<1>1. a \in Nat /\ n \in S
  OBVIOUS
<1>2. PICK e \in S : \A m \in S : e <= m
  BY <1>1, Least
<1>3. e \in Nat /\ e > a /\ e \notin D /\ \A m \in Nat : m > a /\ m \notin D => e <= m
  BY <1>2
<1> DEFINE b == e - 1
<1>4. b \in Nat /\ b >= a /\ b + 1 \notin D
  BY <1>1, <1>3
<1>5. ASSUME NEW m \in a .. b PROVE m \in D
  <2>1. m \in Nat /\ m >= a /\ m < e
    BY <1>1, <1>3, <1>5
  <2>2. CASE m = a
    BY <2>2
  <2>3. CASE m > a
    BY <1>3, <2>1, <2>3
  <2>4. QED
    BY <1>1, <2>1, <2>2, <2>3
<1> HIDE DEF S, b
<1>6. b \in a .. b /\ a .. b \subseteq D
  BY <1>1, <1>4, <1>5
<1>7. b \in D
  BY <1>5, <1>6
<1>8. \E c \in D : c >= a /\ c + 1 \notin D /\ a .. c \subseteq D
  BY <1>4, <1>6, <1>7
<1>9. QED
  BY <1>8 DEF RunEnd

\* Every tile that is done is in the run of a start.
LEMMA InARun ==
  ASSUME NEW n \in Nat, NEW D \in SUBSET (0 .. n - 1), NEW d \in D
  PROVE  \E a \in Starts(D) : d \in a .. RunEnd(D, a)
<1> DEFINE S == {m \in Nat : m <= d /\ m .. d \subseteq D}
<1>1. d \in Nat /\ d .. d = {d}
  OBVIOUS
<1>2. d \in S
  BY <1>1
<1>3. PICK a \in S : \A m \in S : a <= m
  BY <1>2, Least
<1>4. a \in Nat /\ a <= d /\ a .. d \subseteq D
  BY <1>3
<1>5. a \in D
  BY <1>1, <1>4
<1>6. a - 1 \notin D
  <2>1. SUFFICES ASSUME a - 1 \in D PROVE FALSE
    OBVIOUS
  <2>2. a - 1 \in Nat /\ a - 1 <= d
    BY <1>1, <1>4, <2>1
  <2>3. ASSUME NEW m \in (a - 1) .. d PROVE m \in D
    <3>1. m = a - 1 \/ m \in a .. d
      BY <1>1, <1>4, <2>3
    <3>2. QED
      BY <1>4, <2>1, <3>1
  <2>4. a - 1 \in S
    BY <2>2, <2>3
  <2>5. QED
    BY <1>3, <1>4, <2>4
<1> HIDE DEF S
<1> DEFINE e == RunEnd(D, a)
<1>7. e \in D /\ e >= a /\ e + 1 \notin D
  BY <1>5, RunEnds
<1> HIDE DEF e
<1>8. e \in Nat
  BY <1>7
<1>9. d <= e
  <2>1. SUFFICES ASSUME e < d PROVE FALSE
    BY <1>1, <1>8
  <2>2. e + 1 \in a .. d
    BY <1>1, <1>4, <1>7, <1>8, <2>1
  <2>3. QED
    BY <1>4, <1>7, <2>2
<1>10. d \in a .. e /\ a \in Starts(D)
  BY <1>1, <1>4, <1>5, <1>6, <1>8, <1>9 DEF Starts
<1>11. QED
  BY <1>10 DEF e

\* Writing tiles as runs and reading the runs gives the tiles.
LEMMA RunsRead ==
  ASSUME NEW q \in Requests, NEW D \in SUBSET (0 .. TileCount[q] - 1)
  PROVE  LineTiles(q, DoneLine(Runs(D))) = D
<1> DEFINE n == TileCount[q]
           F == Starts(D)
           s == Ascending(F)
<1>1. n \in Nat
  BY RequestAssumption
<1>2. F \in SUBSET Nat /\ F \subseteq D /\ IsFiniteSet(F)
  <2>1. F \in SUBSET (0 .. n - 1) /\ F \subseteq D
    BY DEF Starts
  <2>2. IsFiniteSet(0 .. n - 1)
    <3>1. 0 \in Int /\ n - 1 \in Int
      BY <1>1
    <3> DEFINE m == n - 1
    <3> HIDE DEF m
    <3>2. QED
      BY <3>1, FS_Interval DEF m
  <2> HIDE DEF n, F
  <2>3. IsFiniteSet(F)
    BY <2>1, <2>2, FS_Subset
  <2>4. F \in SUBSET Nat
    BY <1>1, <2>1
  <2>5. QED
    BY <2>1, <2>3, <2>4
<1> HIDE DEF F
<1>3. s \in [1 .. Cardinality(F) -> F] /\ \A a \in F : \E k \in 1 .. Cardinality(F) : s[k] = a
  BY <1>2, AscendingRange
<1> DEFINE runs == [k \in DOMAIN s |-> <<s[k], RunEnd(D, s[k])>>]
<1>4. Runs(D) = runs
  BY DEF Runs, F
<1> HIDE DEF s
<1>5. DOMAIN runs = DOMAIN s /\ \A k \in DOMAIN s : runs[k][1] = s[k] /\ runs[k][2] = RunEnd(D, s[k])
  OBVIOUS
<1> HIDE DEF runs, n
<1>6. LineTiles(q, DoneLine(Runs(D))) = UNION {(runs[k][1] .. runs[k][2]) \cap (0 .. n - 1) : k \in DOMAIN runs}
  BY <1>4 DEF LineTiles, DoneLine, RunTiles, n
<1>7. ASSUME NEW k \in DOMAIN runs PROVE (runs[k][1] .. runs[k][2]) \cap (0 .. n - 1) \subseteq D
  <2>1. s[k] \in D
    BY <1>2, <1>3, <1>5
  <2>2. s[k] .. RunEnd(D, s[k]) \subseteq D
    BY <1>1, <2>1, RunEnds DEF n
  <2>3. QED
    BY <1>5, <2>2
<1>8. ASSUME NEW d \in D
      PROVE  \E k \in DOMAIN runs : d \in (runs[k][1] .. runs[k][2]) \cap (0 .. n - 1)
  <2>1. PICK a \in F : d \in a .. RunEnd(D, a)
    BY <1>1, InARun DEF F, n
  <2>2. PICK k \in 1 .. Cardinality(F) : s[k] = a
    BY <1>3
  <2>3. k \in DOMAIN runs /\ runs[k][1] = a /\ runs[k][2] = RunEnd(D, a)
    BY <1>3, <1>5, <2>2
  <2>4. d \in 0 .. n - 1
    BY DEF n
  <2>5. QED
    BY <2>1, <2>3, <2>4
<1>9. QED
  BY <1>6, <1>7, <1>8

-----------------------------------------------------------------------------
(* A complete file                                                         *)

Progress == [request : Requests, done : SUBSET Nat, matches : Seq(Match)]

\* After a completed save the file is the text of what was saved.
WholeOK ==
  whole # Nothing =>
    /\ whole \in Progress /\ whole.done \subseteq 0 .. TileCount[whole.request] - 1
    /\ file.lines = Text(whole) /\ file.tail = <<>>

\* Every line of the text of a job.
LEMMA TextLines ==
  ASSUME NEW j \in Progress
  PROVE  /\ Text(j)[1] = Header(2, Fingerprint[j.request])
         /\ Text(j)[2] = DoneLine(Runs(j.done))
         /\ \A i \in 1 .. Len(j.matches) : Text(j)[3 + i] = MatchLine(j.matches[i])
<1> DEFINE n == Len(j.matches)
           head == <<Header(2, Fingerprint[j.request]), DoneLine(Runs(j.done)), CountLine(n)>>
           rest == [i \in 1 .. n |-> MatchLine(j.matches[i])]
           Any == {head[1], head[2], head[3]} \cup {rest[i] : i \in 1 .. n}
<1>1. n \in Nat
  BY DEF Progress
<1>2. head \in Seq(Any) /\ Len(head) = 3
  OBVIOUS
<1>3. rest \in Seq(Any) /\ Len(rest) = n
  <2>1. \A i \in 1 .. n : MatchLine(j.matches[i]) \in Any
    OBVIOUS
  <2> HIDE DEF Any, n
  <2>2. QED
    BY <1>1, <2>1
<1>4. Text(j) = head \o rest
  BY DEF Text
<1>5. head[1] = Header(2, Fingerprint[j.request]) /\ head[2] = DoneLine(Runs(j.done))
  OBVIOUS
<1>6. \A i \in 1 .. n : rest[i] = MatchLine(j.matches[i])
  OBVIOUS
<1> HIDE DEF n, head, rest, Any
<1>7. (head \o rest)[1] = head[1] /\ (head \o rest)[2] = head[2]
  <2>1. 1 \in 1 .. Len(head) /\ 2 \in 1 .. Len(head)
    BY <1>2
  <2>2. \A k \in 1 .. Len(head) : (head \o rest)[k] = head[k]
    BY <1>2, <1>3, ConcatFirst
  <2>3. QED
    BY <2>1, <2>2
<1>8. ASSUME NEW i \in 1 .. n PROVE (head \o rest)[3 + i] = rest[i]
  <2>1. 3 + i \in 1 .. Len(head) + Len(rest) /\ ~ (3 + i <= Len(head)) /\ (3 + i) - Len(head) = i
    BY <1>1, <1>2, <1>3
  <2>2. (head \o rest)[3 + i] = rest[(3 + i) - Len(head)]
    BY <1>2, <1>3, <2>1, ConcatProperties
  <2>3. QED
    BY <2>1, <2>2
<1>9. QED
  BY <1>4, <1>5, <1>6, <1>7, <1>8 DEF n

\* Reading the text of a job gives the job, and only to its own request.
LEMMA TextRead ==
  ASSUME NEW j \in Progress, j.done \subseteq 0 .. TileCount[j.request] - 1,
         NEW f, f.lines = Text(j), f.tail = <<>>, NEW q \in Requests
  PROVE  Load(f, q) = IF q = j.request THEN j ELSE Fresh(q)
<1> DEFINE n == Len(j.matches)
           t == Text(j)
<1>1. n \in Nat /\ j.request \in Requests /\ j.matches \in Seq(Match) /\ j.done \in SUBSET Nat
  BY DEF Progress
<1>2. /\ t \in Seq(Line) /\ Len(t) = 3 + n
      /\ t[1] = Header(2, Fingerprint[j.request]) /\ t[2] = DoneLine(Runs(j.done)) /\ t[3] = CountLine(n)
      /\ \A i \in 1 .. n : t[3 + i] = MatchLine(j.matches[i])
  BY TextShape, TextLines DEF Progress
<1> HIDE DEF n, t
<1>3. AllLines(f) = t /\ f.lines = t
  BY <1>2, ConcatEmptySeq DEF AllLines, t
<1>4. CASE q # j.request
  <2>1. Fingerprint[q] # Fingerprint[j.request]
    BY <1>1, <1>4, RequestAssumption
  <2>2. ~ OwnHeader(f, q)
    BY <1>2, <1>3, <2>1 DEF OwnHeader, Header
  <2>3. QED
    BY <1>4, <2>2 DEF Load, Accepts
<1>5. CASE q = j.request
  <2>1. t[2].kw = "done" /\ t[2].runs = Runs(j.done) /\ t[3].kw = "matches" /\ t[3].count = n
    BY <1>2 DEF DoneLine, CountLine
  <2>2. \A i \in 1 .. n : /\ t[3 + i].kw = "" /\ t[3 + i].at = j.matches[i].at
                          /\ t[3 + i].mask = j.matches[i].mask
    <3> TAKE i \in 1 .. n
    <3>1. t[3 + i] = MatchLine(j.matches[i])
      BY <1>2
    <3>2. \A m : MatchLine(m).kw = "" /\ MatchLine(m).at = m.at /\ MatchLine(m).mask = m.mask
      BY DEF MatchLine
    <3>3. QED
      BY <3>1, <3>2
  <2>3. \A i \in 1 .. n : 3 + i <= Len(t)
    BY <1>1, <1>2
  <2>4. Accepts(f, q)
    <3>1. OwnHeader(f, q)
      BY <1>1, <1>2, <1>3, <1>5 DEF OwnHeader
    <3>2. Counts(f, 2) /\ Counts(f, 3) /\ \A i \in 1 .. n : Counts(f, 3 + i)
      BY <1>1, <1>2, <1>3, <2>3 DEF Counts
    <3>3. QED
      BY <1>3, <2>1, <2>2, <3>1, <3>2 DEF Accepts
  <2>5. LineTiles(q, t[2]) = j.done
    BY <1>1, <1>2, <1>5, RunsRead
  <2>6. [i \in 1 .. n |-> [at |-> t[3 + i].at, mask |-> t[3 + i].mask]] = j.matches
    <3>1. \A i \in 1 .. n : [at |-> t[3 + i].at, mask |-> t[3 + i].mask] = j.matches[i]
      <4> TAKE i \in 1 .. n
      <4>1. j.matches[i] \in Match
        BY <1>1 DEF n
      <4>2. QED
        BY <2>2, <4>1 DEF Match
    <3>2. j.matches = [i \in 1 .. n |-> j.matches[i]]
      BY <1>1 DEF n
    <3>3. QED
      BY <3>1, <3>2
  <2>7. Load(f, q) = [request |-> q, done |-> j.done, matches |-> j.matches]
    BY <1>3, <2>1, <2>4, <2>5, <2>6 DEF Load, Restored
  <2>8. j = [request |-> j.request, done |-> j.done, matches |-> j.matches]
    BY DEF Progress
  <2>9. QED
    BY <1>5, <2>7, <2>8
<1>6. QED
  BY <1>4, <1>5

\* The last line makes the file the text of the job; a new save forgets it.
LEMMA WholeKept == Inv /\ WholeOK /\ [Next]_vars => WholeOK'
<1> SUFFICES ASSUME Inv, WholeOK, [Next]_vars PROVE WholeOK'
  OBVIOUS
<1>1. CASE UNCHANGED <<file, whole>>
  BY <1>1 DEF WholeOK
<1>2. CASE SaveOpen
  BY <1>2 DEF SaveOpen, WholeOK
<1>3. CASE SaveLine
  <2>1. CASE pending' # <<>>
    BY <1>3, <2>1 DEF SaveLine, WholeOK
  <2>2. CASE pending' = <<>>
    <3>1. /\ job # Nothing /\ job \in Progress /\ job.done \subseteq 0 .. TileCount[job.request] - 1
          /\ file.tail = <<>> /\ file.lines \in Seq(Line) /\ pending \in Seq(Line) /\ pending # <<>>
          /\ file.lines \o pending = Text(job) /\ file \in File
      BY <1>3 DEF SaveLine, Inv, JobOK, FileOK, File, SaveOK, Progress
    <3>2. whole' = job /\ Tail(pending) = <<>>
      BY <1>3, <2>2 DEF SaveLine
    <3> DEFINE lines == Append(file.lines, Head(pending))
    <3>3. lines \in Seq(Line) /\ lines \o Tail(pending) = Text(job)
      <4>1. Head(pending) \in Line
        BY <3>1
      <4>2. QED
        BY <3>1, <4>1, HeadTailAppend, AppendProperties
    <3>4. file' = [file EXCEPT !.lines = lines]
      BY <1>3 DEF SaveLine
    <3> HIDE DEF lines
    <3>5. lines = Text(job)
      BY <3>2, <3>3, ConcatEmptySeq
    <3>6. file'.lines = lines /\ file'.tail = <<>>
      BY <3>1, <3>4 DEF File
    <3>7. QED
      BY <3>1, <3>2, <3>5, <3>6 DEF WholeOK
  <2>3. QED
    BY <2>1, <2>2
<1>4. CASE CutOff
  BY <1>4 DEF CutOff, Inv, SaveOK, WholeOK
<1>5. QED
  BY <1>1, <1>2, <1>3, <1>4 DEF Next, Begin, Work, DiskFull, Kill, vars

LEMMA WholeHolds == Spec => []WholeOK
<1>1. Init => WholeOK
  BY DEF Init, WholeOK
<1>2. Inv /\ WholeOK /\ [Next]_vars => WholeOK'
  BY WholeKept
<1>3. QED
  BY <1>1, <1>2, InvHolds, PTL DEF Spec

-----------------------------------------------------------------------------
(* The results                                                             *)

\* Every reachable job, file and save has the types of the code.
THEOREM CheckpointTyped == Spec => []TypeOK
<1>1. Inv => TypeOK
  <2> SUFFICES ASSUME Inv PROVE TypeOK
    OBVIOUS
  <2>1. Len(file.tail) <= 1
    <3>1. file.tail \in {<<>>} \cup {<<l>> : l \in Shards}
      BY DEF Inv, FileOK, File
    <3>2. CASE file.tail = <<>>
      BY <3>2
    <3>3. ASSUME NEW l, file.tail = <<l>> PROVE Len(file.tail) <= 1
      BY <3>3
    <3>4. QED
      BY <3>1, <3>2, <3>3
  <2>2. QED
    BY <2>1 DEF Inv, JobOK, SaveOK, TypeOK
<1>2. QED
  BY <1>1, InvHolds, PTL

\* A file whose save was not completed, at whatever character it ends, gives no
\* job anything (search_service.cpp:234-237): a resume never skips tiles whose
\* matches were lost.
THEOREM CutIsRejected == Spec => []CutRejected
<1>1. Inv => CutRejected
  <2> SUFFICES ASSUME Inv, whole = Nothing, NEW q \in Requests PROVE Load(file, q) = Fresh(q)
    BY DEF CutRejected
  <2>1. file \in File /\ Short(file)
    BY DEF Inv, FileOK, CutOK
  <2>2. QED
    BY <2>1, ShortRejected DEF Load
<1>2. QED
  BY <1>1, InvHolds, PTL

\* A complete file gives the request it was written for exactly the tiles and
\* matches of the save, and any other request nothing (search_service.hpp:107-112).
THEOREM WholeIsRestored == Spec => []WholeRestored
<1>1. WholeOK => WholeRestored
  BY TextRead DEF WholeOK, WholeRestored
<1>2. QED
  BY <1>1, WholeHolds, PTL

\* The format implements a store that holds the whole of one job's progress or
\* nothing: what SearchJob takes a file to be (search_service.hpp:107-112).
THEOREM StoreImplemented == Spec => StoreSpec
<1> USE DEF Store!vars
<1>1. Init => Store!Init
  BY DEF Init, Store!Init
<1>2. Inv /\ CutRejected /\ WholeRestored /\ [Next]_vars => [Store!Next]_<<job, whole>>
  <2> SUFFICES ASSUME Inv, CutRejected, WholeRestored, [Next]_vars
               PROVE  [Store!Next]_<<job, whole>>
    OBVIOUS
  <2>1. ASSUME NEW q \in Requests, Begin(q) PROVE Store!Next
    <3>1. Load(file, q) = IF whole # Nothing /\ whole.request = q THEN whole ELSE Fresh(q)
      <4>1. CASE whole = Nothing
        BY <4>1 DEF CutRejected
      <4>2. CASE whole # Nothing
        BY <4>2 DEF WholeRestored
      <4>3. QED
        BY <4>1, <4>2
    <3>2. Store!Begin(q)
      BY <2>1, <3>1 DEF Begin, Store!Begin
    <3>3. QED
      BY <3>2 DEF Store!Next
  <2>2. CASE Work
    <3>1. PICK b \in Batches :
            /\ b.tiles \subseteq 0 .. TileCount[job.request] - 1
            /\ job' = [job EXCEPT !.done = @ \cup b.tiles, !.matches = @ \o b.matches]
      BY <2>2 DEF Work
    <3>2. job # Nothing /\ job \in Progress
      BY <2>2 DEF Work, Inv, JobOK, Progress
    <3>3. /\ job'.request = job.request /\ job'.done = job.done \cup b.tiles
          /\ job'.matches = job.matches \o b.matches
      BY <3>1, <3>2 DEF Progress
    <3>4. Advances(job, job')
      BY <3>3 DEF Advances
    <3>5. job' # Nothing
      <4>1. job.matches \o b.matches \in Seq(Match)
        <5>1. b.matches \in Seq(Match) /\ job.matches \in Seq(Match)
          BY <3>2, BatchAssumption DEF Progress
        <5>2. QED
          BY <5>1, ConcatProperties
      <4>2. job.done \cup b.tiles \in SUBSET Nat
        <5>1. TileCount[job.request] \in Nat
          BY <3>2, RequestAssumption DEF Progress
        <5>2. QED
          BY <3>1, <3>2, <5>1 DEF Progress
      <4>3. job' \in Progress
        BY <3>1, <3>2, <4>1, <4>2 DEF Progress
      <4>4. QED
        BY <4>3, NothingAssumption DEF Progress
    <3>6. QED
      BY <2>2, <3>2, <3>4, <3>5 DEF Work, Store!Work, Store!Next
  <2>3. CASE SaveOpen
    BY <2>3 DEF SaveOpen, Store!Discard, Store!Next
  <2>4. CASE SaveLine
    <3>1. job # Nothing
      BY <2>4 DEF SaveLine, Inv, SaveOK
    <3>2. QED
      BY <2>4, <3>1 DEF SaveLine, Store!Discard, Store!Store, Store!Next
  <2>5. CASE DiskFull
    BY <2>5 DEF DiskFull, CutOff
  <2>6. CASE Kill
    BY <2>6 DEF Kill, CutOff, Store!End, Store!Next
  <2>7. CASE UNCHANGED vars
    BY <2>7 DEF vars
  <2>8. QED
    BY <2>1, <2>2, <2>3, <2>4, <2>5, <2>6, <2>7 DEF Next
<1>3. QED
  BY <1>1, <1>2, InvHolds, CutIsRejected, WholeIsRestored, PTL DEF Spec, StoreSpec, Store!Spec
=============================================================================
