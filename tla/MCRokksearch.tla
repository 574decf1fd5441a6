---------------------------- MODULE MCRokksearch ----------------------------
(* Small instances of Rokksearch: a world of 8 x 8 blocks in two tiles, one  *)
(* pattern file, a machine with and without a GPU, and a benchmark whose     *)
(* workload just fits the cap.                                               *)
EXTENDS Rokksearch

MCTexts == {"", "-61", "-60", "-1", "0", "1", "2", "3", "4", "7", "5000", "n.ckpt"}
MCNumber ==
  [t \in MCTexts |-> CASE t = "-61" -> -61 [] t = "-60" -> -60 [] t = "-1" -> -1 [] t = "1" -> 1
                       [] t = "2" -> 2 [] t = "3" -> 3 [] t = "4" -> 4 [] t = "7" -> 7
                       [] t = "5000" -> 5000 [] OTHER -> 0]

Gpu == [id |-> "opencl:0", is_gpu |-> TRUE, integrated |-> TRUE]
TwoHosts == {<<>>, <<Gpu>>}

\* Bedrock Edition's world is the same for every seed.
Coordinates == -8 .. 8
Blocks(e, s, y) ==
  [x \in Coordinates, z \in Coordinates |->
     IF (x * x * 3 + z * z * 5 + x * z + 7 * x + (IF e = "java" THEN s * z + 1 ELSE 2 * z) - y) % 11 < 4
     THEN 1 ELSE 0]
AllWorlds == [e \in {"java", "bedrock"}, s \in {0, 7}, y \in {-61, -60} |-> Blocks(e, s, y)]
RareBlocks == [e \in {"java", "bedrock"}, y \in {-61, -60} |-> IF y = -60 THEN 1 ELSE 0]

Magnitude(n) == IF n < 0 THEN -n ELSE n
TwoRings(r, x, z) ==
  IF Max({Magnitude(2 * x - r.x0 - r.x1), Magnitude(2 * z - r.z0 - r.z1)}) <= 4 THEN 1 ELSE 2

\* a session of two rows that stops at its first match, and a plain pattern
Session == [DefaultFile EXCEPT !.seed = "7", !.radius = "3", !.checkpoint = "n.ckpt",
                               !.stop_first = TRUE, !.all_orientations = FALSE,
                               !.grid = << <<"#", "o", ".">>, <<".", "#", "#">> >>]
Plain == [DefaultFile EXCEPT !.edition = "bedrock", !.seed = "", !.y = -61, !.radius = "-1",
                             !.grid = << <<"#", "o">>, <<"o", "o">> >>]
TwoSaved == {Session, Plain}

OfFile == [NoFlags EXCEPT !.pattern = <<"n">>]
Searching ==
  {OfFile,
   [OfFile EXCEPT !.first = TRUE, !.backend = "cpu"],
   [OfFile EXCEPT !.all = <<TRUE>>, !.seed = <<"0">>, !.radius = <<2>>, !.checkpoint = <<"">>],
   [OfFile EXCEPT !.center = <<<<1, 0>>>>, !.radius = <<2>>, !.checkpoint = <<"n.ckpt">>],
   [OfFile EXCEPT !.region = <<[x0 |-> 1, x1 |-> 0, z0 |-> 0, z1 |-> 3]>>, !.backend = "integrated"],
   [NoFlags EXCEPT !.size = <<<<2, 2>>>>, !.center = <<<<0, 0>>>>, !.radius = <<3>>]}
AllCommands ==
  Searching \cup
  {[NoFlags EXCEPT !.pattern = <<"n">>, !.backend = "dedicated"],
   [NoFlags EXCEPT !.size = <<<<2, 2>>>>],
   [NoFlags EXCEPT !.demo = TRUE],
   [NoFlags EXCEPT !.demo = TRUE, !.edition = <<"bedrock">>, !.y = <<-61>>, !.all = <<FALSE>>],
   [NoFlags EXCEPT !.demo = TRUE, !.y = <<-64>>],
   [NoFlags EXCEPT !.benchmark = TRUE]}

MCPatterns ==
  UNION {{Asked(c, pf) : pf \in IF c.pattern = <<>> THEN {DefaultFile} ELSE Written} :
           c \in {d \in AllCommands : Searches(d)}}
MCHits == [p \in MCPatterns |-> {TwoRings(p.region, match.x, match.z) : match \in TrueMatches[p]}]

TwoTiles == << {"a", "b"}, {"c"} >>
=============================================================================
