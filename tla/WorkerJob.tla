----------------------------- MODULE WorkerJob -----------------------------
(***************************************************************************)
(* A job as a worker sees it, and the matches a tile of it has.            *)
(***************************************************************************)
EXTENDS BitPlane, Pattern

CONSTANTS
  CapLimit,  \* the most matches a worker may have room for in a tile, 2^20
  kMaxDim    \* the largest side of a pattern, 32

ASSUME LimitAssumption == CapLimit \in Nat /\ kMaxDim \in Nat

kDepth == 2  \* the tiles the pump keeps in flight

TileSet == [x0 : Int, z0 : Int, w : Nat \ {0}, h : Nat \ {0}]

JobSet == [edition : {"java", "bedrock"}, knowns : Seq(KnownCells), rare : {0, 1},
           all : BOOLEAN, cap : Nat, tiles : Seq(TileSet)]

Candidates(t) == (t.x0 .. t.x0 + t.w - 1) \X (t.z0 .. t.z0 + t.h - 1)

\* What run() lets through to configure() (search_service.cpp:426-433): a pattern that
\* is not empty nor too large and, in Bedrock Edition, no tile so far out that rounding
\* moves a column by more than one block.  No two of a scheduler's tiles share a
\* block, and only the timed phases of the benchmark, which look at no match, sweep
\* a region twice without configure().
IsJob(j) ==
  /\ j \in JobSet /\ IsPattern(j.knowns)
  /\ \A n \in DOMAIN j.knowns : j.knowns[n].i < kMaxDim /\ j.knowns[n].j < kMaxDim
  /\ j.edition = "bedrock" => \A n \in DOMAIN j.tiles :
       LET t == j.tiles[n]
       IN \A v \in {-t.x0, t.x0 + t.w - 1, -t.z0, t.z0 + t.h - 1} : v <= 2 * FloatLimit - kMaxDim
  /\ \A m, n \in DOMAIN j.tiles : m # n => Candidates(j.tiles[m]) \cap Candidates(j.tiles[n]) = {}

\* before the first configure()
NoJob == [edition |-> "java", knowns |-> <<>>, rare |-> 1, all |-> FALSE, cap |-> 0, tiles |-> <<>>]

\* the matches a worker must have room for in a tile
TileCap(j) == IF j.cap < CapLimit THEN j.cap ELSE CapLimit

\* the matches of a tile, by the definition
MatchesIn(j, t) ==
  LET anchor == Anchor(j.knowns, j.rare)
      block == [p \in Int \X Int |-> Bed(j.edition, p[1], p[2])]
      At(p) == [x |-> p[1], z |-> p[2],
                mask |-> TrueMask(j.knowns, anchor, j.all, block, p[1], p[2])]
  IN {m \in {At(p) : p \in Candidates(t)} : m.mask # {}}

MatchesUpTo(j, n) == UNION {MatchesIn(j, j.tiles[k]) : k \in 1 .. n}
=============================================================================
