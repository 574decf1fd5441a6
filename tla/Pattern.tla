------------------------------ MODULE Pattern -------------------------------
(***************************************************************************)
(* What a job looks for: the known cells of a pattern, the one its matches *)
(* are named by, and a candidate tested cell by cell in all orientations.  *)
(*                                                                         *)
(* A known cell is [i |-> column, j |-> row, want |-> 1 bedrock, 0 air].    *)
(* block[<<x, z>>] is the block test, 1 for bedrock.                        *)
(***************************************************************************)
EXTENDS Integers, Sequences

KnownCells == [i : Nat, j : Nat, want : {0, 1}]

\* Pattern::knowns of a pattern with a known cell: every known cell once
IsPattern(knowns) == /\ knowns \in Seq(KnownCells) /\ knowns # <<>>
                     /\ \A m, n \in DOMAIN knowns :
                          knowns[m].i = knowns[n].i /\ knowns[m].j = knowns[n].j => m = n

\* the eight ways to lay a pattern down: <<a, b, c, d>> takes (i, j) to
\* (a i + b j, c i + d j); the index less one is the bit in a match's mask
kOrientations ==
  << <<1, 0, 0, 1>>, <<0, -1, 1, 0>>, <<-1, 0, 0, -1>>, <<0, 1, -1, 0>>,
     <<-1, 0, 0, 1>>, <<0, 1, 1, 0>>, <<1, 0, 0, -1>>, <<0, -1, -1, 0>> >>

Turn(g, i, j) == LET t == kOrientations[g] IN <<t[1] * i + t[2] * j, t[3] * i + t[4] * j>>

Orientations(all) == IF all THEN 1 .. Len(kOrientations) ELSE {1}

\* the sum of a sequence of integers
SumOf(s) == LET upTo[n \in 0 .. Len(s)] == IF n = 0 THEN 0 ELSE upTo[n - 1] + s[n] IN upTo[Len(s)]

\* The square of the distance of k to the centroid of the knowns, times the
\* square of their number so that it stays an integer.
Dist2(knowns, k) ==
  LET n == Len(knowns)
      di == n * k.i - SumOf([m \in DOMAIN knowns |-> knowns[m].i])
      dj == n * k.j - SumOf([m \in DOMAIN knowns |-> knowns[m].j])
  IN di * di + dj * dj

\* k is the better anchor: the rarer type, then nearer the centroid, then first by row
Nearer(knowns, rare, k, l) ==
  \/ (k.want = rare /\ l.want # rare)
  \/ /\ (k.want = rare) = (l.want = rare)
     /\ LET dk == Dist2(knowns, k)
            dl == Dist2(knowns, l)
        IN \/ dk < dl
           \/ dk = dl /\ (k.j < l.j \/ (k.j = l.j /\ k.i < l.i))

Anchor(knowns, rare) ==
  LET cells == {knowns[n] : n \in DOMAIN knowns}
  IN CHOOSE k \in cells : \A l \in cells \ {k} : Nearer(knowns, rare, k, l)

\* the orientations in which every known cell has the wanted block when the
\* cell anchor is on (x, z)
TrueMask(knowns, anchor, all, block, x, z) ==
  {g \in Orientations(all) : \A n \in DOMAIN knowns :
     LET o == Turn(g, knowns[n].i - anchor.i, knowns[n].j - anchor.j)
     IN block[<<x + o[1], z + o[2]>>] = knowns[n].want}
=============================================================================
