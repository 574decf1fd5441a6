----------------------------- MODULE SearchPlan -----------------------------
(***************************************************************************)
(* The plan both workers run (build_search_plan): it must agree with the   *)
(* definition of Pattern.                                                  *)
(***************************************************************************)
EXTENDS Pattern, SequencesExt

\* those of s at the indices in at, in order
Picked(s, at) == FlattenSeq([n \in DOMAIN s |-> IF n \in at THEN <<s[n]>> ELSE <<>>])

\* the knowns with the rarer type first, each type in its old order
RareFirst(knowns, rare) ==
  LET rares == {n \in DOMAIN knowns : knowns[n].want = rare}
  IN Picked(knowns, rares) \o Picked(knowns, DOMAIN knowns \ rares)

\* the anchor, then the others in fail-fast order
PlanCells(knowns, rare) ==
  LET anchor == Anchor(knowns, rare)
      all == RareFirst(knowns, rare)
  IN <<anchor>> \o Picked(all, {n \in DOMAIN all : <<all[n].i, all[n].j>> # <<anchor.i, anchor.j>>})

\* the cells around their anchor, in orientation g
Around(cells, g) ==
  [c \in DOMAIN cells |-> Turn(g, cells[c].i - cells[1].i, cells[c].j - cells[1].j)]

Key(cells, g) == {<<Around(cells, g)[c], cells[c].want>> : c \in DOMAIN cells}

\* Orientations that lay down the same cells are one variant; it has the
\* offsets of the first of them and the mask of all.
BuildSearchPlan(knowns, rare, all) ==
  LET cells == PlanCells(knowns, rare)
      Alike(g) == {h \in Orientations(all) : Key(cells, h) = Key(cells, g)}
      turns == [g \in 1 .. (IF all THEN Len(kOrientations) ELSE 1) |-> g]
      firsts == Picked(turns, {g \in DOMAIN turns : \A h \in Alike(g) : g <= h})
  IN [want    |-> [c \in DOMAIN cells |-> cells[c].want],
      offsets |-> [v \in DOMAIN firsts |-> Around(cells, firsts[v])],
      masks   |-> [v \in DOMAIN firsts |-> Alike(firsts[v])]]

NoPlan == [want |-> <<>>, offsets |-> <<>>, masks |-> <<>>]

\* the plan run on the candidate at (x, z): the mask of the variants that pass
PlanMask(plan, block, x, z) ==
  IF block[<<x, z>>] # plan.want[1] THEN {}
  ELSE UNION {plan.masks[v] : v \in {u \in DOMAIN plan.offsets : \A c \in 2 .. Len(plan.want) :
                block[<<x + plan.offsets[u][c][1], z + plan.offsets[u][c][2]>>] = plan.want[c]}}

\* how far the cells of any variant reach from the anchor: <<low, high>> along
\* x (axis 1) or z (axis 2)
Reach(plan, axis) ==
  LET all == {plan.offsets[v][c][axis] : v \in DOMAIN plan.offsets, c \in DOMAIN plan.want}
  IN <<CHOOSE n \in all : \A k \in all : n <= k, CHOOSE n \in all : \A k \in all : k <= n>>
=============================================================================
