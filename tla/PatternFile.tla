----------------------------- MODULE PatternFile -----------------------------
(***************************************************************************)
(* The pattern and session files both front-ends write and read.  A file   *)
(* is a sequence of lines, a line the sequence of its words; a row of the  *)
(* grid is the sequence of its characters.  A text that begins with a      *)
(* blank loses it on the way, so none is in Texts.                         *)
(***************************************************************************)
EXTENDS Integers, SequencesExt, FiniteSetsExt

CONSTANTS
  Texts,   \* what a field may hold; "" is an empty one
  Number,  \* Number[t]: the number text t is read as
  MaxDim   \* kMaxDim

\* a text that is empty is read as 0
ASSUME PatternFileAssumption ==
  /\ Number \in [Texts -> Int] /\ MaxDim \in Nat \ {0}
  /\ {"", "0"} \subseteq Texts /\ Number[""] = 0 /\ Number["0"] = 0

HasText(n) == \E t \in Texts \ {""} : Number[t] = n

ToText(n) == CHOOSE t \in Texts : t # "" /\ Number[t] = n

\* a PatternFile; its grid has rows of equal length
DefaultFile == [edition |-> "java", seed |-> "0", y |-> -60, center_x |-> "0", center_z |-> "0",
                radius |-> "5000", all_orientations |-> TRUE, checkpoint |-> "",
                stop_first |-> FALSE, grid |-> <<>>]

Cells == {"#", "o", "."}

\* those the front-ends save: where to search is a number, and the grid a pattern's
PatternFiles ==
  {pf \in [edition : {"java", "bedrock"}, seed : Texts, y : Int, center_x : Texts \ {""},
           center_z : Texts \ {""}, radius : Texts \ {""}, all_orientations : BOOLEAN,
           checkpoint : Texts, stop_first : BOOLEAN, grid : Seq(Seq(Cells))] :
     /\ Len(pf.grid) \in 1 .. MaxDim /\ Len(pf.grid[1]) \in 1 .. MaxDim
     /\ \A j \in DOMAIN pf.grid : Len(pf.grid[j]) = Len(pf.grid[1])
     /\ HasText(pf.y) /\ HasText(Len(pf.grid)) /\ HasText(Len(pf.grid[1]))}

\* the members of s that are not x
Without(s, x) == FlattenSeq([n \in DOMAIN s |-> IF s[n] = x THEN <<>> ELSE <<s[n]>>])

-----------------------------------------------------------------------------
(* save_pattern_file                                                       *)

\* an empty text leaves a keyword without a word
Line(key, texts) == <<key>> \o Without(texts, "")

Optional(there, line) == IF there THEN <<line>> ELSE <<>>

Save(pf) ==
  <<Line("#", <<"rokkdoxx pattern">>)>>
    \o Optional(pf.edition = "bedrock", Line("edition", <<"bedrock">>))
    \o << Line("seed", <<pf.seed>>), Line("y", <<ToText(pf.y)>>),
          Line("center", <<pf.center_x, pf.center_z>>), Line("radius", <<pf.radius>>),
          Line("orientations", <<IF pf.all_orientations THEN "all" ELSE "exact">>) >>
    \o Optional(pf.checkpoint # "", Line("checkpoint", <<pf.checkpoint>>))
    \o Optional(pf.stop_first, Line("stop_at_first", <<"yes">>))
    \o << Line("size", <<ToText(Len(pf.grid[1])), ToText(Len(pf.grid))>>) >>
    \o pf.grid

-----------------------------------------------------------------------------
(* load_pattern_file                                                       *)

HeaderKeys == {"edition", "seed", "y", "center", "radius", "orientations", "checkpoint",
               "stop_at_first"}

Clamped(n) == IF n < 1 THEN 1 ELSE IF n > MaxDim THEN MaxDim ELSE n

\* mutant: comments are left out wherever they are
ReadLinesAll(file) == SelectSeq(file, LAMBDA l : l # <<>> /\ l[1] # "#")

\* the lines that are not empty
ReadLines(file) == Without(file, <<>>)

\* the header goes on over comments and known keywords; "size", or any other line, ends it
HeaderEnd(lines) ==
  Min({n \in DOMAIN lines : lines[n][1] \notin HeaderKeys \cup {"#"}} \cup {Len(lines) + 1})

\* the last line of a key counts, and a missing word leaves what was there before
Value(lines, end, key, k, default) ==
  LET at == {n \in 1 .. end - 1 : lines[n][1] = key /\ Len(lines[n]) > k}
  IN IF at = {} THEN default ELSE lines[Max(at)][k + 1]

\* the rows, from the line end on or after it, in a grid of the declared or their own size
GridFrom(lines, end) ==
  LET sized == end \in DOMAIN lines /\ lines[end][1] = "size"
      rows == SubSeq(lines, IF sized THEN end + 1 ELSE end, Len(lines))
      declared(k) == IF sized /\ Len(lines[end]) > k THEN Number[lines[end][k + 1]] ELSE 0
      widest == Max({Len(rows[j]) : j \in DOMAIN rows} \cup {0})
      w == Clamped(IF declared(1) > 0 THEN declared(1) ELSE widest)
      h == Clamped(IF declared(2) # 0 THEN declared(2) ELSE Len(rows))
  IN [j \in 1 .. h |-> [i \in 1 .. w |->
        IF j \in DOMAIN rows /\ i \in DOMAIN rows[j] /\ rows[j][i] \in {"#", "o"}
        THEN rows[j][i] ELSE "."]]

Load(file) ==
  LET lines == ReadLines(file)
      end == HeaderEnd(lines)
      Text(key, k, default) == Value(lines, end, key, k, default)
  IN [edition |-> IF Text("edition", 1, "java") = "bedrock" THEN "bedrock" ELSE "java",
      seed |-> Text("seed", 1, DefaultFile.seed),
      y |-> Number[Text("y", 1, ToText(DefaultFile.y))],
      center_x |-> Text("center", 1, DefaultFile.center_x),
      center_z |-> Text("center", 2, DefaultFile.center_z),
      radius |-> Text("radius", 1, DefaultFile.radius),
      all_orientations |-> Text("orientations", 1, "all") # "exact",
      checkpoint |-> Text("checkpoint", 1, DefaultFile.checkpoint),
      stop_first |-> Text("stop_at_first", 1, "no") = "yes",
      grid |-> GridFrom(lines, end)]
=============================================================================
