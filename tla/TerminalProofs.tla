--------------------------- MODULE TerminalProofs ---------------------------
(* Theorems about Terminal, for every window, drawing and keystroke.         *)
EXTENDS Terminal, FiniteSetTheorems, SequenceTheorems, WellFoundedInduction, TLAPS

Modes == [raw : BOOLEAN, alt : BOOLEAN, cursor : BOOLEAN]

\* the terminal is as it was, field by field
Restored == ~tty.raw /\ ~tty.alt /\ tty.cursor

\* what leave() has undone when the steps `leaving' are still to come
Undone ==
  \/ leaving = LeaveSteps
  \/ leaving = <<"input", "flag">> /\ ~tty.alt /\ tty.cursor
  \/ leaving = <<"flag">> /\ Restored
  \/ leaving = <<>> /\ ~g_raw

\* The flag is taken down last, so that without it the terminal is as it was and
\* a signal within leave() may take it at its word.
IInv ==
  /\ tty \in Modes /\ g_raw \in BOOLEAN
  /\ at \in {"start", "hooks", "screen", "draw", "write", "key", "quit", "signal", "gone", "killed"}
  /\ at \in {"quit", "signal"} => Undone /\ (~g_raw => Restored)
  /\ at \in {"screen", "draw", "write", "key"} => g_raw
  /\ at \notin {"quit", "signal"} => leaving = <<>>
  /\ at = "gone" => Restored

\* In a terminal of the right type, its fields make it what it was.
LEMMA RestoredIsCooked == ASSUME tty \in Modes, Restored PROVE tty = Cooked
BY DEF Modes, Restored, Cooked

\* What each step of leave() does: the screen, the input and, last, the flag.
LEMMA LeaveStepCases ==
  ASSUME IInv, LeaveStep
  PROVE  \/ /\ leaving' = <<"input", "flag">> /\ g_raw' = g_raw
            /\ tty' = [tty EXCEPT !.alt = FALSE, !.cursor = TRUE]
         \/ /\ leaving = <<"input", "flag">> /\ leaving' = <<"flag">> /\ g_raw' = g_raw
            /\ tty' = [tty EXCEPT !.raw = FALSE]
         \/ /\ leaving = <<"flag">> /\ leaving' = <<>> /\ g_raw' = FALSE
            /\ tty' = tty
<1>1. leaving # <<>> /\ at \in {"quit", "signal"}
  BY DEF IInv, LeaveStep
<1>2. CASE leaving = LeaveSteps
  <2>1. Head(leaving) = "screen" /\ leaving' = <<"input", "flag">>
    BY <1>2 DEF LeaveStep, LeaveSteps
  <2>2. g_raw' = g_raw
    <3>1. g_raw' = (g_raw /\ "screen" # "flag")
      BY <2>1 DEF LeaveStep
    <3> QED BY <3>1 DEF IInv
  <2> QED BY <2>1, <2>2 DEF LeaveStep
<1>3. CASE leaving = <<"input", "flag">>
  <2>1. Head(leaving) = "input" /\ leaving' = <<"flag">>
    BY <1>3 DEF LeaveStep
  <2>2. g_raw' = g_raw
    <3>1. g_raw' = (g_raw /\ "input" # "flag")
      BY <2>1 DEF LeaveStep
    <3> QED BY <3>1 DEF IInv
  <2> QED BY <1>3, <2>1, <2>2 DEF LeaveStep
<1>4. CASE leaving = <<"flag">>
  <2>1. Head(leaving) = "flag" /\ leaving' = <<>>
    BY <1>4 DEF LeaveStep
  <2>2. g_raw' = FALSE
    <3>1. g_raw' = (g_raw /\ "flag" # "flag")
      BY <2>1 DEF LeaveStep
    <3> QED BY <3>1
  <2> QED BY <1>4, <2>1, <2>2 DEF LeaveStep
<1> QED BY <1>1, <1>2, <1>3, <1>4 DEF IInv, Undone

\* A step of leave() keeps the invariant: it undoes one more thing.
LEMMA LeaveStepKeeps == ASSUME IInv, LeaveStep PROVE IInv'
<1>1. at \in {"quit", "signal"} /\ at' = at
  BY DEF IInv, LeaveStep
<1>2. tty' \in Modes /\ g_raw' \in BOOLEAN
  BY LeaveStepCases DEF IInv, Modes
<1>3. Undone' /\ (~g_raw' => Restored')
  <2>1. CASE /\ leaving' = <<"input", "flag">> /\ g_raw' = g_raw
             /\ tty' = [tty EXCEPT !.alt = FALSE, !.cursor = TRUE]
    <3>1. ~tty'.alt /\ tty'.cursor /\ tty'.raw = tty.raw
      BY <2>1 DEF IInv, Modes
    <3> QED BY <1>1, <2>1, <3>1 DEF IInv, Undone, Restored
  <2>2. CASE /\ leaving = <<"input", "flag">> /\ leaving' = <<"flag">> /\ g_raw' = g_raw
             /\ tty' = [tty EXCEPT !.raw = FALSE]
    <3>1. ~tty.alt /\ tty.cursor
      BY <1>1, <2>2 DEF IInv, Undone, Restored, LeaveSteps
    <3>2. ~tty'.raw /\ ~tty'.alt /\ tty'.cursor
      BY <2>2, <3>1 DEF IInv, Modes
    <3> QED BY <2>2, <3>2 DEF Undone, Restored
  <2>3. CASE /\ leaving = <<"flag">> /\ leaving' = <<>> /\ g_raw' = FALSE /\ tty' = tty
    <3>1. Restored
      BY <1>1, <2>3 DEF IInv, Undone, LeaveSteps
    <3> QED BY <2>3, <3>1 DEF Undone, Restored
  <2> QED BY <2>1, <2>2, <2>3, LeaveStepCases
<1> QED BY <1>1, <1>2, <1>3 DEF IInv

\* leave() may begin anew at any step of the loop and of itself.
LEMMA LeaveBegins ==
  ASSUME IInv, Leave, at' \in {"quit", "signal"}, UNCHANGED <<g_raw, tty>>,
         at \in {"screen", "draw", "write", "key", "quit", "signal"}
  PROVE  IInv'
<1>1. CASE g_raw
  <2>1. leaving' = LeaveSteps
    BY <1>1 DEF Leave
  <2> QED BY <1>1, <2>1 DEF IInv, Undone, Restored
<1>2. CASE ~g_raw
  <2>1. leaving' = <<>> /\ Restored
    BY <1>2 DEF Leave, IInv
  <2> QED BY <1>2, <2>1 DEF IInv, Undone, Restored
<1> QED BY <1>1, <1>2

\* However rokktui ends once its hooks are set, also by signals in the middle of
\* leave() and of each other, the terminal is as it was.
THEOREM TerminalIsRestored == Spec => []TerminalRestored
<1>1. Init => IInv
  <2> SUFFICES ASSUME Init PROVE IInv
    OBVIOUS
  <2>1. at = "start" /\ leaving = <<>> /\ g_raw = FALSE /\ tty \in Modes
    BY DEF Init, Cooked, Modes
  <2> QED BY <2>1 DEF IInv
<1>2. IInv /\ [Next]_vars => IInv'
  <2> SUFFICES ASSUME IInv, [Next]_vars PROVE IInv'
    OBVIOUS
  <2>1. CASE EnterRaw
    BY <2>1 DEF IInv, EnterRaw, Modes, Restored
  <2>2. CASE EnterHooks
    BY <2>2 DEF IInv, EnterHooks, Restored
  <2>3. CASE EnterScreen
    BY <2>3 DEF IInv, EnterScreen, Modes, Restored
  <2>4. CASE LeaveStep
    BY <2>4, LeaveStepKeeps
  <2>5. CASE Exit
    BY <2>5 DEF IInv, Exit, Undone, LeaveSteps, Restored, mode
  <2>6. CASE Signal
    <3>1. CASE at \in {"start", "hooks"}
      BY <2>6, <3>1 DEF IInv, Signal, Restored
    <3>2. CASE at \notin {"start", "hooks"}
      BY <2>6, <3>2, LeaveBegins DEF Signal, IInv
    <3> QED BY <3>1, <3>2
  <2>7. CASE Draw
    BY <2>7 DEF IInv, Draw, mode, Restored
  <2>8. CASE Write
    BY <2>8 DEF IInv, Write, mode, Restored
  <2>9. CASE Read
    <3>1. CASE at' = "draw" /\ UNCHANGED leaving
      BY <2>9, <3>1 DEF IInv, Read, Restored
    <3>2. CASE at' = "quit" /\ Leave
      BY <2>9, <3>2, LeaveBegins DEF Read
    <3> QED BY <2>9, <3>1, <3>2 DEF Read
  <2>10. CASE Type
    BY <2>10 DEF IInv, Type, mode, Undone, Restored
  <2>11. CASE Resize
    BY <2>11 DEF IInv, Resize, mode, Undone, Restored
  <2>12. CASE UNCHANGED vars
    BY <2>12 DEF IInv, vars, mode, Undone, Restored
  <2> QED
    BY <2>1, <2>2, <2>3, <2>4, <2>5, <2>6, <2>7, <2>8, <2>9, <2>10, <2>11, <2>12 DEF Next
<1>3. IInv => TerminalRestored
  BY RestoredIsCooked DEF IInv, TerminalRestored
<1> QED BY <1>1, <1>2, <1>3, PTL DEF Spec

-----------------------------------------------------------------------------
(* Numbers                                                                 *)

\* A set of naturals that is not empty has a least element.
LEMMA Least ==
  ASSUME NEW S \in SUBSET Nat, S # {}
  PROVE  \E n \in S : \A m \in S : n <= m
<1> DEFINE R == {x \in Nat \X Nat : x[1] < x[2]}
<1>1. IsWellFoundedOn(R, Nat)
  <2>1. R = OpToRel(<, Nat)
    BY DEF OpToRel
  <2> QED BY <2>1, NatLessThanWellFounded
<1>2. PICK x \in S : \A y \in S : <<y, x>> \notin R
  <2> HIDE DEF R
  <2> QED BY <1>1, WFMin
<1>3. ASSUME NEW m \in S PROVE x <= m
  <2>1. <<m, x>> \in Nat \X Nat
    OBVIOUS
  <2>2. ~ (m < x)
    BY <1>2, <2>1
  <2> QED BY <2>2
<1> QED BY <1>3

\* The least of a set of naturals, as Min has it.
LEMMA MinIn ==
  ASSUME NEW S \in SUBSET Nat, S # {}
  PROVE  Min(S) \in S /\ \A m \in S : Min(S) <= m
<1>1. \E n \in S : \A m \in S : n <= m
  BY Least
<1> QED BY <1>1 DEF Min

\* The largest of a bounded set of naturals, as Max has it.
LEMMA MaxIn ==
  ASSUME NEW n \in Nat, NEW S \in SUBSET (1 .. n), S # {}
  PROVE  Max(S) \in S /\ \A m \in S : m <= Max(S)
<1> DEFINE U == {u \in Nat : \A m \in S : m <= u}
<1>1. n \in U
  OBVIOUS
<1>2. PICK u \in U : \A v \in U : u <= v
  <2>1. U \in SUBSET Nat /\ U # {}
    BY <1>1
  <2> HIDE DEF U
  <2> QED BY <2>1, Least
<1>3. u \in Nat /\ \A m \in S : m <= u
  BY <1>2
<1>4. u \in S
  <2>1. SUFFICES ASSUME u \notin S PROVE FALSE
    OBVIOUS
  <2>2. \A m \in S : m \in Nat /\ m >= 1 /\ m < u
    BY <1>3, <2>1
  <2>3. u - 1 \in Nat /\ \A m \in S : m <= u - 1
    <3>1. PICK m \in S : TRUE
      OBVIOUS
    <3>2. m \in Nat /\ m >= 1 /\ m < u /\ u \in Nat
      BY <1>3, <2>2
    <3>3. u - 1 \in Nat
      BY <3>2
    <3>4. ASSUME NEW k \in S PROVE k <= u - 1
      <4>1. k \in Nat /\ k < u
        BY <2>2
      <4> QED BY <3>2, <4>1
    <3> QED BY <3>3, <3>4
  <2>4. u - 1 \in U
    BY <2>3
  <2> QED BY <1>2, <1>3, <2>4
<1>5. \E m \in S : \A k \in S : m >= k
  BY <1>3, <1>4
<1>6. Max(S) \in S /\ \A k \in S : Max(S) >= k
  BY <1>5 DEF Max
<1> QED BY <1>6

\* Of two.
LEMMA OfTwo ==
  ASSUME NEW a \in Int, NEW b \in Int
  PROVE  /\ Max({a, b}) = IF a >= b THEN a ELSE b
         /\ Min({a, b}) = IF a <= b THEN a ELSE b
<1>1. \E x \in {a, b} : \A y \in {a, b} : x >= y
  OBVIOUS
<1>2. \E x \in {a, b} : \A y \in {a, b} : x <= y
  OBVIOUS
<1>3. Max({a, b}) \in {a, b} /\ \A y \in {a, b} : Max({a, b}) >= y
  BY <1>1 DEF Max
<1>4. Min({a, b}) \in {a, b} /\ \A y \in {a, b} : Min({a, b}) <= y
  BY <1>2 DEF Min
<1> QED BY <1>3, <1>4

-----------------------------------------------------------------------------
(* Rows                                                                    *)

Row == Seq(Glyphs)

\* Each glyph that takes room adds one.
LEMMA VisibleStep ==
  ASSUME NEW s, NEW i \in Nat
  PROVE  /\ Visible(s, i) \in Nat
         /\ Visible(s, 0) = 0
         /\ s[i + 1] \notin Colours => Visible(s, i + 1) = Visible(s, i) + 1
         /\ s[i + 1] \in Colours => Visible(s, i + 1) = Visible(s, i)
<1> DEFINE V(k) == {j \in 1 .. k : s[j] \notin Colours}
<1>1. IsFiniteSet(1 .. i)
  <2>1. 1 \in Int /\ i \in Int
    OBVIOUS
  <2> QED BY ONLY <2>1, FS_Interval
<1>2. IsFiniteSet(V(i)) /\ Cardinality(V(i)) \in Nat /\ i + 1 \notin V(i)
  <2>1. V(i) \in SUBSET (1 .. i) /\ i + 1 \notin 1 .. i
    OBVIOUS
  <2> HIDE DEF V
  <2> QED BY <1>1, <2>1, FS_Subset, FS_CardinalityType
<1>3. V(0) = {}
  OBVIOUS
<1>4. /\ s[i + 1] \notin Colours => V(i + 1) = V(i) \cup {i + 1}
      /\ s[i + 1] \in Colours => V(i + 1) = V(i)
  <2>1. 1 .. i + 1 = (1 .. i) \cup {i + 1}
    OBVIOUS
  <2> QED BY <2>1
<1>5. \A k : Visible(s, k) = Cardinality(V(k))
  BY DEF Visible
<1> HIDE DEF V
<1>6. Cardinality(V(i) \cup {i + 1}) = Cardinality(V(i)) + 1
  BY <1>2, FS_AddElement
<1> QED BY <1>2, <1>3, <1>4, <1>5, <1>6, FS_EmptySet

\* The room that is taken only grows, and grows where a glyph takes room.
LEMMA VisibleGrows ==
  ASSUME NEW s, NEW i \in Nat, NEW k \in Nat, i <= k
  PROVE  /\ Visible(s, i) <= Visible(s, k)
         /\ i < k /\ s[k] \notin Colours => Visible(s, i) < Visible(s, k)
<1> DEFINE V(n) == {j \in 1 .. n : s[j] \notin Colours}
<1>1. ASSUME NEW m \in Nat, i <= m PROVE Visible(s, i) <= Visible(s, m)
  <2>1. IsFiniteSet(1 .. m)
    <3>1. 1 \in Int /\ m \in Int
      OBVIOUS
    <3> QED BY ONLY <3>1, FS_Interval
  <2>2. V(i) \in SUBSET V(m) /\ V(m) \in SUBSET (1 .. m)
    BY <1>1
  <2>3. Visible(s, i) = Cardinality(V(i)) /\ Visible(s, m) = Cardinality(V(m))
    BY DEF Visible
  <2> HIDE DEF V
  <2>4. IsFiniteSet(V(m))
    BY <2>1, <2>2, FS_Subset
  <2>5. Cardinality(V(i)) <= Cardinality(V(m))
    BY <2>2, <2>4, FS_Subset
  <2> QED BY <2>3, <2>5
<1>2. ASSUME i < k, s[k] \notin Colours PROVE Visible(s, i) < Visible(s, k)
  <2>1. k - 1 \in Nat /\ i <= k - 1 /\ (k - 1) + 1 = k
    BY <1>2
  <2> DEFINE m == k - 1
  <2>2. m \in Nat /\ i <= m /\ m + 1 = k
    BY <2>1
  <2> HIDE DEF m
  <2>3. Visible(s, m + 1) = Visible(s, m) + 1 /\ Visible(s, m) \in Nat
    BY <1>2, <2>2, VisibleStep
  <2>4. Visible(s, i) <= Visible(s, m) /\ Visible(s, i) \in Nat
    BY <1>1, <2>2, VisibleStep
  <2> QED BY <2>2, <2>3, <2>4
<1> QED BY <1>1, <1>2

\* For every number of cells there is one glyph that fills the last of them.
LEMMA VisibleAt ==
  ASSUME NEW s, NEW k \in Nat, NEW n \in 1 .. Visible(s, k)
  PROVE  \E i \in 1 .. k : s[i] \notin Colours /\ Visible(s, i) = n
<1>1. Visible(s, k) \in Nat /\ n \in Nat /\ n >= 1 /\ n <= Visible(s, k)
  BY VisibleStep
<1> DEFINE S == {i \in Nat : Visible(s, i) >= n}
<1>2. k \in S
  BY <1>1
<1>3. PICK i \in S : \A m \in S : i <= m
  <2>1. S \in SUBSET Nat /\ S # {}
    BY <1>2
  <2> HIDE DEF S
  <2> QED BY <2>1, Least
<1>4. i \in Nat /\ Visible(s, i) >= n /\ i <= k /\ Visible(s, i) \in Nat
  BY <1>2, <1>3, VisibleStep
<1>5. i # 0
  BY <1>1, <1>4, VisibleStep
<1> DEFINE h == i - 1
<1>6. h \in Nat /\ h + 1 = i /\ ~ (i <= h)
  BY <1>4, <1>5
<1>7. h \notin S
  BY <1>3, <1>6
<1> HIDE DEF h
<1>8. Visible(s, h) \in Nat /\ Visible(s, h) < n
  BY <1>1, <1>6, <1>7, VisibleStep
<1>9. /\ s[i] \notin Colours => Visible(s, i) = Visible(s, h) + 1
      /\ s[i] \in Colours => Visible(s, i) = Visible(s, h)
  BY <1>6, VisibleStep
<1>10. s[i] \notin Colours /\ Visible(s, i) = n
  BY <1>1, <1>4, <1>8, <1>9
<1>11. i \in 1 .. k
  BY <1>4, <1>5
<1> QED BY <1>10, <1>11

\* There is only one.
LEMMA VisibleOnce ==
  ASSUME NEW s, NEW i \in Nat, NEW k \in Nat, s[i] \notin Colours, s[k] \notin Colours,
         Visible(s, i) = Visible(s, k)
  PROVE  i = k
<1>1. Visible(s, i) \in Nat /\ Visible(s, k) \in Nat
  BY VisibleStep
<1>2. ~ (i < k)
  BY <1>1, VisibleGrows
<1>3. ~ (k < i)
  BY <1>1, VisibleGrows
<1> QED BY <1>2, <1>3

\* Rows that begin alike look alike for so long.
LEMMA VisibleSame ==
  ASSUME NEW s, NEW t, NEW m \in Nat, \A j \in 1 .. m : t[j] = s[j], NEW i \in 0 .. m
  PROVE  Visible(t, i) = Visible(s, i)
<1>1. {j \in 1 .. i : t[j] \notin Colours} = {j \in 1 .. i : s[j] \notin Colours}
  OBVIOUS
<1> QED BY <1>1 DEF Visible

\* The colour of the glyph at i.
ColourAt(s, i) ==
  LET codes == {j \in 1 .. i : s[j] \in Colours} IN IF codes = {} THEN Reset ELSE s[Max(codes)]

\* The glyph that fills cell n.
GlyphAt(s, n) == CHOOSE i \in DOMAIN s : s[i] \notin Colours /\ Visible(s, i) = n

\* What a row fills.
LEMMA PaintedIs ==
  ASSUME NEW s \in Row
  PROVE  /\ DOMAIN Painted(s) = 1 .. Visible(s, Len(s))
         /\ \A n \in 1 .. Visible(s, Len(s)) :
              Painted(s)[n] = [char |-> s[GlyphAt(s, n)], colour |-> ColourAt(s, GlyphAt(s, n))]
BY DEF Painted, GlyphAt, ColourAt

\* The glyph that fills a cell is the one that does.
LEMMA GlyphIs ==
  ASSUME NEW s \in Row, NEW i \in 1 .. Len(s), s[i] \notin Colours
  PROVE  GlyphAt(s, Visible(s, i)) = i
<1> DEFINE c == GlyphAt(s, Visible(s, i))
<1>1. DOMAIN s = 1 .. Len(s)
  BY DEF Row
<1>2. c \in DOMAIN s /\ s[c] \notin Colours /\ Visible(s, c) = Visible(s, i)
  BY <1>1 DEF GlyphAt
<1> HIDE DEF c
<1>3. c \in Nat /\ i \in Nat
  BY <1>1, <1>2 DEF Row
<1>4. c = i
  BY <1>2, <1>3, VisibleOnce
<1> QED BY <1>4 DEF c

\* Rows that begin alike have the same colours for so long.
LEMMA ColourSame ==
  ASSUME NEW s, NEW t, NEW m \in Nat, \A j \in 1 .. m : t[j] = s[j], NEW i \in 1 .. m
  PROVE  ColourAt(t, i) = ColourAt(s, i)
<1> DEFINE codes == {j \in 1 .. i : s[j] \in Colours}
<1>1. {j \in 1 .. i : t[j] \in Colours} = codes
  OBVIOUS
<1>2. CASE codes = {}
  BY <1>1, <1>2 DEF ColourAt
<1>3. CASE codes # {}
  <2>1. codes \in SUBSET (1 .. i) /\ i \in Nat
    OBVIOUS
  <2>2. ColourAt(t, i) = t[Max(codes)] /\ ColourAt(s, i) = s[Max(codes)]
    BY <1>1, <1>3 DEF ColourAt
  <2> HIDE DEF codes
  <2>3. Max(codes) \in codes
    BY <1>3, <2>1, MaxIn
  <2>4. Max(codes) \in 1 .. m
    <3>1. Max(codes) \in 1 .. i
      BY <2>1, <2>3
    <3> HIDE DEF codes
    <3> DEFINE x == Max(codes)
    <3>2. x \in 1 .. i
      BY <3>1
    <3> HIDE DEF x
    <3>3. x \in 1 .. m
      BY <3>2
    <3> QED BY <3>3 DEF x
  <2> QED BY <2>2, <2>4
<1> QED BY <1>2, <1>3

\* clip_visible keeps the first cells of a row, in their colours.
LEMMA ClipKeeps ==
  ASSUME NEW s \in Row, NEW w \in Nat
  PROVE  /\ Clip(s, w) \in Row
         /\ DOMAIN Painted(Clip(s, w)) = {n \in DOMAIN Painted(s) : n <= w}
         /\ \A n \in DOMAIN Painted(Clip(s, w)) : Painted(Clip(s, w))[n] = Painted(s)[n]
<1> DEFINE over == {i \in DOMAIN s : Visible(s, i) > w}
           L == Len(s)
<1>1. L \in Nat /\ DOMAIN s = 1 .. L /\ \A i \in Nat : Visible(s, i) \in Nat
  BY VisibleStep DEF Row
<1>2. CASE over = {}
  <2>1. Clip(s, w) = s
    BY <1>2 DEF Clip
  <2>2. Visible(s, L) <= w
    <3>1. CASE L = 0
      BY <1>1, <3>1, VisibleStep
    <3>2. CASE L # 0
      <4>1. L \in DOMAIN s
        BY <1>1, <3>2
      <4>2. ~ (Visible(s, L) > w)
        BY <1>2, <4>1
      <4>3. Visible(s, L) \in Nat
        BY <1>1
      <4> HIDE DEF L
      <4> QED BY <4>2, <4>3
    <3> QED BY <3>1, <3>2
  <2>3. DOMAIN Painted(s) = 1 .. Visible(s, L)
    BY PaintedIs
  <2>4. Visible(s, L) \in Nat
    BY <1>1
  <2>5. DOMAIN Painted(s) = {n \in DOMAIN Painted(s) : n <= w}
    BY ONLY <2>2, <2>3, <2>4, w \in Nat
  <2> QED BY <2>1, <2>5
<1>3. CASE over # {}
  <2> DEFINE m == Min(over)
             h == m - 1
             t == Clip(s, w)
  <2>1. m \in over /\ \A i \in over : m <= i
    <3>1. over \in SUBSET Nat
      BY <1>1
    <3> HIDE DEF over
    <3> QED BY <1>3, <3>1, MinIn
  <2>2. t = Append(SubSeq(s, 1, h), Reset)
    BY <1>3 DEF Clip
  <2> HIDE DEF m
  <2>3. m \in 1 .. L /\ Visible(s, m) > w /\ h \in Nat /\ h + 1 = m /\ h <= L /\ ~ (m <= h)
    <3>1. m \in 1 .. L /\ Visible(s, m) > w
      BY <1>1, <2>1
    <3> HIDE DEF L
    <3>2. m \in Nat /\ m >= 1 /\ m <= L
      BY <1>1, <3>1
    <3> QED BY <1>1, <3>1, <3>2
  <2>4. Visible(s, h) <= w
    <3>1. CASE h = 0
      BY <3>1, VisibleStep
    <3>2. CASE h # 0
      <4> HIDE DEF L, h
      <4>1. h \in 1 .. L
        BY <1>1, <2>3, <3>2
      <4>2. h \notin over
        BY <2>1, <2>3
      <4>3. ~ (Visible(s, h) > w)
        BY <1>1, <4>1, <4>2
      <4>4. Visible(s, h) \in Nat
        BY <1>1, <2>3
      <4> HIDE DEF over
      <4> QED BY <4>3, <4>4
    <3> QED BY <3>1, <3>2
  <2> HIDE DEF over
  <2>5. SubSeq(s, 1, h) \in Row /\ Len(SubSeq(s, 1, h)) = h /\ \A j \in 1 .. h : SubSeq(s, 1, h)[j] = s[j]
    <3>1. 1 \in 1 .. L + 1 /\ h \in 0 .. L
      BY <1>1, <2>3
    <3> HIDE DEF h
    <3> QED BY <3>1, <2>3, SubSeqProperties DEF Row
  <2>6. t \in Row /\ Len(t) = m /\ t[m] = Reset /\ \A j \in 1 .. h : t[j] = s[j]
    <3>1. Reset \in Glyphs
      BY FrameAssumption
    <3> DEFINE u == SubSeq(s, 1, h)
    <3>2. u \in Seq(Glyphs) /\ Len(u) = h /\ \A j \in 1 .. h : u[j] = s[j]
      BY <2>5 DEF Row
    <3>3. t = Append(u, Reset)
      BY <2>2
    <3> HIDE DEF u, t, h
    <3>4. /\ t \in Seq(Glyphs) /\ Len(t) = Len(u) + 1 /\ t[Len(u) + 1] = Reset
          /\ \A j \in 1 .. Len(u) : t[j] = u[j]
      BY <3>1, <3>2, <3>3, AppendProperties
    <3> QED BY <2>3, <3>2, <3>4 DEF Row
  <2> HIDE DEF t, h
  <2>7. /\ s[m] \notin Colours => Visible(s, m) = Visible(s, h) + 1
        /\ s[m] \in Colours => Visible(s, m) = Visible(s, h)
    BY <2>3, VisibleStep
  <2>8. Visible(s, h) = w /\ s[m] \notin Colours
    <3>1. Visible(s, h) \in Nat /\ Visible(s, m) \in Nat
      BY <1>1, <2>3
    <3> QED BY <2>3, <2>4, <2>7, <3>1
  <2>9. \A i \in 0 .. h : Visible(t, i) = Visible(s, i)
    BY <2>3, <2>6, VisibleSame
  <2>10. Visible(t, Len(t)) = w
    <3>1. t[h + 1] \in Colours
      BY <2>3, <2>6, FrameAssumption
    <3>2. Visible(t, h + 1) = Visible(t, h)
      BY <2>3, <3>1, VisibleStep
    <3>3. h \in 0 .. h
      BY <2>3
    <3> QED BY <2>3, <2>6, <2>8, <2>9, <3>2, <3>3
  <2>11. w <= Visible(s, L)
    <3>1. Visible(s, m) <= Visible(s, L)
      BY <1>1, <2>3, VisibleGrows
    <3> QED BY <1>1, <2>3, <3>1
  <2>12. DOMAIN Painted(t) = 1 .. w /\ DOMAIN Painted(s) = 1 .. Visible(s, L)
    BY <2>6, <2>10, PaintedIs
  <2>13. ASSUME NEW n \in 1 .. w PROVE Painted(t)[n] = Painted(s)[n]
    <3>1. PICK i \in 1 .. h : s[i] \notin Colours /\ Visible(s, i) = n
      BY <2>3, <2>8, VisibleAt
    <3>2. i \in 1 .. L /\ i \in 1 .. Len(t) /\ t[i] = s[i] /\ Visible(t, i) = n
      BY <1>1, <2>3, <2>6, <2>9, <3>1
    <3>3. GlyphAt(s, n) = i
      BY <3>1, <3>2, GlyphIs
    <3>4. GlyphAt(t, n) = i
      BY <2>6, <3>1, <3>2, GlyphIs
    <3>5. ColourAt(t, i) = ColourAt(s, i)
      BY <2>3, <2>6, ColourSame
    <3>6. Painted(s)[n] = [char |-> s[i], colour |-> ColourAt(s, i)]
      <4>1. n \in 1 .. Visible(s, Len(s))
        BY <1>1, <2>11
      <4> QED BY <3>3, <4>1, PaintedIs
    <3>7. Painted(t)[n] = [char |-> t[i], colour |-> ColourAt(t, i)]
      <4>1. n \in 1 .. Visible(t, Len(t))
        BY <2>10
      <4> QED BY <2>6, <3>4, <4>1, PaintedIs
    <3> QED BY <3>2, <3>5, <3>6, <3>7
  <2>14. {n \in 1 .. Visible(s, L) : n <= w} = 1 .. w
    <3>1. Visible(s, L) \in Nat /\ w \in Nat /\ w <= Visible(s, L)
      BY <1>1, <2>11
    <3>2. \A n : n \in 1 .. Visible(s, L) /\ n <= w <=> n \in 1 .. w
      BY ONLY <3>1
    <3> QED BY ONLY <3>2
  <2> QED BY <2>6, <2>12, <2>13, <2>14 DEF t
<1> QED BY <1>2, <1>3

-----------------------------------------------------------------------------
(* Frames                                                                  *)

FrameType == [cur : Seq(Row), prev : Seq(Row), partial : Row, full : BOOLEAN,
              size : Size, prevSize : Size]

\* what a row leaves in the cell n, and rows in the cells of a window
CellIn(row, n) == IF n \in DOMAIN Painted(row) THEN Painted(row)[n] ELSE Empty
RowAt(rows, r) == IF r \in DOMAIN rows THEN rows[r] ELSE <<>>
Shown(rows, size) == [c \in Cells(size) |-> CellIn(RowAt(rows, c[1]), c[2])]

\* An empty row is blank.
LEMMA EmptyRow == \A n : CellIn(<<>>, n) = Empty
<1>1. <<>> \in Row /\ Len(<<>>) = 0
  BY DEF Row
<1>2. Visible(<<>>, 0) = 0
  BY VisibleStep
<1>3. DOMAIN Painted(<<>>) = {}
  BY <1>1, <1>2, PaintedIs
<1> QED BY <1>3 DEF CellIn

\* The rows of a frame that fit, clipped.
LEMMA RowsAre ==
  ASSUME NEW f \in FrameType, NEW e, e = Ended(f.cur, f.partial)
  PROVE  /\ e \in Seq(Row) /\ Rows(f) \in Seq(Row)
         /\ \A r \in DOMAIN Rows(f) : r \in 1 .. f.size.rows
         /\ \A r \in 1 .. f.size.rows :
              RowAt(Rows(f), r) = IF r \in DOMAIN e THEN Clip(e[r], Width(f.size)) ELSE <<>>
<1>1. /\ f.cur \in Seq(Row) /\ f.partial \in Row
      /\ f.size.rows \in Nat \ {0} /\ f.size.cols \in Nat \ {0}
  BY DEF FrameType, Size
<1>2. e \in Seq(Row)
  BY <1>1, AppendProperties DEF Ended
<1> DEFINE h == Height(f.size)
           w == Width(f.size)
           n == Min({Len(e), h})
<1>3. h = f.size.rows /\ w \in Nat
  <2>1. 1 \in Int /\ f.size.rows \in Int /\ f.size.cols - 1 \in Int
    BY <1>1
  <2>2. h = (IF 1 >= f.size.rows THEN 1 ELSE f.size.rows)
    BY <2>1, OfTwo DEF Height
  <2>3. w = (IF 1 >= f.size.cols - 1 THEN 1 ELSE f.size.cols - 1)
    BY <2>1, OfTwo DEF Width
  <2> HIDE DEF h, w
  <2> QED BY <1>1, <2>2, <2>3
<1> HIDE DEF h, w
<1>4. n = (IF Len(e) <= h THEN Len(e) ELSE h) /\ Len(e) \in Nat /\ DOMAIN e = 1 .. Len(e)
  <2>1. Len(e) \in Int /\ h \in Int
    BY <1>1, <1>2, <1>3
  <2>2. n = (IF Len(e) <= h THEN Len(e) ELSE h)
    BY <2>1, OfTwo
  <2> QED BY <1>2, <2>2
<1>5. Rows(f) = [r \in 1 .. n |-> Clip(e[r], w)]
  BY DEF Rows, h, w
<1> HIDE DEF n
<1>6. n \in Nat /\ \A r \in 1 .. n : r \in DOMAIN e /\ r \in 1 .. f.size.rows
  BY <1>1, <1>3, <1>4
<1>7. \A r \in 1 .. n : Clip(e[r], w) \in Row
  <2> TAKE r \in 1 .. n
  <2>1. e[r] \in Row
    BY <1>2, <1>6
  <2> QED BY <1>3, <2>1, ClipKeeps
<1>8. Rows(f) \in Seq(Row) /\ DOMAIN Rows(f) = 1 .. n
  BY <1>5, <1>6, <1>7
<1>9. ASSUME NEW r \in 1 .. f.size.rows
      PROVE  RowAt(Rows(f), r) = IF r \in DOMAIN e THEN Clip(e[r], w) ELSE <<>>
  <2>1. r \in 1 .. n <=> r \in DOMAIN e
    BY <1>1, <1>3, <1>4
  <2> QED BY <1>5, <1>8, <2>1 DEF RowAt
<1> QED BY <1>2, <1>6, <1>8, <1>9 DEF w

\* Rows that were clipped show the picture that was meant.
LEMMA RowsShow ==
  ASSUME NEW f \in FrameType
  PROVE  Shown(Rows(f), f.size) = Picture(Ended(f.cur, f.partial), f.size)
<1> DEFINE e == Ended(f.cur, f.partial)
           w == Width(f.size)
<1>1. /\ e \in Seq(Row)
      /\ \A r \in 1 .. f.size.rows : RowAt(Rows(f), r) = IF r \in DOMAIN e THEN Clip(e[r], w) ELSE <<>>
  BY RowsAre
<1>2. w \in Nat
  <2>1. f.size.cols \in Nat \ {0}
    BY DEF FrameType, Size
  <2>2. 1 \in Int /\ f.size.cols - 1 \in Int
    BY <2>1
  <2>3. w = (IF 1 >= f.size.cols - 1 THEN 1 ELSE f.size.cols - 1)
    BY <2>2, OfTwo DEF Width
  <2> HIDE DEF w
  <2> QED BY <2>1, <2>3
<1> HIDE DEF e, w
<1>3. ASSUME NEW c \in Cells(f.size)
      PROVE  CellIn(RowAt(Rows(f), c[1]), c[2]) =
               IF c[1] \in DOMAIN e /\ c[2] <= w /\ c[2] \in DOMAIN Painted(e[c[1]])
               THEN Painted(e[c[1]])[c[2]] ELSE Empty
  <2>1. c[1] \in 1 .. f.size.rows
    BY DEF Cells
  <2>2. CASE c[1] \in DOMAIN e
    <3> DEFINE s == e[c[1]]
    <3>1. s \in Row
      BY <1>1, <2>2
    <3>2. RowAt(Rows(f), c[1]) = Clip(s, w)
      BY <1>1, <2>1, <2>2
    <3> HIDE DEF s
    <3>3. /\ DOMAIN Painted(Clip(s, w)) = {n \in DOMAIN Painted(s) : n <= w}
          /\ \A n \in DOMAIN Painted(Clip(s, w)) : Painted(Clip(s, w))[n] = Painted(s)[n]
      BY <1>2, <3>1, ClipKeeps
    <3>4. CellIn(Clip(s, w), c[2]) = IF c[2] <= w /\ c[2] \in DOMAIN Painted(s)
                                     THEN Painted(s)[c[2]] ELSE Empty
      BY <3>3 DEF CellIn
    <3> QED BY <2>2, <3>2, <3>4 DEF s
  <2>3. CASE c[1] \notin DOMAIN e
    BY <1>1, <2>1, <2>3, EmptyRow
  <2> QED BY <2>2, <2>3
<1>4. Picture(e, f.size) =
        [c \in Cells(f.size) |-> IF c[1] \in DOMAIN e /\ c[2] <= w /\ c[2] \in DOMAIN Painted(e[c[1]])
                                 THEN Painted(e[c[1]])[c[2]] ELSE Empty]
  BY DEF Picture, w
<1> QED BY <1>3, <1>4 DEF Shown, e

\* A row that was clipped leaves the last column free, if there is more than one.
LEMMA RowsEndBefore ==
  ASSUME NEW f \in FrameType, f.size.cols > 1, NEW r \in 1 .. f.size.rows,
         NEW n \in DOMAIN Painted(RowAt(Rows(f), r))
  PROVE  n < f.size.cols
<1> DEFINE e == Ended(f.cur, f.partial)
           w == Width(f.size)
<1>1. e \in Seq(Row) /\ RowAt(Rows(f), r) = IF r \in DOMAIN e THEN Clip(e[r], w) ELSE <<>>
  BY RowsAre
<1>2. w = f.size.cols - 1 /\ w \in Nat /\ f.size.cols \in Nat
  <2>1. f.size.cols \in Nat \ {0}
    BY DEF FrameType, Size
  <2>2. 1 \in Int /\ f.size.cols - 1 \in Int
    BY <2>1
  <2>3. w = (IF 1 >= f.size.cols - 1 THEN 1 ELSE f.size.cols - 1)
    BY <2>2, OfTwo DEF Width
  <2> HIDE DEF w
  <2> QED BY <2>1, <2>3
<1> HIDE DEF e, w
<1>3. CASE r \in DOMAIN e
  <2> DEFINE s == e[r]
  <2>1. s \in Row /\ RowAt(Rows(f), r) = Clip(s, w)
    BY <1>1, <1>3
  <2> HIDE DEF s
  <2>2. DOMAIN Painted(Clip(s, w)) = {i \in DOMAIN Painted(s) : i <= w} /\ DOMAIN Painted(s) = 1 .. Visible(s, Len(s))
    BY <1>2, <2>1, ClipKeeps, PaintedIs
  <2>3. n \in Int /\ n <= w
    BY <2>1, <2>2
  <2> QED BY <1>2, <2>3
<1>4. CASE r \notin DOMAIN e
  <2>1. <<>> \in Row /\ Len(<<>>) = 0
    BY DEF Row
  <2>2. Visible(<<>>, 0) = 0
    BY VisibleStep
  <2>3. DOMAIN Painted(<<>>) = {}
    BY <2>1, <2>2, PaintedIs
  <2> QED BY <1>1, <1>4, <2>3
<1> QED BY <1>3, <1>4

\* flush() writes what makes a screen with the last frame, or any before a full
\* repaint, show this one, in a window of more than one column.
LEMMA FlushShows ==
  ASSUME NEW f \in FrameType, f.size.cols > 1, NEW before, ~Full(f) => before = Shown(f.prev, f.size)
  PROVE  Show(before, Flush(f), f.size) = Shown(Rows(f), f.size)
<1> DEFINE rows == Rows(f)
           Changed(r) == IF Full(f) THEN RowAt(rows, r) # <<>>
                         ELSE r \notin DOMAIN f.prev \/ f.prev[r] # RowAt(rows, r)
           written == {v \in Visited(f) : Changed(v)}
<1>1. Flush(f) = [clear |-> Full(f), rows |-> [r \in written |-> RowAt(rows, r)]]
  BY DEF Flush, RowAt
<1>2. rows \in Seq(Row) /\ f.prev \in Seq(Row)
  BY RowsAre DEF FrameType
<1> HIDE DEF rows
<1>3. \A r \in Nat \ {0} : r \notin Visited(f) =>
        r \notin DOMAIN rows /\ (~Full(f) => r \notin DOMAIN f.prev)
  <2> DEFINE p == IF Full(f) THEN 0 ELSE Len(f.prev)
  <2>1. Len(rows) \in Nat /\ p \in Nat /\ DOMAIN rows = 1 .. Len(rows) /\ DOMAIN f.prev = 1 .. Len(f.prev)
    BY <1>2
  <2>2. Visited(f) = 1 .. Max({Len(rows), p})
    BY DEF Visited, rows
  <2>3. ~Full(f) => p = Len(f.prev)
    OBVIOUS
  <2> HIDE DEF p
  <2>4. Max({Len(rows), p}) = IF Len(rows) >= p THEN Len(rows) ELSE p
    <3>1. Len(rows) \in Int /\ p \in Int
      BY <2>1
    <3> QED BY <3>1, OfTwo
  <2> QED BY <2>1, <2>2, <2>3, <2>4
<1>4. ASSUME NEW c \in Cells(f.size)
      PROVE  Show(before, Flush(f), f.size)[c] = CellIn(RowAt(rows, c[1]), c[2])
  <2> DEFINE r == c[1]
  <2>1. r \in Nat \ {0}
    BY DEF Cells
  <2>2. CASE r \in written
    <3>1. r \in 1 .. f.size.rows
      BY DEF Cells
    <3>2. c[2] \in DOMAIN Painted(RowAt(rows, r)) => c[2] < f.size.cols
      BY <3>1, RowsEndBefore DEF rows
    <3> QED BY <1>1, <2>2, <3>2 DEF Show, CellIn
  <2>3. CASE r \notin written /\ Full(f)
    <3>1. Show(before, Flush(f), f.size)[c] = Empty
      BY <1>1, <2>3 DEF Show
    <3>2. RowAt(rows, r) = <<>>
      BY <1>3, <2>1, <2>3 DEF RowAt
    <3> QED BY <3>1, <3>2, EmptyRow
  <2>4. CASE r \notin written /\ ~Full(f)
    <3>1. Show(before, Flush(f), f.size)[c] = before[c]
      BY <1>1, <2>4 DEF Show
    <3>2. before[c] = CellIn(RowAt(f.prev, r), c[2])
      BY <2>4 DEF Shown
    <3>3. RowAt(f.prev, r) = RowAt(rows, r)
      BY <1>3, <2>1, <2>4 DEF RowAt
    <3> QED BY <3>1, <3>2, <3>3
  <2> QED BY <2>2, <2>3, <2>4
<1>5. Show(before, Flush(f), f.size) =
        [c \in Cells(f.size) |-> Show(before, Flush(f), f.size)[c]]
  BY DEF Show
<1> QED BY <1>4, <1>5 DEF Shown, rows

-----------------------------------------------------------------------------
(* The screen                                                              *)

\* nothing has disturbed the screen that a frame could still build on
Trusted == ~resized /\ ~missed /\ window.cols > 1

\* What is known of the screen while the loop goes round: after a frame is written
\* the screen has its rows until the window is resized.  A resize is noticed by the
\* frame drawn next if the window is not of the size of the frame before; if it is
\* again of that size, nothing is known until a later resize is noticed.
ScreenInv ==
  /\ window \in Size /\ frame \in FrameType /\ resized \in BOOLEAN /\ missed \in BOOLEAN
  /\ at \in {"start", "hooks", "screen"} => frame.full
  /\ at = "write" => /\ drawn = Ended(frame.cur, frame.partial)
                     /\ window # frame.size => resized
  /\ at \in {"draw", "key"} /\ ~frame.full => (window # frame.prevSize => resized)
  /\ (at \in {"draw", "write", "key"} /\ ~frame.full /\ window = frame.prevSize /\ Trusted)
       => screen = Shown(frame.prev, window)
  /\ at = "key" /\ Trusted => screen = Picture(drawn, window)

\* A frame begins for the size of the window.
LEMMA DrawKeeps == ASSUME ScreenInv, Draw PROVE ScreenInv'
<1>1. PICK d \in Drawings : /\ frame' = Drawn(Begin(frame, window), d[1], d[2])
                            /\ drawn' = Ended(d[1], d[2])
  BY DEF Draw
<1>2. d[1] \in Seq(Row) /\ d[2] \in Row
  BY TerminalAssumption DEF Row
<1>3. frame' = [frame EXCEPT !.size = window, !.cur = d[1], !.partial = d[2]]
  BY <1>1 DEF Drawn, Begin, ScreenInv, FrameType
<1>4. /\ frame' \in FrameType /\ frame'.cur = d[1] /\ frame'.partial = d[2] /\ frame'.size = window
      /\ frame'.full = frame.full /\ frame'.prev = frame.prev /\ frame'.prevSize = frame.prevSize
  BY <1>2, <1>3 DEF ScreenInv, FrameType
<1>5. /\ at = "draw" /\ at' = "write" /\ resized' = FALSE /\ window' = window /\ screen' = screen
      /\ missed' = ((resized \/ missed) /\ ~frame.full /\ window = frame.prevSize)
  BY DEF Draw
<1>6. ASSUME ~frame'.full, window' = frame'.prevSize, Trusted'
      PROVE  screen' = Shown(frame'.prev, window')
  <2>1. ~frame.full /\ window = frame.prevSize
    BY <1>4, <1>5, <1>6
  <2>2. Trusted /\ ~frame.full /\ window = frame.prevSize
    <3>1. ~resized /\ ~missed
      BY <1>5, <1>6, <2>1, Zenon DEF Trusted
    <3> QED BY <1>4, <1>5, <1>6, <3>1 DEF Trusted
  <2>3. screen = Shown(frame.prev, window)
    BY <1>5, <2>2 DEF ScreenInv
  <2> QED BY <1>4, <1>5, <2>3
<1>7. missed' \in BOOLEAN /\ resized' \in BOOLEAN
  BY <1>5, Zenon
<1>8. window' \in Size /\ drawn' = Ended(frame'.cur, frame'.partial) /\ window' = frame'.size
  BY <1>1, <1>4, <1>5 DEF ScreenInv
<1>9. at' \notin {"start", "hooks", "screen"} /\ at' \notin {"draw", "key"} /\ at' # "key"
  BY <1>5
<1> QED BY ONLY <1>4, <1>6, <1>7, <1>8, <1>9, Zenon DEF ScreenInv

\* Writing a frame shows it, if the window has kept its size and what the frame builds on is there.
LEMMA WriteKeeps == ASSUME ScreenInv, Write PROVE ScreenInv'
<1>1. /\ at = "write" /\ at' = "key" /\ window' = window /\ drawn' = drawn
      /\ resized' = resized /\ missed' = missed
      /\ frame' = Flushed(frame)
      /\ screen' = IF window = frame.size THEN Show(screen, Flush(frame), window) ELSE Garbled(window)
  BY DEF Write
<1>2. frame \in FrameType /\ window \in Size /\ (window # frame.size => resized)
  BY <1>1 DEF ScreenInv
<1>3. Rows(frame) \in Seq(Row)
  BY <1>2, RowsAre
<1>4. /\ frame' \in FrameType /\ frame'.prev = Rows(frame) /\ frame'.prevSize = frame.size /\ frame'.full = FALSE
  <2>1. <<>> \in Seq(Row) /\ <<>> \in Row
    BY DEF Row
  <2> QED BY <1>1, <1>2, <1>3, <2>1 DEF Flushed, FrameType
<1>5. ASSUME Trusted
      PROVE  screen' = Shown(Rows(frame), window) /\ screen' = Picture(drawn, window)
  <2>1. window = frame.size /\ frame.size.cols > 1 /\ screen' = Show(screen, Flush(frame), frame.size)
    BY <1>1, <1>2, <1>5 DEF Trusted
  <2>2. ~Full(frame) => screen = Shown(frame.prev, frame.size)
    BY <1>1, <1>5, <2>1 DEF Full, ScreenInv
  <2>3. screen' = Shown(Rows(frame), frame.size)
    BY <1>2, <2>1, <2>2, FlushShows
  <2>4. drawn = Ended(frame.cur, frame.partial)
    BY <1>1 DEF ScreenInv
  <2> QED BY <1>2, <2>1, <2>3, <2>4, RowsShow
<1>6. Trusted' <=> Trusted
  BY <1>1 DEF Trusted
<1>7. window' \in Size /\ resized' \in BOOLEAN /\ missed' \in BOOLEAN
  BY <1>1, Zenon DEF ScreenInv
<1>8. window' # frame'.prevSize => resized'
  BY <1>1, <1>2, <1>4, Zenon
<1>9. Trusted' => screen' = Shown(frame'.prev, window') /\ screen' = Picture(drawn', window')
  BY <1>1, <1>4, <1>5, <1>6, Zenon
<1>10. at' \notin {"start", "hooks", "screen"} /\ at' # "write"
  BY <1>1
<1> QED BY ONLY <1>4, <1>7, <1>8, <1>9, <1>10, Zenon DEF ScreenInv

\* Once a frame is written the screen shows it and nothing of the frames before,
\* unless the window was resized since the frame was begun, or resized and back
\* between two frames with no full repaint since (frame.hpp:1-10): for all windows
\* of more than one column, and rows of any length and colours.
THEOREM ScreenShowsFrame == Spec => []ScreenIsFrame
<1>1. Init => ScreenInv
  <2> SUFFICES ASSUME Init PROVE ScreenInv
    OBVIOUS
  <2>1. <<>> \in Seq(Row) /\ <<>> \in Row /\ [cols |-> 80, rows |-> 24] \in Size
    BY DEF Row, Size
  <2>2. frame \in FrameType /\ frame.full
    BY <2>1 DEF Init, NewFrame, FrameType
  <2>3. window \in Size /\ at = "start" /\ resized = FALSE /\ missed = FALSE
    BY TerminalAssumption DEF Init
  <2>4. at \notin {"draw", "write", "key"} /\ at # "key" /\ at # "write" /\ at \notin {"draw", "key"}
    BY <2>3
  <2>5. window \in Size /\ frame \in FrameType /\ resized \in BOOLEAN /\ missed \in BOOLEAN
    BY <2>2, <2>3
  <2> QED BY ONLY <2>2, <2>4, <2>5, Zenon DEF ScreenInv
<1>2. ScreenInv /\ [Next]_vars => ScreenInv'
  <2> SUFFICES ASSUME ScreenInv, [Next]_vars PROVE ScreenInv'
    OBVIOUS
  <2>1. CASE EnterRaw
    BY <2>1 DEF ScreenInv, Trusted, EnterRaw, view
  <2>2. CASE EnterHooks
    BY <2>2 DEF ScreenInv, Trusted, EnterHooks, view
  <2>3. CASE EnterScreen
    BY <2>3 DEF ScreenInv, Trusted, EnterScreen
  <2>4. CASE LeaveStep
    BY <2>4 DEF ScreenInv, Trusted, LeaveStep, view
  <2>5. CASE Exit
    BY <2>5 DEF ScreenInv, Trusted, Exit, view
  <2>6. CASE Signal
    <3>1. at' \in {"killed", "signal"} /\ UNCHANGED <<window, screen, frame, drawn, resized, missed>>
      BY <2>6 DEF Signal, view
    <3>2. /\ at' \notin {"start", "hooks", "screen"} /\ at' # "write" /\ at' \notin {"draw", "key"}
          /\ at' \notin {"draw", "write", "key"} /\ at' # "key"
      BY <3>1
    <3>3. window' \in Size /\ frame' \in FrameType /\ resized' \in BOOLEAN /\ missed' \in BOOLEAN
      BY <3>1, Zenon DEF ScreenInv
    <3> QED BY ONLY <3>2, <3>3, Zenon DEF ScreenInv
  <2>7. CASE Draw
    BY <2>7, DrawKeeps
  <2>8. CASE Write
    BY <2>8, WriteKeeps
  <2>9. CASE Read
    <3>1. at = "key" /\ at' \in {"draw", "quit"} /\ UNCHANGED <<window, screen, frame, drawn, resized, missed>>
      BY <2>9 DEF Read, view
    <3>2. /\ at \in {"draw", "key"} /\ at \in {"draw", "write", "key"}
          /\ at' \notin {"start", "hooks", "screen"} /\ at' # "write" /\ at' # "key"
      BY <3>1
    <3>3. /\ window' \in Size /\ frame' \in FrameType /\ resized' \in BOOLEAN /\ missed' \in BOOLEAN
          /\ ~frame'.full => (window' # frame'.prevSize => resized')
          /\ (~frame'.full /\ window' = frame'.prevSize /\ Trusted') => screen' = Shown(frame'.prev, window')
      <4>1. Trusted' <=> Trusted
        BY <3>1 DEF Trusted
      <4> QED BY ONLY ScreenInv, <3>1, <3>2, <4>1, Zenon DEF ScreenInv
    <3> QED BY ONLY <3>2, <3>3, Zenon DEF ScreenInv
  <2>10. CASE Type
    BY <2>10 DEF ScreenInv, Trusted, Type, view
  <2>11. CASE Resize
    <3>1. window' \in Size /\ resized' = TRUE /\ resized' \in BOOLEAN
      BY <2>11, TerminalAssumption DEF Resize
    <3>2. at' = at /\ frame' = frame /\ drawn' = drawn /\ missed' = missed /\ at \in {"draw", "write", "key"}
      BY <2>11 DEF Resize
    <3>3. frame' \in FrameType /\ at' \notin {"start", "hooks", "screen"}
      BY <3>2 DEF ScreenInv
    <3>4. missed' \in BOOLEAN
      BY <3>2, Zenon DEF ScreenInv
    <3>5. at' = "write" => drawn' = Ended(frame'.cur, frame'.partial)
      BY <3>2, Zenon DEF ScreenInv
    <3>6. ~Trusted'
      BY <3>1, Zenon DEF Trusted
    <3> QED BY ONLY <3>1, <3>3, <3>4, <3>5, <3>6, Zenon DEF ScreenInv
  <2>12. CASE UNCHANGED vars
    BY <2>12 DEF ScreenInv, Trusted, vars, view
  <2> QED
    BY <2>1, <2>2, <2>3, <2>4, <2>5, <2>6, <2>7, <2>8, <2>9, <2>10, <2>11, <2>12 DEF Next
<1>3. ScreenInv => ScreenIsFrame
  BY DEF ScreenInv, Trusted, ScreenIsFrame, Faithful
<1> QED BY <1>1, <1>2, <1>3, PTL DEF Spec

-----------------------------------------------------------------------------
(* Keys                                                                    *)

\* The rest of a sequence.
LEMMA RestIs ==
  ASSUME NEW S, NEW a \in Seq(S), NEW m \in Nat, m <= Len(a), NEW r, r = SubSeq(a, m + 1, Len(a))
  PROVE  r \in Seq(S) /\ Len(r) = Len(a) - m /\ \A i \in 1 .. Len(a) - m : r[i] = a[i + m]
OBVIOUS

\* What is left of a burst once its beginning is taken.
LEMMA Rest ==
  ASSUME NEW S, NEW a \in Seq(S), NEW b \in Seq(S), NEW n, n = Len(a)
  PROVE  /\ a \o b \in Seq(S) /\ Len(a \o b) = Len(a) + Len(b)
         /\ \A i \in 1 .. Len(a) : (a \o b)[i] = a[i]
         /\ \A i \in 1 .. Len(b) : (a \o b)[i + Len(a)] = b[i]
         /\ SubSeq(a \o b, n + 1, Len(a \o b)) = b
<1>1. /\ a \o b \in Seq(S) /\ Len(a \o b) = Len(a) + Len(b) /\ Len(a) \in Nat /\ Len(b) \in Nat
      /\ \A i \in 1 .. Len(a) : (a \o b)[i] = a[i]
      /\ \A i \in 1 .. Len(b) : (a \o b)[i + Len(a)] = b[i]
  OBVIOUS
<1> DEFINE c == a \o b
           r == SubSeq(c, n + 1, Len(c))
<1>2. c \in Seq(S) /\ Len(c) = n + Len(b) /\ n \in Nat /\ Len(b) \in Nat
  BY <1>1
<1>3. \A i \in 1 .. Len(b) : c[i + n] = b[i]
  BY <1>1
<1> HIDE DEF c
<1>4. r \in Seq(S) /\ Len(r) = Len(b) /\ \A i \in 1 .. Len(b) : r[i] = c[i + n]
  BY <1>2
<1> HIDE DEF r
<1>5. r = b
  <2>1. r \in Seq(S) /\ Len(r) = Len(b) /\ \A i \in 1 .. Len(r) : r[i] = b[i]
    BY <1>3, <1>4
  <2> QED BY ONLY <2>1, b \in Seq(S), SeqEqual
<1> QED BY <1>1, <1>5 DEF r, c

\* The first byte that is no parameter.
LEMMA FinalIs ==
  ASSUME NEW b \in Seq(Byte), NEW n \in 1 .. Len(b), b[n] \notin Params, \A i \in 1 .. n - 1 : b[i] \in Params
  PROVE  SelectInSeq(b, LAMBDA c : c \notin Params) = n
<1> DEFINE I == {i \in 1 .. Len(b) : b[i] \notin Params}
<1>1. n \in I /\ I \in SUBSET Nat /\ \A m \in I : n <= m
  <2>1. \A m \in 1 .. Len(b) : m < n => m \in 1 .. n - 1
    OBVIOUS
  <2> QED BY <2>1
<1>2. SelectInSeq(b, LAMBDA c : c \notin Params) = IF I # {} THEN Min(I) ELSE 0
  BY DEF SelectInSeq
<1> HIDE DEF I
<1>3. Min(I) \in I /\ \A m \in I : Min(I) <= m
  BY <1>1, MinIn
<1>4. Min(I) = n
  <2>1. Min(I) \in Nat /\ n \in Nat /\ Min(I) <= n /\ n <= Min(I)
    BY <1>1, <1>3
  <2> QED BY ONLY <2>1
<1> QED BY <1>1, <1>2, <1>4

\* What FoldLeft makes of digits, for each set of their places.
Reads(a, f) ==
  f = [s \in SUBSET DOMAIN a |-> IF s = {} THEN 0
                                 ELSE LET x == Max(s) IN 10 * f[s \ {x}] + (a[x] - 48)]

\* The largest of the places of one digit or two.
LEMMA MaxOfTwo == Max({1}) = 1 /\ Max({2}) = 2 /\ Max({1, 2}) = 2
<1>1. {1} \in SUBSET (1 .. 2) /\ {2} \in SUBSET (1 .. 2) /\ {1, 2} \in SUBSET (1 .. 2) /\ 2 \in Nat
  OBVIOUS
<1>2. Max({1}) \in {1}
  BY <1>1, MaxIn
<1>3. Max({2}) \in {2}
  BY <1>1, MaxIn
<1>4. Max({1, 2}) \in {1, 2} /\ 2 <= Max({1, 2})
  BY <1>1, MaxIn
<1> QED BY <1>2, <1>3, <1>4

\* There is such a function for one digit or two.
LEMMA ReadsExists ==
  ASSUME NEW a \in Seq(Byte), Len(a) \in 1 .. 2
  PROVE  \E f : Reads(a, f)
<1> DEFINE d(i) == a[i] - 48
           h == [s \in SUBSET (1 .. Len(a)) |->
                   CASE s = {} -> 0 [] s = {1} -> 10 * 0 + d(1) [] s = {2} -> 10 * 0 + d(2)
                     [] OTHER -> 10 * (10 * 0 + d(1)) + d(2)]
<1>1. DOMAIN a = 1 .. Len(a)
  OBVIOUS
<1>2. ASSUME NEW s \in SUBSET (1 .. Len(a))
      PROVE  h[s] = IF s = {} THEN 0 ELSE LET x == Max(s) IN 10 * h[s \ {x}] + (a[x] - 48)
  <2>1. s = {} \/ s = {1} \/ s = {2} \/ s = {1, 2}
    <3>1. s \subseteq {1, 2}
      <4>1. 1 .. Len(a) \subseteq {1, 2}
        <5>1. PICK n \in 1 .. 2 : n = Len(a)
          OBVIOUS
        <5>2. ASSUME NEW i \in 1 .. n PROVE i \in {1, 2}
          OBVIOUS
        <5> QED BY ONLY <5>1, <5>2
      <4> QED BY ONLY <4>1, s \subseteq 1 .. Len(a)
    <3> QED BY ONLY <3>1
  <2>2. CASE s = {}
    BY <2>2
  <2>3. CASE s = {1}
    <3>1. s \ {1} = {} /\ {} \in SUBSET (1 .. Len(a)) /\ Max(s) = 1
      BY <2>3, MaxOfTwo
    <3>2. h[{}] = 0 /\ h[s] = 10 * 0 + d(1)
      BY <2>3, <3>1
    <3> HIDE DEF h
    <3> QED BY <2>3, <3>1, <3>2
  <2>4. CASE s = {2}
    <3>1. s \ {2} = {} /\ {} \in SUBSET (1 .. Len(a)) /\ Max(s) = 2
      BY <2>4, MaxOfTwo
    <3>2. h[{}] = 0 /\ h[s] = 10 * 0 + d(2)
      BY <2>4, <3>1
    <3> HIDE DEF h
    <3> QED BY <2>4, <3>1, <3>2
  <2>5. CASE s = {1, 2}
    <3>1. s \ {2} = {1} /\ {1} \in SUBSET (1 .. Len(a)) /\ Max(s) = 2
      BY <2>5, MaxOfTwo
    <3>2. h[{1}] = 10 * 0 + d(1) /\ h[s] = 10 * (10 * 0 + d(1)) + d(2)
      <4>1. s # {} /\ s # {1} /\ s # {2} /\ {1} # {} /\ {1} # {2}
        <5>1. s = {1, 2} /\ 1 # 2
          BY <2>5
        <5>2. 1 \in s /\ 2 \in s /\ 1 \notin {2} /\ 2 \notin {1} /\ 1 \in {1} /\ 1 \notin {}
          BY ONLY <5>1
        <5> QED BY ONLY <5>2
      <4> QED BY <3>1, <4>1
    <3> HIDE DEF h
    <3> QED BY <2>5, <3>1, <3>2
  <2> QED BY <2>1, <2>2, <2>3, <2>4, <2>5
<1>3. h = [s \in SUBSET (1 .. Len(a)) |-> h[s]]
  OBVIOUS
<1> HIDE DEF h
<1>4. h = [s \in SUBSET (1 .. Len(a)) |-> IF s = {} THEN 0
                                          ELSE LET x == Max(s) IN 10 * h[s \ {x}] + (a[x] - 48)]
  BY ONLY <1>2, <1>3
<1>5. Reads(a, h)
  BY <1>1, <1>4 DEF Reads
<1> QED BY <1>5

\* One digit or two are read as the number they stand for.
LEMMA NumberIs ==
  ASSUME NEW a \in Seq(Byte), Len(a) \in 1 .. 2
  PROVE  FoldLeft(LAMBDA n, c : 10 * n + (c - 48), 0, a)
           = (a[Len(a)] - 48) + (IF Len(a) = 2 THEN 10 * (a[1] - 48) ELSE 0)
<1> DEFINE iter == CHOOSE f : Reads(a, f)
<1>1. FoldLeft(LAMBDA n, c : 10 * n + (c - 48), 0, a) = iter[DOMAIN a]
  BY DEF FoldLeft, MapThenFoldSet, Reads
<1>2. Reads(a, iter)
  BY ReadsExists
<1> HIDE DEF iter
<1>3. /\ DOMAIN a = 1 .. Len(a) /\ Len(a) \in Nat /\ \A i \in 1 .. Len(a) : a[i] \in Int
  <2>1. \A c \in Byte : c \in Int
    BY DEF Byte
  <2>2. DOMAIN a = 1 .. Len(a) /\ Len(a) \in Nat /\ \A i \in 1 .. Len(a) : a[i] \in Byte
    OBVIOUS
  <2> QED BY ONLY <2>1, <2>2
<1>4. ASSUME NEW s \in SUBSET (1 .. Len(a))
      PROVE  iter[s] = IF s = {} THEN 0 ELSE 10 * iter[s \ {Max(s)}] + (a[Max(s)] - 48)
  BY <1>2, <1>3 DEF Reads
<1>5. iter[{}] = 0
  BY <1>4
<1>6. iter[{1}] = a[1] - 48
  <2>1. {1} \in SUBSET (1 .. Len(a)) /\ {1} # {} /\ {1} \ {1} = {} /\ a[1] \in Int
    BY <1>3
  <2>2. iter[{1}] = 10 * iter[{1} \ {1}] + (a[1] - 48)
    BY <1>4, <2>1, MaxOfTwo
  <2>3. iter[{1} \ {1}] = 0
    BY ONLY <1>5, <2>1
  <2> QED BY ONLY <2>1, <2>2, <2>3
<1>7. CASE Len(a) = 1
  <2>1. DOMAIN a = {1} /\ a[1] \in Int
    BY ONLY <1>3, <1>7
  <2>2. FoldLeft(LAMBDA n, c : 10 * n + (c - 48), 0, a) = iter[{1}]
    BY <1>1, <2>1, Zenon
  <2>3. (a[Len(a)] - 48) + (IF Len(a) = 2 THEN 10 * (a[1] - 48) ELSE 0) = a[1] - 48
    BY ONLY <1>7, <2>1
  <2> QED BY <1>6, <2>2, <2>3, Zenon
<1>8. CASE Len(a) = 2
  <2>1. /\ DOMAIN a = {1, 2} /\ a[1] \in Int /\ a[2] \in Int
        /\ {1, 2} \in SUBSET (1 .. Len(a)) /\ {1, 2} # {} /\ {1, 2} \ {2} = {1}
    BY <1>3, <1>8
  <2>2. iter[{1, 2}] = 10 * iter[{1, 2} \ {2}] + (a[2] - 48)
    BY <1>4, <2>1, MaxOfTwo
  <2>3. iter[{1, 2}] = 10 * (a[1] - 48) + (a[2] - 48)
    <3>1. iter[{1, 2} \ {2}] = a[1] - 48
      BY <1>6, <2>1, Zenon
    <3> QED BY ONLY <2>2, <3>1
  <2>4. FoldLeft(LAMBDA n, c : 10 * n + (c - 48), 0, a) = iter[{1, 2}]
    BY <1>1, <2>1, Zenon
  <2>5. (a[Len(a)] - 48) + (IF Len(a) = 2 THEN 10 * (a[1] - 48) ELSE 0) = 10 * (a[1] - 48) + (a[2] - 48)
    BY ONLY <1>8, <2>1
  <2> QED BY <2>3, <2>4, <2>5, Zenon
<1>9. Len(a) = 1 \/ Len(a) = 2
  <2>1. \A n \in 1 .. 2 : n = 1 \/ n = 2
    OBVIOUS
  <2> QED BY ONLY <2>1, Len(a) \in 1 .. 2
<1> QED BY <1>7, <1>8, <1>9, Zenon

\* The number before any semicolon is read, whatever follows.
LEMMA FirstNumIs ==
  ASSUME NEW b \in Seq(Byte), NEW num, Begins(b, num)
  PROVE  FirstNum(b) = num
<1> DEFINE I == {i \in 1 .. Len(b) : b[i] = Semicolon}
           first == SelectInSeq(b, LAMBDA c : c = Semicolon)
           head == IF first = 0 THEN b ELSE SubSeq(b, 1, first - 1)
<1>1. PICK end \in 1 .. 2 :
        /\ end <= Len(b) /\ \A i \in 1 .. end : b[i] \in Digits
        /\ end = Len(b) \/ b[end + 1] = Semicolon
        /\ num = (b[end] - 48) + (IF end = 2 THEN 10 * (b[1] - 48) ELSE 0)
  BY DEF Begins
<1>2. first = IF I # {} THEN Min(I) ELSE 0
  BY DEF SelectInSeq
<1>3. I \in SUBSET Nat /\ Len(b) \in Nat /\ \A i \in 1 .. end : i \notin I
  BY <1>1 DEF Digits, Semicolon
<1>4. FirstNum(b) = FoldLeft(LAMBDA n, c : 10 * n + (c - 48), 0, head)
  BY DEF FirstNum
<1>5. head \in Seq(Byte) /\ Len(head) = end /\ \A i \in 1 .. end : head[i] = b[i]
  <2>1. CASE end = Len(b)
    <3>1. I = {}
      BY <1>3, <2>1
    <3>2. head = b
      <4> HIDE DEF I
      <4> QED BY <1>2, <3>1
    <3> QED BY <2>1, <3>2
  <2>2. CASE end # Len(b)
    <3>1. end + 1 \in I /\ \A m \in I : end + 1 <= m
      <4>1. end + 1 \in 1 .. Len(b) /\ b[end + 1] = Semicolon
        BY <1>1, <1>3, <2>2
      <4>2. ASSUME NEW m \in I PROVE end + 1 <= m
        <5>1. m \in Nat /\ m >= 1 /\ m \notin 1 .. end
          BY <1>3
        <5> QED BY <5>1
      <4> QED BY <4>1, <4>2
    <3> HIDE DEF I
    <3>2. Min(I) \in I /\ \A m \in I : Min(I) <= m
      BY <1>3, <3>1, MinIn
    <3>3. Min(I) \in Nat /\ Min(I) <= end + 1 /\ end + 1 <= Min(I)
      BY <1>3, <3>1, <3>2
    <3>4. first = end + 1
      BY <1>2, <3>1, <3>3
    <3> HIDE DEF first
    <3>5. head = SubSeq(b, 1, end)
      <4>1. first # 0 /\ first - 1 = end
        BY ONLY <3>4, end \in 1 .. 2
      <4> QED BY <4>1
    <3> HIDE DEF head
    <3>6. end \in Nat /\ end <= Len(b) /\ b \in Seq(Byte) /\ head = SubSeq(b, 1, end)
      BY <1>1, <3>5
    <3> QED BY ONLY <3>6
  <2> QED BY <2>1, <2>2
<1> HIDE DEF head
<1>6. FirstNum(b) = (head[end] - 48) + (IF end = 2 THEN 10 * (head[1] - 48) ELSE 0)
  BY <1>4, <1>5, NumberIs
<1> QED BY <1>1, <1>5, <1>6

\* A sequence "ESC [" is read up to its final byte, whatever follows.
LEMMA CsiIs ==
  ASSUME NEW b \in Seq(Byte), NEW n \in 1 .. Len(b), n <= Longest, b[n] \notin Params,
         \A i \in 1 .. n - 1 : b[i] \in Params
  PROVE  DecodeCsi(b) = Took(IF b[n] = Tilde THEN KeyForTilde(FirstNum(SubSeq(b, 1, n - 1))) ELSE KeyForFinal(b[n]), b, n)
<1>1. SelectInSeq(b, LAMBDA c : c \notin Params) = n
  BY FinalIs
<1>2. n # 0 /\ ~ (n > Longest)
  BY DEF Longest
<1> QED BY <1>1, <1>2 DEF DecodeCsi

\* read_key() takes a keystroke from the beginning of a burst and leaves the rest.
LEMMA ReadsOne ==
  ASSUME NEW k, k.bytes \in Seq(Byte), IsKeystroke(k), NEW rest \in Seq(Byte), k.bytes = <<Escape>> => rest = <<>>
  PROVE  ReadKey(k.bytes \o rest) = [key |-> k.key, left |-> rest]
<1> DEFINE b == k.bytes
           n == Len(b)
           s == b \o rest
<1>1. /\ b \in Seq(Byte) /\ n \in Nat /\ s \in Seq(Byte) /\ Len(s) = n + Len(rest) /\ Len(rest) \in Nat
      /\ \A i \in 1 .. n : s[i] = b[i]
      /\ SubSeq(s, n + 1, Len(s)) = rest
  <2>1. b \in Seq(Byte) /\ n = Len(b)
    OBVIOUS
  <2> HIDE DEF b, n
  <2> QED BY <2>1, Rest
<1> HIDE DEF s
<1>2. Took(k.key, s, n) = [key |-> k.key, left |-> rest]
  BY <1>1 DEF Took
<1> DEFINE u == Tail(s)
           v == Tail(u)
<1>3. ASSUME n > 0
      PROVE  /\ s # <<>> /\ u \in Seq(Byte) /\ Len(u) = Len(s) - 1 /\ \A i \in 1 .. Len(u) : u[i] = s[i + 1]
             /\ \A what, m : m \in Nat /\ m <= Len(u) => Took(what, u, m) = Took(what, s, m + 1)
  <2>1. s # <<>> /\ Len(s) > 0
    BY <1>1, <1>3
  <2>2. u \in Seq(Byte) /\ Len(u) = Len(s) - 1 /\ \A i \in 1 .. Len(u) : u[i] = s[i + 1]
    BY <1>1, <2>1
  <2> HIDE DEF u
  <2>3. ASSUME NEW m \in Nat, m <= Len(u) PROVE SubSeq(u, m + 1, Len(u)) = SubSeq(s, (m + 1) + 1, Len(s))
    <3> DEFINE x == SubSeq(u, m + 1, Len(u))
               y == SubSeq(s, (m + 1) + 1, Len(s))
    <3>1. x \in Seq(Byte) /\ Len(x) = Len(u) - m /\ \A i \in 1 .. Len(u) - m : x[i] = u[i + m]
      BY <2>2, <2>3
    <3>2. y \in Seq(Byte) /\ Len(y) = Len(u) - m /\ \A i \in 1 .. Len(u) - m : y[i] = s[i + (m + 1)]
      <4>1. m + 1 \in Nat /\ m + 1 <= Len(s) /\ Len(s) - (m + 1) = Len(u) - m /\ s \in Seq(Byte)
        BY <1>1, <2>1, <2>2, <2>3
      <4>2. y \in Seq(Byte) /\ Len(y) = Len(s) - (m + 1) /\ \A i \in 1 .. Len(s) - (m + 1) : y[i] = s[i + (m + 1)]
        <5> HIDE DEF y
        <5>1. PICK p \in Nat : p = m + 1
          BY <4>1
        <5>2. y = SubSeq(s, p + 1, Len(s)) /\ s \in Seq(Byte) /\ p <= Len(s)
          BY <4>1, <5>1 DEF y
        <5>3. y \in Seq(Byte) /\ Len(y) = Len(s) - p /\ \A i \in 1 .. Len(s) - p : y[i] = s[i + p]
          BY ONLY p \in Nat, <5>2, RestIs
        <5> QED BY ONLY <5>1, <5>3
      <4> QED BY <4>1, <4>2
    <3>3. \A i \in 1 .. Len(u) - m : u[i + m] = s[i + (m + 1)]
      <4> TAKE i \in 1 .. Len(u) - m
      <4>1. i + m \in 1 .. Len(u) /\ (i + m) + 1 = i + (m + 1)
        BY <1>1, <2>2, <2>3
      <4> QED BY <2>2, <4>1
    <3> HIDE DEF x, y
    <3>4. x = y
      <4>1. Len(x) = Len(y) /\ x \in Seq(Byte) /\ y \in Seq(Byte) /\ \A i \in 1 .. Len(x) : x[i] = y[i]
        BY <3>1, <3>2, <3>3
      <4> QED BY ONLY <4>1, SeqEqual
    <3> QED BY <3>4 DEF x, y
  <2> QED BY <2>1, <2>2, <2>3 DEF Took
<1> HIDE DEF u, v
<1>4. CASE b \in {<<c>> : c \in Byte \ {Escape}} /\ k.key = KeyForByte(b[1])
  <2>1. n = 1 /\ b[1] # Escape /\ 1 \in 1 .. n
    BY <1>4
  <2>2. s # <<>> /\ s[1] = b[1]
    BY <1>1, <1>3, <2>1
  <2>3. ReadKey(s) = Took(k.key, s, n)
    BY <1>4, <2>1, <2>2 DEF ReadKey
  <2> QED BY <1>2, <2>3 DEF s
<1>5. CASE b = <<Escape>> /\ k.key = K_ESC
  <2>1. n = 1 /\ s[1] = Escape /\ s # <<>> /\ rest = <<>> /\ Len(rest) = 0
    BY <1>1, <1>3, <1>5
  <2>2. u = <<>>
    BY <1>1, <1>3, <2>1
  <2>3. ReadKey(s) = Took(K_ESC, u, 0)
    BY <2>1, <2>2 DEF ReadKey, DecodeEscape, u
  <2>4. Took(K_ESC, u, 0) = Took(K_ESC, s, n)
    <3>1. 0 \in Nat /\ 0 <= Len(u) /\ 0 + 1 = n
      BY <1>1, <1>3, <2>1
    <3> QED BY <1>3, <2>1, <3>1
  <2> QED BY <1>2, <1>5, <2>3, <2>4 DEF s
<1>6. CASE b \in {<<Escape, c>> : c \in Byte \ {Bracket, LetterO}} /\ k.key = K_ESC
  <2>1. n = 2 /\ b[1] = Escape /\ b[2] \notin {Bracket, LetterO} /\ 1 \in 1 .. n /\ 2 \in 1 .. n
    <3>1. PICK c \in Byte \ {Bracket, LetterO} : b = <<Escape, c>>
      BY <1>6
    <3> QED BY <3>1
  <2>2. s # <<>> /\ s[1] = Escape /\ s[2] = b[2] /\ Len(u) >= 1
    BY <1>1, <1>3, <2>1
  <2>3. u # <<>> /\ u[1] = b[2]
    <3>1. 1 \in 1 .. Len(u) /\ 1 + 1 = 2
      BY <1>1, <1>3, <2>1, <2>2
    <3> QED BY <1>3, <2>1, <2>2, <3>1
  <2>4. ReadKey(s) = Took(K_ESC, u, 1)
    BY <2>1, <2>2, <2>3 DEF ReadKey, DecodeEscape, u
  <2>5. Took(K_ESC, u, 1) = Took(K_ESC, s, n)
    <3>1. 1 \in Nat /\ 1 <= Len(u) /\ 1 + 1 = n
      BY <1>1, <1>3, <2>1
    <3> QED BY <1>3, <2>1, <3>1
  <2> QED BY <1>2, <1>6, <2>4, <2>5 DEF s
<1>7. CASE b \in {<<Escape, LetterO, c>> : c \in Byte} /\ k.key = KeyForFinal(b[3])
  <2>1. n = 3 /\ b[1] = Escape /\ b[2] = LetterO /\ 1 \in 1 .. n /\ 2 \in 1 .. n /\ 3 \in 1 .. n
    BY <1>7
  <2>2. s # <<>> /\ s[1] = Escape /\ s[2] = LetterO /\ s[3] = b[3] /\ Len(u) >= 2
    BY <1>1, <1>3, <2>1
  <2>3. u # <<>> /\ u[1] = LetterO /\ u[2] = b[3] /\ Len(u) > 1
    <3>1. 1 \in 1 .. Len(u) /\ 1 + 1 = 2 /\ 2 \in 1 .. Len(u) /\ 2 + 1 = 3
      BY <1>1, <1>3, <2>1, <2>2
    <3> QED BY <1>3, <2>1, <2>2, <3>1
  <2>4. ReadKey(s) = Took(k.key, u, 2)
    BY <1>7, <2>1, <2>2, <2>3 DEF ReadKey, DecodeEscape, u, LetterO, Bracket
  <2>5. Took(k.key, u, 2) = Took(k.key, s, n)
    <3>1. 2 \in Nat /\ 2 <= Len(u) /\ 2 + 1 = n
      BY <1>1, <1>3, <2>1
    <3> QED BY <1>3, <2>1, <3>1
  <2> QED BY <1>2, <2>4, <2>5 DEF s
<1>8. CASE /\ n \in 3 .. Longest + 2 /\ b[1] = Escape /\ b[2] = Bracket
           /\ b[n] \in Byte \ Params /\ \A i \in 3 .. n - 1 : b[i] \in Params
           /\ IF b[n] = Tilde THEN \E num \in 0 .. 99 : Begins(SubSeq(b, 3, n - 1), num) /\ k.key = KeyForTilde(num)
              ELSE k.key = KeyForFinal(b[n])
  <2>1. n >= 3 /\ n <= Longest + 2 /\ 1 \in 1 .. n /\ 2 \in 1 .. n /\ n \in 1 .. n
    BY <1>1, <1>8
  <2>2. s # <<>> /\ s[1] = Escape /\ s[2] = Bracket /\ s[n] = b[n] /\ Len(u) >= 2 /\ Len(u) = Len(s) - 1
    <3>1. n > 0 /\ Len(s) >= 3
      BY <1>1, <2>1
    <3>2. s[1] = Escape /\ s[2] = Bracket /\ s[n] = b[n]
      BY <1>1, <1>8, <2>1
    <3>3. s # <<>> /\ Len(u) = Len(s) - 1
      BY <1>3, <3>1
    <3> QED BY <1>1, <3>1, <3>2, <3>3
  <2>3. u # <<>> /\ u[1] = Bracket /\ u \in Seq(Byte)
    <3>1. 1 \in 1 .. Len(u) /\ 1 + 1 = 2
      BY <1>1, <2>1, <2>2
    <3> QED BY <1>3, <2>1, <2>2, <3>1
  <2>4. v \in Seq(Byte) /\ Len(v) = Len(s) - 2 /\ \A i \in 1 .. Len(v) : v[i] = s[i + 2]
    <3>1. v \in Seq(Byte) /\ Len(v) = Len(u) - 1 /\ \A i \in 1 .. Len(v) : v[i] = u[i + 1]
      BY <2>2, <2>3 DEF v
    <3>2. ASSUME NEW i \in 1 .. Len(v) PROVE v[i] = s[i + 2]
      <4>1. i + 1 \in 1 .. Len(u) /\ (i + 1) + 1 = i + 2
        BY <1>1, <2>2, <3>1
      <4> QED BY <1>3, <2>1, <3>1, <4>1
    <3> QED BY <1>1, <2>2, <3>1, <3>2
  <2> DEFINE m == n - 2
  <2>5. m \in 1 .. Len(v) /\ m <= Longest /\ m + 2 = n /\ m \in Nat /\ Len(v) = m + Len(rest)
    BY <1>1, <2>1, <2>4 DEF Longest
  <2> HIDE DEF m
  <2>6. v[m] = b[n] /\ v[m] \notin Params
    BY <1>8, <2>2, <2>4, <2>5
  <2>7. ASSUME NEW i \in 1 .. m - 1 PROVE v[i] \in Params /\ v[i] = b[i + 2]
    <3>1. i + 2 \in 3 .. n - 1 /\ i + 2 \in 1 .. n /\ i \in 1 .. Len(v)
      BY <1>1, <2>5
    <3>2. v[i] = s[i + 2] /\ s[i + 2] = b[i + 2]
      BY <1>1, <2>4, <3>1
    <3> QED BY <1>8, <3>1, <3>2
  <2>8. SubSeq(v, 1, m - 1) = SubSeq(b, 3, n - 1)
    <3> DEFINE x == SubSeq(v, 1, m - 1)
               y == SubSeq(b, 3, n - 1)
    <3>1. x \in Seq(Byte) /\ Len(x) = m - 1 /\ \A i \in 1 .. m - 1 : x[i] = v[i]
      BY <2>4, <2>5
    <3>2. y \in Seq(Byte) /\ Len(y) = m - 1 /\ \A i \in 1 .. m - 1 : y[i] = b[i + 2]
      BY <1>1, <2>1, <2>5
    <3> HIDE DEF x, y
    <3>3. x = y
      <4>1. Len(x) = Len(y) /\ x \in Seq(Byte) /\ y \in Seq(Byte) /\ \A i \in 1 .. Len(x) : x[i] = y[i]
        BY <2>7, <3>1, <3>2
      <4> QED BY ONLY <4>1, SeqEqual
    <3> QED BY <3>3 DEF x, y
  <2>9. DecodeCsi(v) = Took(k.key, v, m)
    <3>1. DecodeCsi(v) = Took(IF v[m] = Tilde THEN KeyForTilde(FirstNum(SubSeq(v, 1, m - 1))) ELSE KeyForFinal(v[m]), v, m)
      BY <2>4, <2>5, <2>6, <2>7, CsiIs
    <3>2. b[n] = Tilde => k.key = KeyForTilde(FirstNum(SubSeq(v, 1, m - 1)))
      <4> HAVE b[n] = Tilde
      <4>1. PICK num \in 0 .. 99 : Begins(SubSeq(b, 3, n - 1), num) /\ k.key = KeyForTilde(num)
        BY <1>8
      <4> DEFINE x == SubSeq(v, 1, m - 1)
      <4>2. x \in Seq(Byte)
        BY <2>4, <2>5
      <4>3. Begins(x, num)
        BY <2>8, <4>1
      <4> HIDE DEF x
      <4>4. FirstNum(x) = num
        BY <4>2, <4>3, FirstNumIs
      <4> QED BY <4>1, <4>4 DEF x
    <3> QED BY <1>8, <2>6, <3>1, <3>2
  <2>10. ReadKey(s) = DecodeCsi(v)
    BY <2>2, <2>3 DEF ReadKey, DecodeEscape, u, v
  <2>11. Took(k.key, v, m) = Took(k.key, s, n)
    <3> DEFINE x == SubSeq(v, m + 1, Len(v))
    <3>0. /\ m \in Nat /\ Len(v) = m + Len(rest) /\ Len(rest) \in Nat /\ v \in Seq(Byte)
          /\ m + 2 = n /\ n \in Nat
      BY <1>1, <2>4, <2>5
    <3>1. x = SubSeq(v, m + 1, Len(v))
      OBVIOUS
    <3> HIDE DEF x
    <3>2. x \in Seq(Byte) /\ Len(x) = Len(rest) /\ \A i \in 1 .. Len(rest) : x[i] = v[i + m]
      <4>1. v \in Seq(Byte) /\ m <= Len(v) /\ Len(v) - m = Len(rest) /\ m \in Nat
        <5> HIDE DEF n
        <5> QED BY ONLY <3>0
      <4>2. x \in Seq(Byte) /\ Len(x) = Len(v) - m /\ \A i \in 1 .. Len(v) - m : x[i] = v[i + m]
        BY ONLY <3>1, <4>1, RestIs
      <4> QED BY <4>1, <4>2
    <3>3. ASSUME NEW i \in 1 .. Len(rest) PROVE x[i] = rest[i]
      <4>1. i + m \in 1 .. Len(v) /\ (i + m) + 2 = i + n
        <5>1. i \in 1 .. Len(rest)
          OBVIOUS
        <5> HIDE DEF n
        <5> QED BY ONLY <3>0, <5>1
      <4>2. x[i] = s[i + n]
        BY <2>4, <3>2, <4>1
      <4> QED BY <4>2 DEF s
    <3>4. x = rest
      BY <3>2, <3>3
    <3> QED BY <1>1, <3>4 DEF Took, x
  <2> QED BY <1>2, <2>9, <2>10, <2>11 DEF s
<1> QED BY <1>4, <1>5, <1>6, <1>7, <1>8 DEF IsKeystroke

\* Bursts grow at their end.
LEMMA Grown ==
  ASSUME NEW S, NEW a \in Seq(S), NEW b \in Seq(S), NEW c \in Seq(S)
  PROVE  (a \o b) \o c = a \o (b \o c)
<1> DEFINE x == (a \o b) \o c
           y == a \o (b \o c)
           ab == a \o b
           bc == b \o c
<1>1. /\ Len(a) \in Nat /\ Len(b) \in Nat /\ Len(c) \in Nat
      /\ ab \in Seq(S) /\ Len(ab) = Len(a) + Len(b)
      /\ \A i \in 1 .. Len(a) : ab[i] = a[i]
      /\ \A i \in 1 .. Len(b) : ab[i + Len(a)] = b[i]
      /\ bc \in Seq(S) /\ Len(bc) = Len(b) + Len(c)
      /\ \A i \in 1 .. Len(b) : bc[i] = b[i]
      /\ \A i \in 1 .. Len(c) : bc[i + Len(b)] = c[i]
  BY Rest
<1> HIDE DEF ab, bc
<1>2. /\ x \in Seq(S) /\ Len(x) = Len(ab) + Len(c)
      /\ \A i \in 1 .. Len(ab) : x[i] = ab[i]
      /\ \A i \in 1 .. Len(c) : x[i + Len(ab)] = c[i]
  <2>1. x = ab \o c
    BY DEF ab
  <2> HIDE DEF x
  <2>2. ab \in Seq(S) /\ c \in Seq(S)
    BY <1>1
  <2>3. /\ ab \o c \in Seq(S) /\ Len(ab \o c) = Len(ab) + Len(c)
        /\ \A i \in 1 .. Len(ab) : (ab \o c)[i] = ab[i]
        /\ \A i \in 1 .. Len(c) : (ab \o c)[i + Len(ab)] = c[i]
    BY ONLY <2>2, Rest
  <2> QED BY ONLY <2>1, <2>3
<1>3. /\ y \in Seq(S) /\ Len(y) = Len(a) + Len(bc)
      /\ \A i \in 1 .. Len(a) : y[i] = a[i]
      /\ \A i \in 1 .. Len(bc) : y[i + Len(a)] = bc[i]
  <2>1. y = a \o bc
    BY DEF bc
  <2> HIDE DEF y
  <2>2. a \in Seq(S) /\ bc \in Seq(S)
    BY <1>1
  <2>3. /\ a \o bc \in Seq(S) /\ Len(a \o bc) = Len(a) + Len(bc)
        /\ \A i \in 1 .. Len(a) : (a \o bc)[i] = a[i]
        /\ \A i \in 1 .. Len(bc) : (a \o bc)[i + Len(a)] = bc[i]
    BY ONLY <2>2, Rest
  <2> QED BY ONLY <2>1, <2>3
<1> HIDE DEF x, y
<1>4. ASSUME NEW i \in 1 .. Len(x) PROVE x[i] = y[i]
  <2>1. CASE i <= Len(a)
    <3>1. i \in 1 .. Len(a) /\ i \in 1 .. Len(ab)
      BY <1>1, <1>2, <2>1
    <3> QED BY <1>1, <1>2, <1>3, <3>1
  <2>2. CASE i > Len(a) /\ i <= Len(ab)
    <3>1. PICK j \in 1 .. Len(b) : i = j + Len(a)
      <4>1. i - Len(a) \in 1 .. Len(b) /\ i = (i - Len(a)) + Len(a)
        BY <1>1, <1>2, <2>2
      <4> QED BY <4>1
    <3>2. j \in 1 .. Len(bc) /\ i \in 1 .. Len(ab)
      BY <1>1, <2>2, <3>1
    <3> QED BY <1>1, <1>2, <1>3, <3>1, <3>2
  <2>3. CASE i > Len(ab)
    <3>1. PICK j \in 1 .. Len(c) : i = j + Len(ab)
      <4>1. i - Len(ab) \in 1 .. Len(c) /\ i = (i - Len(ab)) + Len(ab)
        BY <1>1, <1>2, <2>3
      <4> QED BY <4>1
    <3>2. j + Len(b) \in 1 .. Len(bc) /\ i = (j + Len(b)) + Len(a)
      BY <1>1, <3>1
    <3>3. y[(j + Len(b)) + Len(a)] = bc[j + Len(b)] /\ bc[j + Len(b)] = c[j] /\ x[j + Len(ab)] = c[j]
      BY <1>1, <1>2, <1>3, <3>1, <3>2
    <3> QED BY <3>1, <3>2, <3>3
  <2> QED BY <1>1, <2>1, <2>2, <2>3
<1>5. x = y
  <2>1. Len(x) = Len(y) /\ x \in Seq(S) /\ y \in Seq(S)
    BY <1>1, <1>2, <1>3
  <2> QED BY ONLY <1>4, <2>1, SeqEqual
<1> QED BY <1>5 DEF x, y

\* The keys of n keystrokes, ks, are in a burst: r[i] is what follows once i - 1 of them
\* are read.  A lone Esc is the last of them.
Burst(n, ks, r) ==
  /\ Len(typed) = n /\ r[1] = inbox /\ r[n + 1] = <<>>
  /\ \A i \in 1 .. n : /\ typed[i] = ks[i].key /\ r[i] = ks[i].bytes \o r[i + 1]
                       /\ ks[i].bytes = <<Escape>> => r[i + 1] = <<>>
                       /\ Last(r[i]) = Last(inbox)

Bursts(n) == [1 .. n + 1 -> Seq(Byte)]

\* Every key so far was the one that was typed for it, and those in inbox will be.
KeyInv ==
  /\ key = meant /\ (\E S : typed \in Seq(S))
  /\ \E n \in Nat : \E ks \in [1 .. n -> Keystrokes], r \in Bursts(n) : Burst(n, ks, r)

\* With nothing typed the invariant holds.
LEMMA NothingTyped ==
  ASSUME inbox' = <<>>, typed' = <<>>, key' = meant'
  PROVE  KeyInv'
<1> DEFINE ks == [i \in 1 .. 0 |-> CHOOSE k \in Keystrokes : TRUE]
           r == [i \in 1 .. 0 + 1 |-> <<>>]
<1>1. /\ ks \in [1 .. 0 -> Keystrokes] /\ r \in Bursts(0)
  BY DEF Bursts
<1>2. Burst(0, ks, r)'
  <2>1. Len(typed') = 0 /\ r[1] = inbox' /\ r[0 + 1] = <<>> /\ 1 .. 0 = {}
    BY DEF r
  <2> HIDE DEF ks, r
  <2> QED BY <2>1 DEF Burst
<1>3. \E S : typed' \in Seq(S)
  <2>1. typed' \in Seq({})
    OBVIOUS
  <2> QED BY <2>1
<1> HIDE DEF ks, r
<1> QED BY <1>1, <1>2, <1>3 DEF KeyInv, Bursts

\* read_key() takes the first keystroke of the burst.
LEMMA ReadKeepsKeys ==
  ASSUME KeyInv, Read
  PROVE  KeyInv'
<1>0. PICK n \in Nat : \E ks \in [1 .. n -> Keystrokes], r \in Bursts(n) : Burst(n, ks, r)
  BY DEF KeyInv
<1>1. PICK ks \in [1 .. n -> Keystrokes], r \in Bursts(n) : Burst(n, ks, r)
  BY <1>0
<1>2. /\ Len(typed) = n /\ r[1] = inbox /\ r[n + 1] = <<>>
      /\ \A i \in 1 .. n : /\ typed[i] = ks[i].key /\ r[i] = ks[i].bytes \o r[i + 1]
                           /\ ks[i].bytes = <<Escape>> => r[i + 1] = <<>>
                           /\ Last(r[i]) = Last(inbox)
      /\ \A i \in 1 .. n + 1 : r[i] \in Seq(Byte)
  BY <1>1 DEF Burst, Bursts
<1>3. /\ key' = ReadKey(inbox).key /\ inbox' = ReadKey(inbox).left
      /\ typed' = (IF typed = <<>> THEN <<>> ELSE Tail(typed))
      /\ meant' = (IF typed = <<>> THEN K_NONE ELSE Head(typed))
  BY DEF Read
<1>4. PICK S : typed \in Seq(S)
  BY DEF KeyInv
<1>5. CASE n = 0
  <2>1. typed = <<>>
    BY <1>2, <1>4, <1>5
  <2>2. inbox = <<>>
    BY <1>2, <1>5
  <2>3. SubSeq(<<>>, 0 + 1, Len(<<>>)) = <<>>
    OBVIOUS
  <2>4. ReadKey(<<>>) = [key |-> K_NONE, left |-> <<>>]
    BY <2>3 DEF ReadKey, Took
  <2> QED BY <1>3, <2>1, <2>2, <2>4, NothingTyped
<1>6. CASE n > 0
  <2>1. 1 \in 1 .. n /\ 1 + 1 \in 1 .. n + 1 /\ ks[1] \in Keystrokes
    BY <1>6
  <2>2. /\ inbox = ks[1].bytes \o r[2] /\ r[2] \in Seq(Byte) /\ (ks[1].bytes = <<Escape>> => r[2] = <<>>)
    <3>1. /\ r[1] = ks[1].bytes \o r[1 + 1] /\ (ks[1].bytes = <<Escape>> => r[1 + 1] = <<>>)
          /\ r[1 + 1] \in Seq(Byte) /\ r[1] = inbox
      BY <1>2, <2>1
    <3>2. 1 + 1 = 2
      OBVIOUS
    <3> QED BY ONLY <3>1, <3>2
  <2>3. ReadKey(inbox) = [key |-> ks[1].key, left |-> r[2]]
    BY <2>1, <2>2, ReadsOne, KeystrokeAssumption
  <2>4. /\ typed # <<>> /\ Head(typed) = ks[1].key /\ Tail(typed) \in Seq(S) /\ Len(Tail(typed)) = n - 1
        /\ \A i \in 1 .. n - 1 : Tail(typed)[i] = typed[i + 1]
    <3>1. typed \in Seq(S) /\ Len(typed) = n /\ n \in Nat /\ n > 0 /\ typed[1] = ks[1].key
      BY <1>2, <1>4, <1>6, <2>1
    <3> QED BY ONLY <3>1
  <2>5. /\ key' = meant' /\ inbox' = r[2] /\ typed' = Tail(typed)
    BY <1>3, <2>3, <2>4
  <2>6. PICK m \in Nat : m = n - 1 /\ n = m + 1
    BY <1>6
  <2> DEFINE ks1 == [i \in 1 .. m |-> ks[i + 1]]
             r1 == [i \in 1 .. m + 1 |-> r[i + 1]]
  <2>7. ks1 \in [1 .. m -> Keystrokes] /\ r1 \in Bursts(m)
    BY <1>1, <2>6 DEF Bursts
  <2>8. Burst(m, ks1, r1)'
    <3>1. Len(typed') = m /\ r1[1] = inbox' /\ r1[m + 1] = <<>>
      BY <1>2, <2>4, <2>5, <2>6
    <3>2. ASSUME NEW i \in 1 .. m
          PROVE  /\ typed'[i] = ks1[i].key /\ r1[i] = ks1[i].bytes \o r1[i + 1]
                 /\ ks1[i].bytes = <<Escape>> => r1[i + 1] = <<>>
                 /\ Last(r1[i]) = Last(inbox')
      <4>1. i + 1 \in 1 .. n /\ i \in 1 .. m + 1 /\ i + 1 \in 1 .. m + 1 /\ 1 + 1 \in 1 .. n
        BY <2>6
      <4>2. ks1[i] = ks[i + 1] /\ r1[i] = r[i + 1] /\ r1[i + 1] = r[(i + 1) + 1]
        BY <4>1
      <4> HIDE DEF ks1, r1
      <4>3. typed'[i] = ks[i + 1].key
        BY <1>2, <2>4, <2>5, <2>6, <4>1
      <4>4. Last(r[1 + 1]) = Last(inbox) /\ Last(r[i + 1]) = Last(inbox)
        BY <1>2, <4>1
      <4>5. /\ r[i + 1] = ks[i + 1].bytes \o r[(i + 1) + 1]
            /\ ks[i + 1].bytes = <<Escape>> => r[(i + 1) + 1] = <<>>
        BY <1>2, <4>1
      <4>6. Last(inbox') = Last(r[1 + 1])
        <5>1. inbox' = r[2] /\ 1 + 1 = 2
          BY <2>5
        <5> QED BY ONLY <5>1
      <4> QED BY ONLY <4>2, <4>3, <4>4, <4>5, <4>6
    <3> HIDE DEF ks1, r1
    <3> QED BY <3>1, <3>2 DEF Burst
  <2> HIDE DEF ks1, r1
  <2> QED BY <2>4, <2>5, <2>7, <2>8 DEF KeyInv, Bursts
<1> QED BY <1>5, <1>6

\* A burst ends with what came last.
LEMMA LastGrown ==
  ASSUME NEW S, NEW a \in Seq(S), NEW b \in Seq(S), Len(b) > 0
  PROVE  Last(a \o b) = Last(b)
<1> DEFINE c == a \o b
<1>1. Len(c) = Len(a) + Len(b) /\ Len(a) \in Nat /\ Len(b) \in Nat /\ \A i \in 1 .. Len(b) : c[i + Len(a)] = b[i]
  BY Rest
<1>2. Len(b) \in 1 .. Len(b)
  BY <1>1
<1> HIDE DEF c
<1>3. c[Len(c)] = b[Len(b)]
  <2>1. Len(c) = Len(b) + Len(a)
    BY <1>1
  <2> QED BY <1>1, <1>2, <2>1
<1> QED BY <1>3 DEF Last, c

\* A keystroke joins the end of the burst, which is no lone Esc.
LEMMA TypeKeepsKeys ==
  ASSUME KeyInv, Type
  PROVE  KeyInv'
<1>1. PICK n \in Nat : \E ks \in [1 .. n -> Keystrokes], r \in Bursts(n) : Burst(n, ks, r)
  BY DEF KeyInv
<1>2. PICK ks \in [1 .. n -> Keystrokes], r \in Bursts(n) : Burst(n, ks, r)
  BY <1>1
<1>3. /\ Len(typed) = n /\ r[1] = inbox /\ r[n + 1] = <<>>
      /\ \A i \in 1 .. n : /\ typed[i] = ks[i].key /\ r[i] = ks[i].bytes \o r[i + 1]
                           /\ ks[i].bytes = <<Escape>> => r[i + 1] = <<>>
                           /\ Last(r[i]) = Last(inbox)
      /\ \A i \in 1 .. n + 1 : r[i] \in Seq(Byte)
  BY <1>2 DEF Burst, Bursts
<1>4. PICK S : typed \in Seq(S)
  BY DEF KeyInv
<1>5. PICK k \in Keystrokes : inbox' = inbox \o k.bytes /\ typed' = Append(typed, k.key)
  BY DEF Type
<1>6. /\ key' = meant' /\ (typed # <<>> => Last(inbox) # Escape)
  BY DEF Type, KeyInv
<1>7. k.bytes \in Seq(Byte) /\ Len(k.bytes) > 0
  <2>1. k.bytes \in Seq(Byte) /\ IsKeystroke(k)
    BY KeystrokeAssumption
  <2>2. k.bytes = <<>> => FALSE
    <3> SUFFICES ASSUME k.bytes = <<>> PROVE FALSE
      OBVIOUS
    <3>1. Len(k.bytes) = 0
      OBVIOUS
    <3> QED BY <2>1, <3>1 DEF IsKeystroke
  <2> QED BY <2>1, <2>2
<1>8. \A i \in 1 .. n : ks[i] \in Keystrokes /\ ks[i].bytes \in Seq(Byte)
  BY <1>2, KeystrokeAssumption
<1>9. \A i \in 1 .. n : ks[i].bytes # <<Escape>>
  <2> SUFFICES ASSUME NEW i \in 1 .. n, ks[i].bytes = <<Escape>> PROVE FALSE
    OBVIOUS
  <2>1. r[i] = <<Escape>> \o <<>> /\ Last(r[i]) = Last(inbox)
    BY <1>3
  <2>2. Last(<<Escape>> \o <<>>) = Escape
    BY DEF Last
  <2>3. typed # <<>>
    <3>1. Len(typed) > 0 /\ Len(<<>>) = 0
      BY <1>3
    <3> QED BY <3>1
  <2> QED BY <1>6, <2>1, <2>2, <2>3
<1> DEFINE m == n + 1
           ks1 == [i \in 1 .. m |-> IF i \in 1 .. n THEN ks[i] ELSE k]
           r1 == [i \in 1 .. m + 1 |-> IF i \in 1 .. m THEN r[i] \o k.bytes ELSE <<>>]
<1>10. \A i \in 1 .. m : r[i] \o k.bytes \in Seq(Byte) /\ Last(r[i] \o k.bytes) = Last(k.bytes)
  <2> SUFFICES ASSUME NEW i \in 1 .. m PROVE r[i] \o k.bytes \in Seq(Byte) /\ Last(r[i] \o k.bytes) = Last(k.bytes)
    OBVIOUS
  <2>1. r[i] \in Seq(Byte)
    BY <1>3
  <2> QED BY <1>7, <2>1, LastGrown
<1>11. m \in Nat /\ ks1 \in [1 .. m -> Keystrokes] /\ r1 \in Bursts(m)
  <2>1. <<>> \in Seq(Byte) /\ m \in Nat
    OBVIOUS
  <2>2. \A i \in 1 .. m : (IF i \in 1 .. n THEN ks[i] ELSE k) \in Keystrokes
    BY <1>8
  <2> HIDE DEF m
  <2> QED BY <1>10, <2>1, <2>2 DEF Bursts
<1>12. /\ \A i \in 1 .. n : i \in 1 .. m /\ i + 1 \in 1 .. m
       /\ m \in 1 .. m /\ m \notin 1 .. n /\ m + 1 \notin 1 .. m /\ m + 1 \in 1 .. m + 1 /\ 1 \in 1 .. m
       /\ \A i \in 1 .. m : i \in 1 .. m + 1 /\ (i \in 1 .. n \/ i = m)
  OBVIOUS
<1>13. /\ \A i \in 1 .. n : ks1[i] = ks[i]
       /\ ks1[m] = k /\ r1[m + 1] = <<>>
       /\ \A i \in 1 .. m : r1[i] = r[i] \o k.bytes
  <2> HIDE DEF m
  <2> QED BY <1>12
<1>14. /\ Len(typed') = m /\ typed'[m] = k.key /\ \A i \in 1 .. n : typed'[i] = typed[i]
  BY <1>3, <1>4, <1>5
<1>15. r[m] = <<>>
  BY <1>3
<1> HIDE DEF m, ks1, r1
<1>16. ASSUME NEW i \in 1 .. m
       PROVE  /\ typed'[i] = ks1[i].key /\ r1[i] = ks1[i].bytes \o r1[i + 1]
              /\ ks1[i].bytes = <<Escape>> => r1[i + 1] = <<>>
              /\ Last(r1[i]) = Last(inbox')
  <2>1. Last(r1[i]) = Last(inbox')
    <3>1. Last(r1[i]) = Last(k.bytes)
      BY <1>10, <1>13
    <3>2. inbox' = r[1] \o k.bytes
      BY <1>3, <1>5
    <3>3. Last(inbox') = Last(k.bytes)
      BY <1>10, <1>12, <3>2
    <3> QED BY <3>1, <3>3
  <2>2. CASE i \in 1 .. n
    <3>1. ks1[i] = ks[i] /\ r1[i] = r[i] \o k.bytes /\ r1[i + 1] = r[i + 1] \o k.bytes
      BY <1>12, <1>13, <2>2
    <3>2. typed'[i] = ks[i].key /\ ks[i].bytes # <<Escape>>
      BY <1>3, <1>9, <1>14, <2>2
    <3>3. r[i] = ks[i].bytes \o r[i + 1]
      BY <1>3, <2>2
    <3>4. ks[i].bytes \in Seq(Byte) /\ r[i + 1] \in Seq(Byte)
      BY <1>3, <1>8, <2>2
    <3>5. (ks[i].bytes \o r[i + 1]) \o k.bytes = ks[i].bytes \o (r[i + 1] \o k.bytes)
      <4>1. PICK a \in Seq(Byte), b \in Seq(Byte), c \in Seq(Byte) :
              a = ks[i].bytes /\ b = r[i + 1] /\ c = k.bytes
        BY <1>7, <3>4
      <4>2. (a \o b) \o c = a \o (b \o c)
        BY ONLY a \in Seq(Byte), b \in Seq(Byte), c \in Seq(Byte), Grown
      <4> QED BY ONLY <4>1, <4>2
    <3> QED BY ONLY <2>1, <3>1, <3>2, <3>3, <3>5
  <2>3. CASE i = m
    <3>1. ks1[i] = k /\ r1[i] = r[m] \o k.bytes /\ r1[i + 1] = <<>> /\ typed'[i] = k.key
      BY <1>12, <1>13, <1>14, <2>3
    <3>2. r[m] \o k.bytes = k.bytes /\ k.bytes \o <<>> = k.bytes
      BY <1>7, <1>15
    <3> QED BY ONLY <2>1, <3>1, <3>2
  <2> QED BY <1>12, <2>2, <2>3
<1>17. Burst(m, ks1, r1)'
  <2>1. r1[1] = inbox'
    BY <1>3, <1>5, <1>12, <1>13
  <2> QED BY <1>13, <1>14, <1>16, <2>1 DEF Burst
<1>18. \E T : typed' \in Seq(T)
  <2>1. typed' \in Seq(S \cup {k.key})
    <3>1. typed \in Seq(S \cup {k.key})
      BY <1>4
    <3> QED BY <1>5, <3>1
  <2> QED BY <2>1
<1> QED BY <1>6, <1>11, <1>17, <1>18 DEF KeyInv, Bursts

\* What is typed ahead waits: a step that leaves the input alone keeps the invariant.
LEMMA KeysStay ==
  ASSUME KeyInv, UNCHANGED input
  PROVE  KeyInv'
<1>1. inbox' = inbox /\ key' = key /\ typed' = typed /\ meant' = meant
  BY DEF input
<1>2. \A n, ks, r : Burst(n, ks, r) => Burst(n, ks, r)'
  BY <1>1 DEF Burst
<1>3. key' = meant' /\ \E S : typed' \in Seq(S)
  BY <1>1 DEF KeyInv
<1>4. PICK n \in Nat : \E ks \in [1 .. n -> Keystrokes], r \in Bursts(n) : Burst(n, ks, r)
  BY DEF KeyInv
<1>5. PICK ks \in [1 .. n -> Keystrokes], r \in Bursts(n) : Burst(n, ks, r)
  BY <1>4
<1>6. Burst(n, ks, r)'
  BY <1>2, <1>5
<1> QED BY <1>3, <1>5, <1>6 DEF KeyInv, Bursts

\* Each key typed is read as that key, once and in order, however many are typed ahead:
\* no byte of a sequence is left behind or taken from the next, and what is thrown away
\* on the way in and out is thrown away whole.
THEOREM KeysReadAsTyped == Spec => []KeysAreTyped
<1>1. Init => KeyInv
  <2> SUFFICES ASSUME Init PROVE KeyInv
    OBVIOUS
  <2>1. inbox = <<>> /\ typed = <<>> /\ key = meant
    BY DEF Init
  <2> DEFINE ks == [i \in 1 .. 0 |-> CHOOSE k \in Keystrokes : TRUE]
             r == [i \in 1 .. 0 + 1 |-> <<>>]
  <2>2. ks \in [1 .. 0 -> Keystrokes] /\ r \in Bursts(0)
    BY DEF Bursts
  <2>3. Burst(0, ks, r)
    <3>1. Len(typed) = 0 /\ r[1] = inbox /\ r[0 + 1] = <<>> /\ 1 .. 0 = {}
      BY <2>1 DEF r
    <3> HIDE DEF ks, r
    <3> QED BY <3>1 DEF Burst
  <2>4. \E S : typed \in Seq(S)
    <3>1. typed \in Seq({})
      BY <2>1
    <3> QED BY <3>1
  <2> HIDE DEF ks, r
  <2> QED BY <2>1, <2>2, <2>3, <2>4 DEF KeyInv
<1>2. KeyInv /\ [Next]_vars => KeyInv'
  <2> SUFFICES ASSUME KeyInv, [Next]_vars PROVE KeyInv'
    OBVIOUS
  <2>1. CASE UNCHANGED input
    BY <2>1, KeysStay
  <2>2. CASE EnterRaw
    <3>1. inbox' = <<>> /\ typed' = <<>> /\ key' = meant'
      BY <2>2 DEF EnterRaw, KeyInv
    <3> QED BY <3>1, NothingTyped
  <2>3. CASE LeaveStep
    <3>1. CASE Head(leaving) = "input"
      <4>1. inbox' = <<>> /\ typed' = <<>> /\ key' = meant'
        BY <2>3, <3>1 DEF LeaveStep, KeyInv
      <4> QED BY <4>1, NothingTyped
    <3>2. CASE Head(leaving) # "input"
      BY <2>3, <3>2, <2>1 DEF LeaveStep, input
    <3> QED BY <3>1, <3>2
  <2>4. CASE Read
    BY <2>4, ReadKeepsKeys
  <2>5. CASE Type
    BY <2>5, TypeKeepsKeys
  <2>6. CASE EnterHooks \/ EnterScreen \/ Exit \/ Signal \/ Draw \/ Write \/ Resize
    BY <2>1, <2>6 DEF EnterHooks, EnterScreen, Exit, Signal, Draw, Write, Resize
  <2>7. CASE UNCHANGED vars
    BY <2>1, <2>7 DEF vars
  <2> QED BY <2>2, <2>3, <2>4, <2>5, <2>6, <2>7 DEF Next
<1>3. KeyInv => KeysAreTyped
  BY DEF KeyInv, KeysAreTyped
<1> QED BY <1>1, <1>2, <1>3, PTL DEF Spec
=============================================================================
