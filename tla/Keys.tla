-------------------------------- MODULE Keys --------------------------------
(***************************************************************************)
(* read_key() on a POSIX terminal: bytes to keys.  A printable character   *)
(* is its own key, its code; the others are named.  Bytes are read one at  *)
(* a time, each with a timeout, so a sequence also ends where the bytes    *)
(* that have arrived end.                                                  *)
(***************************************************************************)
EXTENDS Integers, SequencesExt

CONSTANTS K_NONE, K_UP, K_DOWN, K_LEFT, K_RIGHT, K_ENTER, K_BACKSPACE, K_ESC, K_TAB,
          K_HOME, K_END, K_DELETE, K_PGUP, K_PGDN

Byte == 0 .. 255
Digits == 48 .. 57
Semicolon == 59
Tilde == 126
Bracket == 91
LetterO == 79
Escape == 27
Params == Digits \cup {Semicolon}

\* the most bytes after "ESC [" that are looked at
Longest == 16

KeyForFinal(c) ==
  CASE c = 65 -> K_UP [] c = 66 -> K_DOWN [] c = 67 -> K_RIGHT [] c = 68 -> K_LEFT
    [] c = 72 -> K_HOME [] c = 70 -> K_END [] OTHER -> K_ESC

KeyForTilde(n) ==
  CASE n \in {1, 7} -> K_HOME [] n \in {4, 8} -> K_END [] n = 3 -> K_DELETE
    [] n = 5 -> K_PGUP [] n = 6 -> K_PGDN [] OTHER -> K_ESC

\* a byte that begins no sequence
KeyForByte(c) ==
  CASE c \in {13, 10} -> K_ENTER [] c = 9 -> K_TAB [] c \in {127, 8} -> K_BACKSPACE
    [] c \in 32 .. 126 -> c [] OTHER -> K_NONE

\* mutant: the digits of a modifier are taken for more of the number
FirstNumAll(params) ==
  FoldLeft(LAMBDA n, c : 10 * n + (c - 48), 0, SelectSeq(params, LAMBDA c : c \in Digits))

\* the number before any semicolon
FirstNum(params) ==
  LET end == SelectInSeq(params, LAMBDA c : c = Semicolon)
  IN FoldLeft(LAMBDA n, c : 10 * n + (c - 48), 0, IF end = 0 THEN params ELSE SubSeq(params, 1, end - 1))

\* a key and what is left of the bytes after n of them are read
Took(key, bytes, n) == [key |-> key, left |-> SubSeq(bytes, n + 1, Len(bytes))]

\* after "ESC [": parameters and a final byte
DecodeCsi(bytes) ==
  LET final == SelectInSeq(bytes, LAMBDA c : c \notin Params)
  IN IF final = 0 \/ final > Longest THEN Took(K_ESC, bytes, Longest)
     ELSE Took(IF bytes[final] = Tilde THEN KeyForTilde(FirstNum(SubSeq(bytes, 1, final - 1)))
               ELSE KeyForFinal(bytes[final]),
               bytes, final)

\* after ESC
DecodeEscape(bytes) ==
  IF bytes = <<>> THEN Took(K_ESC, bytes, 0)
  ELSE IF bytes[1] = Bracket THEN DecodeCsi(Tail(bytes))
  ELSE IF bytes[1] = LetterO /\ Len(bytes) > 1 THEN Took(KeyForFinal(bytes[2]), bytes, 2)
  ELSE Took(K_ESC, bytes, 1)

ReadKey(bytes) ==
  IF bytes = <<>> THEN Took(K_NONE, bytes, 0)
  ELSE IF bytes[1] = Escape THEN DecodeEscape(Tail(bytes))
  ELSE Took(KeyForByte(bytes[1]), bytes, 1)
=============================================================================
