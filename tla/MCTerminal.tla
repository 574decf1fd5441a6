----------------------------- MODULE MCTerminal -----------------------------
(* Small instances of Terminal: windows of two sizes, frames that grow,    *)
(* shrink, overflow and change colour within a row, and keys of every kind.  *)
EXTENDS Terminal

MCSizes == {[cols |-> 4, rows |-> 2], [cols |-> 2, rows |-> 3]}

MCDrawings ==
  { << <<>>, <<>> >>,
    << << <<"a", "b">>, <<"red", "b">> >>, <<>> >>,
    << << <<"a">> >>, <<"red", "b", "a", "b", "reset", "a">> >>,
    << << <<>>, <<"b", "red", "a", "b">>, <<"a">>, <<"b">> >>, <<>> >> }

MCKeystrokes ==
  {[bytes |-> <<27>>, key |-> K_ESC],
   [bytes |-> <<27, 120>>, key |-> K_ESC],                     \* Alt-x
   [bytes |-> <<27, 91, 65>>, key |-> K_UP],
   [bytes |-> <<27, 79, 66>>, key |-> K_DOWN],                 \* cursor keys in application mode
   [bytes |-> <<27, 91, 49, 59, 53, 67>>, key |-> K_RIGHT],    \* Ctrl-Right
   [bytes |-> <<27, 91, 52, 126>>, key |-> K_END],
   [bytes |-> <<27, 91, 51, 59, 50, 126>>, key |-> K_DELETE],  \* Shift-Delete
   [bytes |-> <<27, 91, 49, 53, 126>>, key |-> K_ESC],         \* F5
   [bytes |-> <<13>>, key |-> K_ENTER],
   [bytes |-> <<127>>, key |-> K_BACKSPACE],
   [bytes |-> <<91>>, key |-> 91],
   [bytes |-> <<7>>, key |-> K_NONE]}
=============================================================================
