------------------------------ MODULE Terminal ------------------------------
(***************************************************************************)
(* rokktui and its terminal: enter(), the loop that draws and reads a key, *)
(* leave(), and the signals that may end the process at any step of them,  *)
(* while the user types and resizes the window.                            *)
(***************************************************************************)
EXTENDS Frame, Keys

CONSTANTS
  Sizes,       \* the sizes a window may have
  Drawings,    \* what draw() may draw: <<rows, partial>>
  Keystrokes,  \* what a terminal sends for a key: [bytes, key]
  Ahead        \* bound: keys typed that are not read yet

ASSUME TerminalAssumption ==
  /\ Sizes \subseteq Size
  /\ Drawings \subseteq Seq(Seq(Glyphs)) \X Seq(Glyphs)

\* parameters whose first is this number, of one digit or two: terminals send no longer ones
Begins(params, num) ==
  \E end \in 1 .. 2 :
     /\ end <= Len(params) /\ \A i \in 1 .. end : params[i] \in Digits
     /\ end = Len(params) \/ params[end + 1] = Semicolon
     /\ num = (params[end] - 48) + (IF end = 2 THEN 10 * (params[1] - 48) ELSE 0)

\* What terminals send for a key: a byte, a lone Esc, Esc before another key (Alt), or a
\* sequence of two or more bytes after Esc, whole and not longer than is looked at.  The
\* Linux console's function keys, "ESC [ [" and a letter, are none of these.
IsKeystroke(k) ==
  LET b == k.bytes
      n == Len(b)
  IN \/ b \in {<<c>> : c \in Byte \ {Escape}} /\ k.key = KeyForByte(b[1])
     \/ b = <<Escape>> /\ k.key = K_ESC
     \/ b \in {<<Escape, c>> : c \in Byte \ {Bracket, LetterO}} /\ k.key = K_ESC
     \/ b \in {<<Escape, LetterO, c>> : c \in Byte} /\ k.key = KeyForFinal(b[3])
     \/ /\ n \in 3 .. Longest + 2 /\ b[1] = Escape /\ b[2] = Bracket
        /\ b[n] \in Byte \ Params /\ \A i \in 3 .. n - 1 : b[i] \in Params
        /\ IF b[n] = Tilde THEN \E num \in 0 .. 99 : Begins(SubSeq(b, 3, n - 1), num) /\ k.key = KeyForTilde(num)
           ELSE k.key = KeyForFinal(b[n])

ASSUME KeystrokeAssumption == \A k \in Keystrokes : k.bytes \in Seq(Byte) /\ IsKeystroke(k)

VARIABLES
  at,       \* where main() is; "signal": in on_fatal_signal, "killed": dead before the hooks
  leaving,  \* the steps of leave() still to come
  g_raw,
  tty,      \* what the terminal is switched to: raw input, alternate screen, cursor
  window,   \* its size
  screen,
  frame,
  drawn,    \* history: what was drawn last
  resized,  \* history: the window was resized since its size was asked for
  missed,   \* history: it was, and back, before it was asked for again; not repainted since
  inbox,    \* the bytes that have arrived
  key,      \* what read_key() returned last
  typed,    \* history: the keys in inbox
  meant     \* history: the key that was typed for key

mode  == <<leaving, g_raw, tty>>
view  == <<window, screen, frame, drawn, resized, missed>>
input == <<inbox, key, typed, meant>>
vars  == <<at, mode, view, input>>

Cooked == [raw |-> FALSE, alt |-> FALSE, cursor |-> TRUE]

Cleared(size) == [c \in Cells(size) |-> Empty]

\* a screen whose contents nobody knows
Garbled(size) == [c \in Cells(size) |-> [char |-> "?", colour |-> Reset]]

Init == /\ at = "start" /\ leaving = <<>> /\ g_raw = FALSE /\ tty = Cooked
        /\ window \in Sizes /\ screen = Cleared(window) /\ frame = NewFrame
        /\ drawn = <<>> /\ resized = FALSE /\ missed = FALSE
        /\ inbox = <<>> /\ key = K_NONE /\ typed = <<>> /\ meant = K_NONE

-----------------------------------------------------------------------------
(* enter() and leave()                                                     *)

\* tcsetattr(): raw input, and what was typed before is thrown away
EnterRaw == /\ at = "start" /\ at' = "hooks"
            /\ tty' = [tty EXCEPT !.raw = TRUE] /\ inbox' = <<>> /\ typed' = <<>>
            /\ UNCHANGED <<leaving, g_raw, view, key, meant>>

\* the hooks for signals and exit()
EnterHooks == /\ at = "hooks" /\ at' = "screen" /\ g_raw' = TRUE
              /\ UNCHANGED <<leaving, tty, view, input>>

EnterScreen == /\ at = "screen" /\ at' = "draw"
               /\ tty' = [tty EXCEPT !.alt = TRUE, !.cursor = FALSE]
               /\ screen' \in {Cleared(window), Garbled(window)}
               /\ UNCHANGED <<leaving, g_raw, window, frame, drawn, resized, missed, input>>

\* mutant: the flag is taken down first
LeaveStepsFlagFirst == <<"flag", "screen", "input">>

\* write_out(), tcsetattr(), g_raw
LeaveSteps == <<"screen", "input", "flag">>

Leave == leaving' = IF g_raw THEN LeaveSteps ELSE <<>>

\* one step of leave()
LeaveStep ==
  /\ leaving # <<>> /\ leaving' = Tail(leaving)
  /\ LET step == Head(leaving) IN
     /\ tty' = CASE step = "screen" -> [tty EXCEPT !.alt = FALSE, !.cursor = TRUE]
                 [] step = "input"  -> [tty EXCEPT !.raw = FALSE]
                 [] OTHER           -> tty
     /\ g_raw' = (g_raw /\ step # "flag")
     /\ inbox' = IF step = "input" THEN <<>> ELSE inbox
     /\ typed' = IF step = "input" THEN <<>> ELSE typed
  /\ UNCHANGED <<at, view, key, meant>>

\* main() returns, or the handler dies of its signal; leave() at exit finds nothing to do
Exit == /\ at \in {"quit", "signal"} /\ leaving = <<>> /\ at' = "gone"
        /\ UNCHANGED <<mode, view, input>>

\* SIGINT, SIGTERM or SIGHUP, also in the handler of another
Signal == /\ at \notin {"gone", "killed"}
          /\ IF at \in {"start", "hooks"}
             THEN at' = "killed" /\ UNCHANGED leaving
             ELSE at' = "signal" /\ Leave
          /\ UNCHANGED <<g_raw, tty, view, input>>

-----------------------------------------------------------------------------
(* The loop                                                                *)

\* the size is asked for, and the frame drawn for it
Draw == /\ at = "draw" /\ at' = "write"
        /\ \E d \in Drawings : /\ frame' = Drawn(Begin(frame, window), d[1], d[2])
                               /\ drawn' = Ended(d[1], d[2])
        /\ resized' = FALSE
        /\ missed' = ((resized \/ missed) /\ ~frame.full /\ window = frame.prevSize)
        /\ UNCHANGED <<mode, window, screen, input>>

\* what was made for one size makes a mess of a window of another
Write == /\ at = "write" /\ at' = "key"
         /\ screen' = IF window = frame.size THEN Show(screen, Flush(frame), window) ELSE Garbled(window)
         /\ frame' = Flushed(frame)
         /\ UNCHANGED <<mode, window, drawn, resized, missed, input>>

\* read_key(), then handle_key(), which may quit
Read == /\ at = "key"
        /\ key' = ReadKey(inbox).key /\ inbox' = ReadKey(inbox).left
        /\ typed' = IF typed = <<>> THEN <<>> ELSE Tail(typed)
        /\ meant' = IF typed = <<>> THEN K_NONE ELSE Head(typed)
        /\ \/ at' = "draw" /\ UNCHANGED leaving
           \/ key' # K_NONE /\ at' = "quit" /\ Leave
        /\ UNCHANGED <<g_raw, tty, view>>

\* A sequence arrives in one burst, and nothing follows a lone Esc until it is read.
Type == /\ at \in {"start", "draw", "key"} /\ Len(typed) < Ahead
        /\ typed # <<>> => Last(inbox) # Escape
        /\ \E k \in Keystrokes : inbox' = inbox \o k.bytes /\ typed' = Append(typed, k.key)
        /\ UNCHANGED <<at, mode, view, key, meant>>

\* at any time and as often as the user likes; the terminal keeps what fits, or
\* rearranges it
Resize == /\ at \in {"draw", "write", "key"} /\ resized' = TRUE
          /\ window' \in Sizes \ {window}
          /\ screen' \in {[c \in Cells(window') |-> IF c \in Cells(window) THEN screen[c] ELSE Empty],
                          Garbled(window')}
          /\ UNCHANGED <<at, mode, frame, drawn, missed, input>>

Next == \/ EnterRaw \/ EnterHooks \/ EnterScreen \/ LeaveStep \/ Exit \/ Signal
        \/ Draw \/ Write \/ Read \/ Type \/ Resize

Spec == Init /\ [][Next]_vars

-----------------------------------------------------------------------------
(* Properties                                                              *)

\* the screen shows what was drawn; a window one column wide cannot (frame.cpp:57)
Faithful == window.cols > 1 => screen = Picture(drawn, window)

\* Once a frame is written the screen shows it and nothing of the frames before,
\* unless the window was resized since the frame was begun, or resized and back
\* between two frames with no full repaint since (frame.hpp:1-10, frame.cpp:48-51).
ScreenIsFrame == (at = "key" /\ ~resized /\ ~missed) => Faithful

\* Each key typed is read as that key, once and in order: no byte of a sequence is
\* left behind or taken from the next (term_posix.cpp:38-40, 67-68).
KeysAreTyped == key = meant

\* However the process ends once its hooks are set, also by a signal in the middle
\* of leave(), the terminal is as it was (term.hpp:43-49).
TerminalRestored == at = "gone" => tty = Cooked
=============================================================================
