---------------------------- MODULE MCSearchJob ----------------------------
(* Small instances of SearchJob: one search of three origins a, b, c, on a  *)
(* CPU grid of four tiles and on a GPU grid of two.                        *)
EXTENDS SearchJob

CONSTANTS a, b, c, cpu, gpu, auto, named, nopath

AllOrigins == {a, b, c}
TwoGrids == {cpu, gpu}
GpuGrids == {gpu}
GridHits == [s \in {cpu, gpu} |-> IF s = cpu THEN <<{}, {a}, {b, c}, {}>> ELSE <<{a, b}, {c}>>]
Files == {auto, named}

Request(s, cap, first, path, keep, resume) ==
  [search |-> s, cap |-> cap, first |-> first, path |-> path, keep |-> keep, resume |-> resume]

\* a capped and an uncapped run, on the autosave or a named file
FileRequests ==
  {Request(cpu, 3, FALSE, named, TRUE, FALSE), Request(cpu, 1, TRUE, named, FALSE, FALSE),
   Request(gpu, 3, FALSE, named, FALSE, FALSE)}

\* the rokktui kind: text kept in memory, continued from a saved session
SessionRequests ==
  {Request(cpu, 3, FALSE, auto, TRUE, TRUE), Request(cpu, 2, TRUE, nopath, TRUE, TRUE)}

JobRequests == FileRequests \cup SessionRequests

AutosaveRequests == {Request(cpu, 3, FALSE, auto, FALSE, FALSE)}
PlainRequests    == {Request(cpu, 3, FALSE, nopath, FALSE, FALSE)}
CapRequests      == {Request(s, n, FALSE, named, FALSE, FALSE) : s \in {cpu, gpu}, n \in 1..3}

SoundDisk    == {"cancel", "pause", "resume", "kill", "throw"}
HealthyDisk  == {"cancel", "pause", "resume", "session", "kill", "throw"}
NoResume     == {"cancel", "pause", "kill", "disk"}
Toggles      == {"pause", "resume"}
CancelOnly   == {"cancel"}
=============================================================================
