--------------------------- MODULE BackendChoice ---------------------------
(***************************************************************************)
(* list_backends() and resolve_backend(): every front-end names a device   *)
(* through them.  A host is the sequence of its OpenCL devices.            *)
(***************************************************************************)
EXTENDS Sequences

NoDevice == [id |-> "none", is_gpu |-> FALSE, integrated |-> FALSE]

ListBackends(host) == <<[id |-> "cpu", is_gpu |-> FALSE, integrated |-> FALSE]>> \o host

\* the first device of a kind, or the one of that name; NoDevice stands for the exception
ResolveBackend(want, host) ==
  LET all == ListBackends(host)
      dedicated == SelectSeq(all, LAMBDA b : b.is_gpu /\ ~b.integrated)
      integrated == SelectSeq(all, LAMBDA b : b.is_gpu /\ b.integrated)
      fit == CASE want \in {"", "auto"} -> dedicated \o integrated \o all
               [] want = "dedicated"    -> dedicated
               [] want = "integrated"   -> integrated
               [] OTHER                 -> SelectSeq(all, LAMBDA b : b.id = want)
  IN Head(fit \o <<NoDevice>>)
=============================================================================
