-------------------------- MODULE SearchJobProofs --------------------------
(***************************************************************************)
(* Proofs about SearchJob, for every search, request, cap, pipeline depth  *)
(* and number of runs: from its inductive invariant that no checkpoint     *)
(* ever lies about the tiles it lists as done; then the life cycle a job   *)
(* shows, what a pause and its end leave behind, and that what it reports  *)
(* of tiles and caps is true.  The assumptions that exclude an event of    *)
(* the environment stand in the theorem that needs them.                   *)
(***************************************************************************)
EXTENDS SearchJob, FiniteSetTheorems, TLAPS

\* A selection of a set is part of it.
LEMMA FirstsSubset ==
  ASSUME NEW m, NEW room, NEW S \in Firsts(m, room)
  PROVE  S \subseteq m
BY DEF Firsts

\* The matches of one tile are a finite set of origins.
LEMMA HitsType ==
  ASSUME NEW s \in Searches
  PROVE  /\ Hits[s] \in Seq(SUBSET Origins)
         /\ Tiles(s) = 1 .. Len(Hits[s])
         /\ Len(Hits[s]) \in Nat
         /\ \A t \in Tiles(s) : /\ t \in Nat \ {0}
                                /\ Hits[s][t] \in SUBSET Origins
                                /\ Cardinality(Hits[s][t]) \in Nat
<1>1. Hits[s] \in Seq(SUBSET Origins)
  BY HitsAssumption
<1>2. Tiles(s) = 1 .. Len(Hits[s]) /\ Len(Hits[s]) \in Nat
  BY <1>1 DEF Tiles
<1>3. ASSUME NEW t \in Tiles(s)
      PROVE  /\ t \in Nat \ {0}
             /\ Hits[s][t] \in SUBSET Origins
             /\ Cardinality(Hits[s][t]) \in Nat
  <2>1. t \in Nat \ {0} /\ Hits[s][t] \in SUBSET Origins
    BY <1>1, <1>2
  <2>2. IsFiniteSet(Hits[s][t])
    BY <2>1, FS_Subset, HitsAssumption
  <2>3. QED
    BY <2>1, <2>2, FS_CardinalityType
<1>4. QED
  BY <1>1, <1>2, <1>3

\* What a request may contain.
LEMMA RequestType ==
  ASSUME NEW r \in Requests
  PROVE  /\ r.search \in Searches /\ r.cap \in Nat
         /\ r.first \in BOOLEAN /\ r.keep \in BOOLEAN /\ r.resume \in BOOLEAN
         /\ r.path \in Paths \cup {NoPath}
BY RequestAssumption

\* What a resume starts from is a whole checkpoint under the job's own
\* fingerprint.
LEMMA RestoredType ==
  ASSUME TypeOK
  PROVE  /\ RestoredFrom \in Checkpoint
         /\ RestoredFrom.fp = req.search
         /\ RestoredFrom \in {session, Scratch} \cup {disk[p] : p \in Paths}
<1>1. req.search \in Searches /\ req.path \in Paths \cup {NoPath}
  BY RequestType DEF TypeOK, ControlOK
<1>2. Scratch \in Checkpoint /\ Scratch.fp = req.search
  BY <1>1 DEF Scratch, Checkpoint
<1>3. Absent.kind # "whole" /\ Cut.kind # "whole"
  BY DEF Absent, Cut
<1>4. CASE req.resume /\ Accepted(session)
  <2>1. RestoredFrom = session
    BY <1>4 DEF RestoredFrom
  <2>2. session \in Checkpoint
    BY <1>3, <1>4 DEF TypeOK, StoreOK, Accepted
  <2>3. QED
    BY <1>4, <2>1, <2>2 DEF Accepted
<1>5. CASE /\ ~(req.resume /\ Accepted(session))
           /\ req.path # NoPath /\ Accepted(disk[req.path])
  <2>1. RestoredFrom = disk[req.path] /\ req.path \in Paths
    BY <1>1, <1>5 DEF RestoredFrom
  <2>2. disk[req.path] \in Checkpoint
    BY <1>3, <1>5, <2>1 DEF TypeOK, StoreOK, Accepted
  <2>3. QED
    BY <1>5, <2>1, <2>2 DEF Accepted
<1>6. CASE /\ ~(req.resume /\ Accepted(session))
           /\ ~(req.path # NoPath /\ Accepted(disk[req.path]))
  BY <1>2, <1>6 DEF RestoredFrom
<1>7. QED
  BY <1>4, <1>5, <1>6

\* A snapshot of the job is a checkpoint.
LEMMA SnapshotType ==
  ASSUME TypeOK
  PROVE  Snapshot \in Checkpoint /\ Snapshot.kind = "whole"
BY RequestType DEF TypeOK, ControlOK, SchedOK, KeptOK, Snapshot, Checkpoint

-----------------------------------------------------------------------------
(* Type correctness                                                        *)

\* The two ends of a queue of tiles in flight.
LEMMA QueueType ==
  ASSUME NEW q \in Seq(Entry), q # <<>>
  PROVE  /\ Head(q) \in Entry /\ Tail(q) \in Seq(Entry)
         /\ Head(q).tile \in Nat \ {0} /\ Head(q).got \in SUBSET Origins
<1>1. Head(q) \in Entry /\ Tail(q) \in Seq(Entry)
  OBVIOUS
<1>2. QED
  BY <1>1 DEF Entry

\* Saving only moves control.
LEMMA BeginSaveType ==
  ASSUME NEW d \in BOOLEAN, NEW next \in Places, BeginSave(d, next), TypeOK
  PROVE  pc' \in Places /\ ret' \in Places /\ saved' \in BOOLEAN
BY RequestType DEF BeginSave, Places, TypeOK, ControlOK

\* A job's fresh state, and the state without a process, are of the types.
LEMMA ResetType ==
  ASSUME NEW state \in {"none", "pending"}, Reset(state)
  PROVE  /\ ret' \in Places /\ cancel' \in BOOLEAN /\ pause' \in BOOLEAN
         /\ drained' \in BOOLEAN /\ saved' \in BOOLEAN
         /\ VisibleOK' /\ SchedOK' /\ KeptOK'
<1>1. /\ ret' \in Places /\ cancel' \in BOOLEAN /\ pause' \in BOOLEAN
      /\ drained' \in BOOLEAN /\ saved' \in BOOLEAN
  BY DEF Reset, Places
<1>2. VisibleOK'
  BY DEF Reset, VisibleOK, NewStatus, StatusType
<1>3. SchedOK'
  <2>1. done' \in SUBSET (Nat \ {0}) /\ cursor' \in Nat \ {0} /\ inflight' \in Seq(Entry)
    BY DEF Reset
  <2>2. more' \in BOOLEAN /\ stop' \in BOOLEAN
    BY DEF Reset
  <2>3. QED
    BY <2>1, <2>2 DEF SchedOK
<1>4. KeptOK'
  BY DEF Reset, KeptOK
<1>5. QED
  BY <1>1, <1>2, <1>3, <1>4

\* Every step of the job thread, the front-end and the process keeps the types.
THEOREM TypeCorrect == Spec => []TypeOK
<1>1. Init => TypeOK
  <2> SUFFICES ASSUME Init PROVE TypeOK
    OBVIOUS
  <2>1. ControlOK
    BY DEF Init, ControlOK, Places
  <2>2. VisibleOK
    BY DEF Init, VisibleOK, NewStatus, StatusType
  <2>3. SchedOK
    <3>1. done \in SUBSET (Nat \ {0}) /\ cursor \in Nat \ {0} /\ inflight \in Seq(Entry)
      BY DEF Init
    <3>2. more \in BOOLEAN /\ stop \in BOOLEAN
      BY DEF Init
    <3>3. QED
      BY <3>1, <3>2 DEF SchedOK
  <2>4. KeptOK
    BY DEF Init, KeptOK
  <2>5. StoreOK
    BY DEF Init, StoreOK
  <2>6. QED
    BY <2>1, <2>2, <2>3, <2>4, <2>5 DEF TypeOK
<1>2. TypeOK /\ [Next]_vars => TypeOK'
  <2> SUFFICES ASSUME TypeOK, [Next]_vars PROVE TypeOK'
    OBVIOUS
  <2>0. ControlOK /\ VisibleOK /\ SchedOK /\ KeptOK /\ StoreOK
    BY DEF TypeOK
  <2>1. ASSUME NEW r \in Requests, Submit(r) PROVE TypeOK'
    <3>1. ControlOK' /\ VisibleOK' /\ SchedOK' /\ KeptOK'
      BY <2>0, <2>1, ResetType DEF Submit, ControlOK, Places
    <3>2. StoreOK'
      BY <2>0, <2>1 DEF Submit, store, StoreOK
    <3>3. QED
      BY <3>1, <3>2 DEF TypeOK
  <2>2. CASE Kill
    <3>1. ControlOK' /\ VisibleOK' /\ SchedOK' /\ KeptOK'
      BY <2>0, <2>2, ResetType DEF Kill, ControlOK, Places
    <3>2. StoreOK'
      BY <2>0, <2>2 DEF Kill, store, StoreOK
    <3>3. QED
      BY <3>1, <3>2 DEF TypeOK
  <2>3. CASE Cancel
    <3>1. ControlOK' /\ VisibleOK' /\ SchedOK' /\ KeptOK' /\ StoreOK'
      BY <2>0, <2>3 DEF Cancel, control, clocks, visible, sched, kept, store, ControlOK, VisibleOK, SchedOK, KeptOK, StoreOK
    <3>2. QED
      BY <3>1 DEF TypeOK
  <2>4. ASSUME NEW on \in BOOLEAN, SetPause(on) PROVE TypeOK'
    <3>1. ControlOK' /\ VisibleOK' /\ SchedOK' /\ KeptOK' /\ StoreOK'
      BY <2>0, <2>4 DEF SetPause, control, clocks, visible, sched, kept, store, ControlOK, VisibleOK, SchedOK, KeptOK, StoreOK
    <3>2. QED
      BY <3>1 DEF TypeOK
  <2>5. CASE SaveSession
    <3>1. StoreOK'
      BY <2>0, <2>5 DEF SaveSession, StoreOK, VisibleOK, Absent
    <3>2. ControlOK' /\ VisibleOK' /\ SchedOK' /\ KeptOK'
      BY <2>0, <2>5 DEF SaveSession, control, flags, clocks, visible, sched, kept, ControlOK, VisibleOK, SchedOK, KeptOK
    <3>3. QED
      BY <3>1, <3>2 DEF TypeOK
  <2>6. CASE Fail
    <3>1. ControlOK'
      BY <2>0, <2>6 DEF Fail, ControlOK, Places, flags, clocks
    <3>2. VisibleOK'
      BY <2>0, <2>6 DEF Fail, VisibleOK, StatusType
    <3>3. SchedOK' /\ KeptOK' /\ StoreOK'
      BY <2>0, <2>6 DEF Fail, sched, kept, store, SchedOK, KeptOK, StoreOK
    <3>4. QED
      BY <3>1, <3>2, <3>3 DEF TypeOK
  <2>7. CASE Restore
    <3>1. /\ RestoredFrom.matches \in SUBSET Origins /\ RestoredFrom.done \in SUBSET (Nat \ {0})
          /\ RestoredFrom.lossy \in BOOLEAN
      BY RestoredType DEF Checkpoint
    <3>2. KeptOK'
      BY <2>0, <2>7, <3>1, FirstsSubset DEF Restore, KeptOK
    <3>3. SchedOK'
      BY <2>0, <2>7, <3>1 DEF Restore, SchedOK
    <3>4. ControlOK' /\ VisibleOK' /\ StoreOK'
      BY <2>0, <2>7 DEF Restore, flags, clocks, visible, store, Places, ControlOK, VisibleOK, StoreOK
    <3>5. QED
      BY <3>2, <3>3, <3>4 DEF TypeOK
  <2>8. CASE Configure
    <3>1. ControlOK'
      BY <2>0, <2>8 DEF Configure, ControlOK, Places, flags, clocks
    <3>2. VisibleOK'
      BY <2>0, <2>8 DEF Configure, VisibleOK, StatusType
    <3>3. SchedOK' /\ KeptOK' /\ StoreOK'
      BY <2>0, <2>8 DEF Configure, sched, kept, store, SchedOK, KeptOK, StoreOK
    <3>4. QED
      BY <3>1, <3>2, <3>3 DEF TypeOK
  <2>9. CASE AdmitTile
    <3> PICK t \in Unscanned :
          \E S \in Firsts(Hits[req.search][t], WorkerRoom) :
            /\ cursor' = t + 1
            /\ inflight' = Append(inflight, [tile |-> t, got |-> S])
            /\ trunc' = (trunc \/ CpuDropped(t, S))
            /\ emitted' = emitted + Cardinality(Hits[req.search][t])
      BY <2>9 DEF AdmitTile
    <3> PICK S \in Firsts(Hits[req.search][t], WorkerRoom) :
               /\ cursor' = t + 1
               /\ inflight' = Append(inflight, [tile |-> t, got |-> S])
               /\ trunc' = (trunc \/ CpuDropped(t, S))
               /\ emitted' = emitted + Cardinality(Hits[req.search][t])
      OBVIOUS
    <3>1. /\ t \in Nat \ {0}
          /\ Hits[req.search][t] \in SUBSET Origins
          /\ Cardinality(Hits[req.search][t]) \in Nat
      BY <2>0, HitsType, RequestType DEF Unscanned, ControlOK
    <3>2. [tile |-> t, got |-> S] \in Entry
      BY <3>1, FirstsSubset DEF Entry
    <3>3. SchedOK'
      BY <2>0, <2>9, <3>1, <3>2 DEF AdmitTile, SchedOK
    <3>4. KeptOK'
      BY <2>0, <2>9, <3>1 DEF AdmitTile, KeptOK, CpuDropped
    <3>5. ControlOK' /\ VisibleOK' /\ StoreOK'
      BY <2>0, <2>9 DEF AdmitTile, control, flags, clocks, visible, store,
                        ControlOK, VisibleOK, StoreOK
    <3>6. QED
      BY <3>3, <3>4, <3>5 DEF TypeOK
  <2>10. CASE NoMoreTiles
    <3>1. Len(Hits[req.search]) \in Nat
      BY <2>0, HitsType, RequestType DEF ControlOK
    <3>2. SchedOK'
      <4>1. cursor' \in Nat \ {0}
        BY <2>10, <3>1 DEF NoMoreTiles
      <4>2. done' \in SUBSET (Nat \ {0}) /\ inflight' \in Seq(Entry)
            /\ stop' \in BOOLEAN /\ more' \in BOOLEAN
        BY <2>0, <2>10 DEF NoMoreTiles, SchedOK
      <4>3. QED
        BY <4>1, <4>2 DEF SchedOK
    <3>3. ControlOK'
      BY <2>0, <2>10 DEF NoMoreTiles, ControlOK, Places, flags, clocks
    <3>4. VisibleOK' /\ KeptOK' /\ StoreOK'
      BY <2>0, <2>10 DEF NoMoreTiles, visible, kept, store, VisibleOK, KeptOK, StoreOK
    <3>5. QED
      BY <3>2, <3>3, <3>4 DEF TypeOK
  <2>11. CASE StopAdmitting
    <3>1. ControlOK'
      BY <2>0, <2>11 DEF StopAdmitting, ControlOK, Places, flags, clocks
    <3>2. VisibleOK' /\ SchedOK' /\ KeptOK' /\ StoreOK'
      BY <2>0, <2>11 DEF StopAdmitting, visible, sched, kept, store, VisibleOK, SchedOK, KeptOK, StoreOK
    <3>3. QED
      BY <3>1, <3>2 DEF TypeOK
  <2>12. CASE Collect
    <3> DEFINE t == Head(inflight).tile
               m == Head(inflight).got
    <3>1. /\ t \in Nat \ {0} /\ m \in SUBSET Origins /\ Tail(inflight) \in Seq(Entry)
      BY <2>0, <2>12, QueueType DEF Collect, SchedOK
    <3>2. SchedOK'
      BY <2>0, <2>12, <3>1 DEF Collect, SchedOK
    <3>3. KeptOK'
      <4>1. PICK S \in Firsts(m, req.cap - Cardinality(found)) :
                  /\ found' = found \cup S
                  /\ capped' = (capped \/ S # m)
                  /\ lossy' = (lossy \/ S # Hits[req.search][t])
        BY <2>12 DEF Collect
      <4>2. S \in SUBSET Origins
        BY <3>1, FirstsSubset
      <4>3. QED
        BY <2>0, <2>12, <4>1, <4>2 DEF Collect, KeptOK, GpuDropped
    <3>4. VisibleOK'
      <4>1. done' \in SUBSET (Nat \ {0}) /\ found' \in SUBSET Origins
            /\ capped' \in BOOLEAN /\ trunc' \in BOOLEAN
        BY <3>2, <3>3 DEF SchedOK, KeptOK
      <4>2. status' = [status EXCEPT !.shown = done', !.matches = found',
                         !.truncated = capped' \/ trunc', !.full = (done' = Tiles(req.search))]
        BY <2>12 DEF Collect
      <4>3. ASSUME NEW d \in SUBSET (Nat \ {0}), NEW f \in SUBSET Origins,
                   NEW b \in BOOLEAN, NEW c \in BOOLEAN
            PROVE  [status EXCEPT !.shown = d, !.matches = f, !.truncated = b, !.full = c] \in StatusType
        BY <2>0 DEF VisibleOK, StatusType
      <4>4. status' \in StatusType
        BY <4>1, <4>2, <4>3
      <4>5. QED
        BY <2>0, <2>12, <4>4 DEF Collect, VisibleOK
    <3>5. ControlOK'
      <4>1. PICK onDisk \in BOOLEAN, inText \in BOOLEAN :
              IF (onDisk /\ req.path # NoPath) \/ (inText /\ req.keep)
              THEN BeginSave(onDisk, "admit")
              ELSE pc' = "admit" /\ UNCHANGED <<ret, saved>>
        BY <2>12 DEF Collect
      <4>2. "admit" \in Places
        BY DEF Places
      <4>3. pc' \in Places /\ ret' \in Places /\ saved' \in BOOLEAN
        BY <2>0, <4>1, <4>2, BeginSaveType DEF ControlOK
      <4>4. QED
        BY <2>0, <2>12, <4>3 DEF Collect, ControlOK, flags
    <3>6. StoreOK'
      BY <2>0, <2>12 DEF Collect, store, StoreOK
    <3>7. QED
      BY <3>2, <3>3, <3>4, <3>5, <3>6 DEF TypeOK
  <2>13. CASE EnterPause
    <3>1. pc' \in Places /\ ret' \in Places /\ saved' \in BOOLEAN
      BY <2>13, BeginSaveType DEF EnterPause, Places
    <3>2. ControlOK'
      BY <2>0, <2>13, <3>1 DEF EnterPause, ControlOK, flags
    <3>3. VisibleOK'
      BY <2>0, <2>13 DEF EnterPause, VisibleOK, StatusType
    <3>4. SchedOK' /\ KeptOK' /\ StoreOK'
      BY <2>0, <2>13 DEF EnterPause, sched, kept, store, SchedOK, KeptOK, StoreOK
    <3>5. QED
      BY <3>2, <3>3, <3>4 DEF TypeOK
  <2>14. CASE LeavePause
    <3>1. ControlOK'
      BY <2>0, <2>14 DEF LeavePause, ControlOK, Places, flags, clocks
    <3>2. VisibleOK'
      BY <2>0, <2>14 DEF LeavePause, VisibleOK, StatusType
    <3>3. SchedOK' /\ KeptOK' /\ StoreOK'
      BY <2>0, <2>14 DEF LeavePause, sched, kept, store, SchedOK, KeptOK, StoreOK
    <3>4. QED
      BY <3>1, <3>2, <3>3 DEF TypeOK
  <2>15. CASE Finish
    <3>1. pc' \in Places /\ ret' \in Places /\ saved' \in BOOLEAN
      BY <2>15, BeginSaveType DEF Finish, Places
    <3>2. ControlOK'
      BY <2>0, <2>15, <3>1 DEF Finish, ControlOK, flags
    <3>3. VisibleOK' /\ SchedOK' /\ KeptOK' /\ StoreOK'
      BY <2>0, <2>15 DEF Finish, visible, sched, kept, store, VisibleOK, SchedOK, KeptOK, StoreOK
    <3>4. QED
      BY <3>2, <3>3 DEF TypeOK
  <2>16. CASE SaveOpen
    <3>1. ControlOK'
      BY <2>0, <2>16 DEF SaveOpen, AfterFile, ControlOK, Places, flags, clocks
    <3>2. StoreOK'
      BY <2>0, <2>16 DEF SaveOpen, StoreOK
    <3>3. VisibleOK' /\ SchedOK' /\ KeptOK'
      BY <2>0, <2>16 DEF SaveOpen, visible, sched, kept, VisibleOK, SchedOK, KeptOK
    <3>4. QED
      BY <3>1, <3>2, <3>3 DEF TypeOK
  <2>17. CASE SaveWrite
    <3>1. ControlOK'
      BY <2>0, <2>17 DEF SaveWrite, AfterFile, ControlOK, Places, flags, clocks
    <3>2. StoreOK'
      BY <2>0, <2>17, SnapshotType DEF SaveWrite, StoreOK
    <3>3. VisibleOK' /\ SchedOK' /\ KeptOK'
      BY <2>0, <2>17 DEF SaveWrite, visible, sched, kept, VisibleOK, SchedOK, KeptOK
    <3>4. QED
      BY <3>1, <3>2, <3>3 DEF TypeOK
  <2>18. CASE SaveText
    <3>1. ControlOK'
      BY <2>0, <2>18 DEF SaveText, ControlOK, flags, clocks
    <3>2. VisibleOK'
      BY <2>0, <2>18, SnapshotType DEF SaveText, VisibleOK
    <3>3. SchedOK' /\ KeptOK' /\ StoreOK'
      BY <2>0, <2>18 DEF SaveText, sched, kept, store, SchedOK, KeptOK, StoreOK
    <3>4. QED
      BY <3>1, <3>2, <3>3 DEF TypeOK
  <2>19. CASE RemoveAutosave
    <3>1. ControlOK'
      BY <2>0, <2>19 DEF RemoveAutosave, ControlOK, Places, flags, clocks
    <3>2. StoreOK'
      BY <2>0, <2>19 DEF RemoveAutosave, StoreOK
    <3>3. VisibleOK' /\ SchedOK' /\ KeptOK'
      BY <2>0, <2>19 DEF RemoveAutosave, visible, sched, kept, VisibleOK, SchedOK, KeptOK
    <3>4. QED
      BY <3>1, <3>2, <3>3 DEF TypeOK
  <2>20. CASE Publish
    <3>1. status' \in StatusType /\ results' \in SUBSET Origins
      BY <2>0, <2>20 DEF Publish, VisibleOK, KeptOK, StatusType
    <3>2. ControlOK' /\ VisibleOK'
      BY <2>0, <2>20, <3>1 DEF Publish, ControlOK, VisibleOK, Places, flags, clocks
    <3>3. SchedOK' /\ KeptOK' /\ StoreOK'
      BY <2>0, <2>20 DEF Publish, sched, kept, store, SchedOK, KeptOK, StoreOK
    <3>4. QED
      BY <3>2, <3>3 DEF TypeOK
  <2>21. CASE UNCHANGED vars
    BY <2>0, <2>21 DEF vars, control, flags, visible, sched, kept, clocks, store,
                       TypeOK, ControlOK, VisibleOK, SchedOK, KeptOK, StoreOK
  <2>22. QED
    BY <2>1, <2>2, <2>3, <2>4, <2>5, <2>6, <2>7, <2>8, <2>9, <2>10, <2>11, <2>12, <2>13,
       <2>14, <2>15, <2>16, <2>17, <2>18, <2>19, <2>20, <2>21
       DEF Next, JobThread, Pump, FrontEnd
<1>3. QED
  BY <1>1, <1>2, PTL DEF Spec

-----------------------------------------------------------------------------
(* The inductive invariant.  The safety properties speak of done, found and *)
(* the checkpoints; what they need besides is the order of the pipeline.    *)

\* the tiles in flight are in spiral order, behind the cursor, not done, and
\* the worker's answers are matches of theirs
FlightSound ==
  \A i \in DOMAIN inflight :
    /\ inflight[i].tile \in Tiles(req.search)
    /\ inflight[i].tile \notin done
    /\ inflight[i].tile < cursor
    /\ inflight[i].got \subseteq Hits[req.search][inflight[i].tile]
    /\ \A j \in DOMAIN inflight : i < j => inflight[i].tile < inflight[j].tile

\* a job is restored before its pump has started, and only then
FreshSound ==
  /\ ret # "restore"
  /\ pc = "restore" => inflight = <<>> /\ cursor = 1 /\ ~stop

JobInv == JobSound /\ FlightSound /\ NoneSkipped /\ NearestFirst /\ FreshSound

IInv == TypeOK /\ JobInv /\ CheckpointsSound

\* The matches of one more tile.
LEMMA HitsOfMore ==
  ASSUME NEW s \in Searches, NEW T, NEW t \in Tiles(s)
  PROVE  HitsOf(s, T \cup {t}) = HitsOf(s, T) \cup Hits[s][t]
BY DEF HitsOf

\* No tiles, no matches.
LEMMA HitsOfNone ==
  ASSUME NEW s \in Searches
  PROVE  HitsOf(s, {}) = {} /\ Accounts(s, {}, {}, FALSE)
BY DEF HitsOf, Accounts

\* Only a restore and the pump touch what JobInv is about.
LEMMA JobFrame ==
  ASSUME JobInv, UNCHANGED <<req, done, found, lossy, inflight, cursor, stop>>,
         pc' # "restore", ret' # "restore"
  PROVE  JobInv'
BY DEF JobInv, JobSound, FlightSound, NoneSkipped, NearestFirst, FreshSound, InFlight

\* Only a save touches what a resume could read.
LEMMA CheckpointFrame ==
  ASSUME CheckpointsSound, UNCHANGED <<text, disk, session>>
  PROVE  CheckpointsSound'
BY DEF CheckpointsSound

\* What the job writes down is sound because the job is.
LEMMA SnapshotSound ==
  ASSUME JobInv
  PROVE  Sound(Snapshot)
BY DEF JobInv, JobSound, Sound, Snapshot

\* What the job starts from is sound because every checkpoint is.
LEMMA RestoredSound ==
  ASSUME TypeOK, CheckpointsSound
  PROVE  Accounts(req.search, RestoredFrom.done, RestoredFrom.matches, RestoredFrom.lossy)
<1>1. req.search \in Searches
  BY RequestType DEF TypeOK, ControlOK
<1>2. RestoredFrom \in Checkpoint /\ RestoredFrom.fp = req.search /\ RestoredFrom.kind = "whole"
  BY RestoredType DEF Checkpoint
<1>3. CASE RestoredFrom = Scratch
  BY <1>1, <1>3, HitsOfNone DEF Scratch
<1>4. CASE RestoredFrom = session \/ \E p \in Paths : RestoredFrom = disk[p]
  <2>1. Sound(RestoredFrom)
    BY <1>4 DEF CheckpointsSound
  <2>2. QED
    BY <1>2, <2>1 DEF Sound
<1>5. QED
  BY <1>3, <1>4, RestoredType

\* A fresh job satisfies the invariant whatever its request.
LEMMA ResetInv ==
  ASSUME NEW state, Reset(state), req' \in Requests
  PROVE  JobInv'
<1>1. req'.search \in Searches
  BY RequestType
<1>2. done' = {} /\ found' = {} /\ lossy' = FALSE /\ inflight' = <<>> /\ cursor' = 1
      /\ stop' = FALSE /\ ret' = "admit"
  BY DEF Reset
<1>3. JobSound'
  BY <1>1, <1>2, HitsOfNone DEF JobSound
<1>4. FlightSound'
  BY <1>2 DEF FlightSound
<1>5. NoneSkipped'
  BY <1>1, <1>2, HitsType DEF NoneSkipped
<1>6. NearestFirst' /\ FreshSound'
  BY <1>2 DEF NearestFirst, FreshSound
<1>7. QED
  BY <1>3, <1>4, <1>5, <1>6 DEF JobInv

\* Saving returns to a place other than the restore.
LEMMA BeginSavePlace ==
  ASSUME NEW d \in BOOLEAN, NEW next \in Places, next # "restore", BeginSave(d, next)
  PROVE  pc' # "restore" /\ ret' # "restore"
BY DEF BeginSave, Places

\* Restoring takes over a sound checkpoint, less what the cap cuts.
LEMMA RestoreInv ==
  ASSUME IInv, Restore
  PROVE  JobInv'
<1>1. TypeOK /\ JobInv /\ CheckpointsSound /\ pc = "restore"
  BY DEF IInv, Restore
<1>2. inflight = <<>> /\ cursor = 1 /\ ~stop /\ ret # "restore"
  BY <1>1 DEF JobInv, FreshSound
<1>3. UNCHANGED <<req, inflight, cursor, stop, ret>> /\ pc' = "configure"
  BY DEF Restore
<1>4. JobSound'
  <2>1. Accounts(req.search, RestoredFrom.done, RestoredFrom.matches, RestoredFrom.lossy)
    BY <1>1, RestoredSound
  <2>2. PICK S \in Firsts(RestoredFrom.matches, req.cap) :
          found' = S /\ lossy' = (RestoredFrom.lossy \/ S # RestoredFrom.matches)
    BY DEF Restore
  <2>3. done' = RestoredFrom.done
    BY <2>1 DEF Restore, Accounts
  <2>4. S \subseteq RestoredFrom.matches
    BY FirstsSubset
  <2>5. QED
    BY <1>3, <2>1, <2>2, <2>3, <2>4 DEF JobSound, Accounts
<1>5. FlightSound' /\ NearestFirst' /\ FreshSound'
  BY <1>2, <1>3 DEF FlightSound, NearestFirst, FreshSound
<1>6. NoneSkipped'
  BY <1>1, <1>2, <1>3, HitsType, RequestType DEF NoneSkipped, TypeOK, ControlOK
<1>7. QED
  BY <1>4, <1>5, <1>6 DEF JobInv

\* A queue with one more entry at its end.
LEMMA QueueAppend ==
  ASSUME NEW q \in Seq(Entry), NEW e \in Entry
  PROVE  /\ DOMAIN q = 1 .. Len(q) /\ Len(q) \in Nat
         /\ DOMAIN Append(q, e) = 1 .. Len(q) + 1
         /\ \A i \in DOMAIN q : i \in DOMAIN Append(q, e) /\ Append(q, e)[i] = q[i]
         /\ Append(q, e)[Len(q) + 1] = e
OBVIOUS

\* A queue without its first entry.
LEMMA QueueTail ==
  ASSUME NEW q \in Seq(Entry), q # <<>>
  PROVE  /\ DOMAIN q = 1 .. Len(q) /\ Len(q) \in Nat \ {0} /\ 1 \in DOMAIN q /\ q[1] = Head(q)
         /\ DOMAIN Tail(q) = 1 .. Len(q) - 1
         /\ \A i \in DOMAIN Tail(q) : i + 1 \in DOMAIN q /\ Tail(q)[i] = q[i + 1]
OBVIOUS

\* Handing out the nearest unscanned tile keeps the pipeline in spiral order
\* and leaves nothing behind.
LEMMA AdmitInv ==
  ASSUME IInv, AdmitTile
  PROVE  JobInv'
<1>0. TypeOK /\ JobSound /\ FlightSound /\ NoneSkipped /\ NearestFirst /\ FreshSound
  BY DEF IInv, JobInv
<1>1. PICK t \in Unscanned :
        \E S \in Firsts(Hits[req.search][t], WorkerRoom) :
          /\ NextTile(t)
          /\ cursor' = t + 1
          /\ inflight' = Append(inflight, [tile |-> t, got |-> S])
  BY DEF AdmitTile
<1>2. PICK S \in Firsts(Hits[req.search][t], WorkerRoom) :
        inflight' = Append(inflight, [tile |-> t, got |-> S])
  BY <1>1
<1>3. /\ UNCHANGED <<req, done, found, lossy, stop>>
      /\ pc' = pc /\ ret' = ret /\ pc = "admit"
  BY DEF AdmitTile, control
<1>4. /\ req.search \in Searches /\ cursor \in Nat \ {0} /\ inflight \in Seq(Entry)
      /\ \A u \in Tiles(req.search) : u \in Nat \ {0} /\ Hits[req.search][u] \in SUBSET Origins
  BY <1>0, RequestType, HitsType DEF TypeOK, ControlOK, SchedOK
<1>5. /\ t \in Tiles(req.search) /\ t \in Nat \ {0} /\ t >= cursor /\ t \notin done
      /\ S \subseteq Hits[req.search][t]
  BY <1>4, FirstsSubset DEF Unscanned
<1> DEFINE e == [tile |-> t, got |-> S]
<1>6. e \in Entry /\ e.tile = t /\ e.got = S
  BY <1>4, <1>5 DEF Entry
<1>7. /\ DOMAIN inflight = 1 .. Len(inflight) /\ Len(inflight) \in Nat
      /\ DOMAIN inflight' = 1 .. Len(inflight) + 1
      /\ \A i \in DOMAIN inflight : i \in DOMAIN inflight' /\ inflight'[i] = inflight[i]
      /\ inflight'[Len(inflight) + 1] = e
  BY <1>2, <1>4, <1>6, QueueAppend
<1>8. JobSound' /\ NearestFirst' /\ FreshSound'
  BY <1>0, <1>3 DEF JobSound, NearestFirst, FreshSound
<1>9. FlightSound'
  <2> SUFFICES ASSUME NEW i \in DOMAIN inflight'
               PROVE  /\ inflight'[i].tile \in Tiles(req.search)
                      /\ inflight'[i].tile \notin done
                      /\ inflight'[i].tile < cursor'
                      /\ inflight'[i].got \subseteq Hits[req.search][inflight'[i].tile]
                      /\ \A j \in DOMAIN inflight' : i < j => inflight'[i].tile < inflight'[j].tile
    BY <1>3 DEF FlightSound
  <2>1. ASSUME NEW k \in DOMAIN inflight
        PROVE  inflight[k].tile \in Nat /\ inflight[k].tile < t
    <3>1. inflight[k].tile \in Tiles(req.search) /\ inflight[k].tile < cursor
      BY <1>0 DEF FlightSound
    <3>2. QED
      BY <1>4, <1>5, <3>1
  <2>2. CASE i \in DOMAIN inflight
    <3>1. inflight'[i] = inflight[i] /\ inflight[i].tile < t + 1
      BY <1>5, <1>7, <2>1, <2>2
    <3>2. ASSUME NEW j \in DOMAIN inflight', i < j
          PROVE  inflight'[i].tile < inflight'[j].tile
      <4>1. CASE j \in DOMAIN inflight
        BY <1>0, <1>7, <2>2, <3>2, <4>1 DEF FlightSound
      <4>2. CASE j = Len(inflight) + 1
        BY <1>6, <1>7, <2>1, <2>2, <4>2
      <4>3. QED
        BY <1>7, <4>1, <4>2
    <3>3. QED
      BY <1>0, <1>1, <2>2, <3>1, <3>2 DEF FlightSound
  <2>3. CASE i = Len(inflight) + 1
    <3>1. inflight'[i].tile = t /\ inflight'[i].got = S
      BY <1>6, <1>7, <2>3
    <3>2. \A j \in DOMAIN inflight' : ~(i < j)
      BY <1>7, <2>3
    <3>3. QED
      BY <1>1, <1>5, <3>1, <3>2
  <2>4. QED
    BY <1>7, <2>2, <2>3
<1>10. NoneSkipped'
  <2> SUFFICES ASSUME NEW u \in Tiles(req.search), u < t + 1, u \notin done
               PROVE  u \in InFlight'
    BY <1>1, <1>3 DEF NoneSkipped
  <2>1. CASE u < cursor
    <3>1. PICK i \in DOMAIN inflight : inflight[i].tile = u
      BY <1>0, <2>1 DEF NoneSkipped, InFlight
    <3>2. i \in DOMAIN inflight' /\ inflight'[i].tile = u
      BY <1>7, <3>1
    <3>3. QED
      BY <3>2 DEF InFlight
  <2>2. CASE u >= cursor
    <3>1. u \in Unscanned
      BY <2>2 DEF Unscanned
    <3>2. u = t
      BY <1>1, <1>4, <1>5, <3>1 DEF NextTile
    <3>3. Len(inflight) + 1 \in DOMAIN inflight' /\ inflight'[Len(inflight) + 1].tile = u
      BY <1>6, <1>7, <3>2
    <3>4. QED
      BY <3>3 DEF InFlight
  <2>3. QED
    BY <1>4, <2>1, <2>2
<1>11. QED
  BY <1>8, <1>9, <1>10 DEF JobInv

\* When next() has nothing left, every tile is done or in flight.
LEMMA NoMoreTilesInv ==
  ASSUME IInv, NoMoreTiles
  PROVE  JobInv'
<1>0. TypeOK /\ JobSound /\ FlightSound /\ NoneSkipped /\ NearestFirst /\ FreshSound
  BY DEF IInv, JobInv
<1>1. /\ UNCHANGED <<req, done, found, lossy, stop, inflight, ret>>
      /\ cursor' = Len(Hits[req.search]) + 1 /\ pc' = "drain" /\ Unscanned = {}
  BY DEF NoMoreTiles, kept
<1>2. /\ req.search \in Searches /\ cursor \in Nat \ {0}
      /\ Tiles(req.search) = 1 .. Len(Hits[req.search]) /\ Len(Hits[req.search]) \in Nat
  BY <1>0, RequestType, HitsType DEF TypeOK, ControlOK, SchedOK
<1>3. JobSound' /\ NearestFirst' /\ FreshSound'
  BY <1>0, <1>1 DEF JobSound, NearestFirst, FreshSound
<1>4. FlightSound'
  BY <1>0, <1>1, <1>2 DEF FlightSound
<1>5. NoneSkipped'
  <2>1. \A u \in Tiles(req.search) : u < cursor \/ u \in done
    BY <1>1, <1>2 DEF Unscanned
  <2>2. QED
    BY <1>0, <1>1, <2>1 DEF NoneSkipped, InFlight
<1>6. QED
  BY <1>3, <1>4, <1>5 DEF JobInv

\* Recording the oldest tile in flight keeps matches and tiles together, and
\* a match found there is the nearest.
LEMMA CollectInv ==
  ASSUME IInv, Collect
  PROVE  JobInv'
<1>0. TypeOK /\ JobSound /\ FlightSound /\ NoneSkipped /\ NearestFirst /\ FreshSound
  BY DEF IInv, JobInv
<1> DEFINE t == Head(inflight).tile
           m == Head(inflight).got
<1>1. /\ inflight # <<>> /\ inflight' = Tail(inflight) /\ done' = done \cup {t}
      /\ stop' = (stop \/ (req.first /\ m # {})) /\ UNCHANGED <<req, cursor>>
  BY DEF Collect
<1>2. PICK S \in Firsts(m, req.cap - Cardinality(found)) :
        /\ found' = found \cup S
        /\ lossy' = (lossy \/ S # Hits[req.search][t])
  BY DEF Collect
<1>3. /\ req.search \in Searches /\ cursor \in Nat \ {0} /\ inflight \in Seq(Entry)
      /\ \A u \in Tiles(req.search) : u \in Nat \ {0}
  BY <1>0, RequestType, HitsType DEF TypeOK, ControlOK, SchedOK
<1>4. /\ DOMAIN inflight = 1 .. Len(inflight) /\ Len(inflight) \in Nat \ {0}
      /\ 1 \in DOMAIN inflight /\ inflight[1] = Head(inflight)
      /\ DOMAIN inflight' = 1 .. Len(inflight) - 1
      /\ \A i \in DOMAIN inflight' : i + 1 \in DOMAIN inflight /\ inflight'[i] = inflight[i + 1]
  BY <1>1, <1>3, QueueTail
<1>5. /\ t \in Tiles(req.search) /\ t \notin done /\ t < cursor
      /\ m \subseteq Hits[req.search][t]
  BY <1>0, <1>4 DEF FlightSound
<1>6. \A i \in DOMAIN inflight : i # 1 => t < inflight[i].tile
  BY <1>0, <1>4 DEF FlightSound
<1>7. JobSound'
  <2>1. S \subseteq Hits[req.search][t]
    BY <1>5, FirstsSubset
  <2>2. HitsOf(req.search, done \cup {t}) = HitsOf(req.search, done) \cup Hits[req.search][t]
    BY <1>3, <1>5, HitsOfMore
  <2>3. QED
    BY <1>0, <1>1, <1>2, <1>5, <2>1, <2>2 DEF JobSound, Accounts
<1>8. FlightSound'
  <2> SUFFICES ASSUME NEW i \in DOMAIN inflight'
               PROVE  /\ inflight'[i].tile \in Tiles(req.search)
                      /\ inflight'[i].tile \notin done \cup {t}
                      /\ inflight'[i].tile < cursor
                      /\ inflight'[i].got \subseteq Hits[req.search][inflight'[i].tile]
                      /\ \A j \in DOMAIN inflight' : i < j => inflight'[i].tile < inflight'[j].tile
    BY <1>1 DEF FlightSound
  <2>1. i + 1 \in DOMAIN inflight /\ inflight'[i] = inflight[i + 1] /\ i + 1 # 1
    BY <1>4
  <2>2. t < inflight[i + 1].tile
    BY <1>6, <2>1
  <2>3. inflight[i + 1].tile \in Nat /\ t \in Nat
    BY <1>0, <1>3, <1>5, <2>1 DEF FlightSound
  <2>4. ASSUME NEW j \in DOMAIN inflight', i < j
        PROVE  inflight'[i].tile < inflight'[j].tile
    <3>1. j + 1 \in DOMAIN inflight /\ inflight'[j] = inflight[j + 1] /\ i + 1 < j + 1
      BY <1>4, <2>4
    <3>2. QED
      BY <1>0, <2>1, <3>1 DEF FlightSound
  <2>5. QED
    BY <1>0, <2>1, <2>2, <2>3, <2>4 DEF FlightSound
<1>9. \A i \in DOMAIN inflight : i = 1 \/ inflight[i].tile \in InFlight'
  <2> SUFFICES ASSUME NEW i \in DOMAIN inflight, i # 1 PROVE inflight[i].tile \in InFlight'
    OBVIOUS
  <2>1. i - 1 \in DOMAIN inflight' /\ inflight'[i - 1] = inflight[i]
    BY <1>4
  <2>2. QED
    BY <2>1 DEF InFlight
<1>10. NoneSkipped'
  BY <1>0, <1>1, <1>4, <1>9 DEF NoneSkipped, InFlight
<1>11. NearestFirst'
  <2>1. CASE stop
    BY <1>0, <1>1, <2>1 DEF NearestFirst
  <2>2. CASE req.first /\ m # {}
    <3>1. Hits[req.search][t] # {}
      BY <1>5, <2>2
    <3>2. ASSUME NEW u \in Tiles(req.search), u < t PROVE u \in done
      <4>1. u < cursor
        BY <1>3, <1>5, <3>2
      <4>2. ASSUME NEW i \in DOMAIN inflight, inflight[i].tile = u PROVE FALSE
        BY <1>3, <1>4, <1>5, <1>6, <3>2, <4>2
      <4>3. QED
        BY <1>0, <4>1, <4>2 DEF NoneSkipped, InFlight
    <3>3. QED
      BY <1>1, <1>5, <3>1, <3>2 DEF NearestFirst
  <2>3. QED
    <3>1. CASE ~stop'
      BY <3>1 DEF NearestFirst
    <3>2. QED
      BY <1>1, <2>1, <2>2, <3>1
<1>12. FreshSound'
  <2>1. PICK onDisk \in BOOLEAN, inText \in BOOLEAN :
          IF (onDisk /\ req.path # NoPath) \/ (inText /\ req.keep)
          THEN BeginSave(onDisk, "admit")
          ELSE pc' = "admit" /\ UNCHANGED <<ret, saved>>
    BY DEF Collect
  <2>2. "admit" \in Places /\ "admit" # "restore"
    BY DEF Places
  <2>3. QED
    BY <1>0, <2>1, <2>2, BeginSavePlace DEF FreshSound
<1>13. QED
  BY <1>7, <1>8, <1>10, <1>11, <1>12 DEF JobInv

-----------------------------------------------------------------------------
(* The theorems                                                            *)

\* The invariant holds in every reachable state.
THEOREM InvariantHolds == Spec => []IInv
<1>1. Init => JobInv /\ CheckpointsSound
  <2> SUFFICES ASSUME Init PROVE JobInv /\ CheckpointsSound
    OBVIOUS
  <2>1. req.search \in Searches
    BY RequestType DEF Init
  <2>2. done = {} /\ found = {} /\ lossy = FALSE /\ inflight = <<>> /\ cursor = 1
        /\ stop = FALSE /\ ret = "admit"
    BY DEF Init
  <2>3. JobSound
    BY <2>1, <2>2, HitsOfNone DEF JobSound
  <2>4. FlightSound /\ NearestFirst /\ FreshSound
    BY <2>2 DEF FlightSound, NearestFirst, FreshSound
  <2>5. NoneSkipped
    BY <2>1, <2>2, HitsType DEF NoneSkipped
  <2>6. CheckpointsSound
    BY DEF Init, CheckpointsSound, Sound, Absent
  <2>7. QED
    BY <2>3, <2>4, <2>5, <2>6 DEF JobInv
<1>2. ASSUME TypeOK, TypeOK', JobInv, CheckpointsSound, [Next]_vars
      PROVE  JobInv' /\ CheckpointsSound'
  <2>0. IInv /\ ret # "restore"
    BY <1>2 DEF IInv, JobInv, FreshSound
  <2>1. ASSUME NEW r \in Requests, Submit(r) PROVE JobInv' /\ CheckpointsSound'
    <3>1. Reset("pending") /\ req' \in Requests
      BY <2>1 DEF Submit
    <3>2. text' = Absent /\ UNCHANGED <<disk, session>>
      BY <2>1 DEF Submit, Reset, store
    <3>3. CheckpointsSound'
      BY <1>2, <3>2 DEF CheckpointsSound, Sound, Absent
    <3>4. QED
      BY <3>1, <3>3, ResetInv
  <2>2. CASE Kill
    <3>1. Reset("none") /\ req' \in Requests
      BY <1>2, <2>2 DEF Kill, TypeOK, ControlOK
    <3>2. text' = Absent /\ UNCHANGED <<disk, session>>
      BY <2>2 DEF Kill, Reset, store
    <3>3. CheckpointsSound'
      BY <1>2, <3>2 DEF CheckpointsSound, Sound, Absent
    <3>4. QED
      BY <3>1, <3>3, ResetInv
  <2>3. CASE Cancel \/ \E on \in BOOLEAN : SetPause(on)
    <3>1. UNCHANGED <<control, sched, kept, visible, store>>
      BY <2>3 DEF Cancel, SetPause
    <3>2. QED
      BY <1>2, <3>1 DEF control, sched, kept, visible, store, JobInv, JobSound, FlightSound,
         NoneSkipped, NearestFirst, FreshSound, InFlight, CheckpointsSound
  <2>4. CASE SaveSession
    <3>1. session' = text /\ UNCHANGED <<control, sched, kept, text, disk>>
      BY <2>4 DEF SaveSession, visible
    <3>2. JobInv'
      BY <1>2, <3>1 DEF control, sched, kept, JobInv, JobSound, FlightSound,
         NoneSkipped, NearestFirst, FreshSound, InFlight
    <3>3. CheckpointsSound'
      BY <1>2, <3>1 DEF CheckpointsSound
    <3>4. QED
      BY <3>2, <3>3
  <2>5. CASE Restore
    BY <1>2, <2>0, <2>5, RestoreInv, CheckpointFrame DEF Restore, visible, store
  <2>6. CASE AdmitTile
    BY <1>2, <2>0, <2>6, AdmitInv, CheckpointFrame DEF AdmitTile, visible, store
  <2>7. CASE NoMoreTiles
    BY <1>2, <2>0, <2>7, NoMoreTilesInv, CheckpointFrame DEF NoMoreTiles, visible, store
  <2>8. CASE Collect
    <3>1. UNCHANGED <<text, disk, session>>
      BY <2>8 DEF Collect, store
    <3>2. QED
      BY <1>2, <2>0, <2>8, <3>1, CollectInv, CheckpointFrame
  <2>9. CASE Fail \/ Configure \/ StopAdmitting \/ LeavePause
    <3>1. /\ UNCHANGED <<req, sched, kept, text, store>>
          /\ pc' # "restore" /\ ret' = ret
      BY <2>9 DEF Fail, Configure, StopAdmitting, LeavePause, visible
    <3>2. QED
      BY <1>2, <2>0, <3>1, JobFrame, CheckpointFrame DEF sched, kept, store
  <2>10. CASE EnterPause
    <3>1. UNCHANGED <<req, sched, kept, text, store>>
      BY <2>10 DEF EnterPause
    <3>2. pc' # "restore" /\ ret' # "restore"
      BY <2>10, BeginSavePlace DEF EnterPause, Places
    <3>3. QED
      BY <1>2, <3>1, <3>2, JobFrame, CheckpointFrame DEF sched, kept, store
  <2>11. CASE Finish
    <3>1. UNCHANGED <<req, sched, kept, text, store>>
      BY <2>11 DEF Finish, visible
    <3>2. pc' # "restore" /\ ret' # "restore"
      BY <2>11, BeginSavePlace DEF Finish, Places
    <3>3. QED
      BY <1>2, <3>1, <3>2, JobFrame, CheckpointFrame DEF sched, kept, store
  <2>12. CASE SaveOpen \/ SaveWrite \/ RemoveAutosave
    <3>1. /\ UNCHANGED <<req, sched, kept, text, session>>
          /\ pc' # "restore" /\ ret' = ret
      BY <2>0, <2>12 DEF SaveOpen, SaveWrite, RemoveAutosave, AfterFile, visible
    <3>2. JobInv'
      BY <1>2, <2>0, <3>1, JobFrame DEF sched, kept
    <3>3. \A p \in Paths : disk'[p] = disk[p] \/ disk'[p] \in {Cut, Snapshot, Absent}
      BY <1>2, <2>12 DEF SaveOpen, SaveWrite, RemoveAutosave, TypeOK, StoreOK
    <3>4. Sound(Snapshot) /\ Sound(Cut) /\ Sound(Absent)
      BY <1>2, SnapshotSound DEF Sound, Cut, Absent
    <3>5. CheckpointsSound'
      BY <1>2, <3>1, <3>3, <3>4 DEF CheckpointsSound
    <3>6. QED
      BY <3>2, <3>5
  <2>13. CASE SaveText
    <3>1. /\ UNCHANGED <<req, sched, kept, store>> /\ text' = Snapshot
          /\ pc' # "restore" /\ ret' = ret
      BY <2>0, <2>13 DEF SaveText
    <3>2. JobInv'
      BY <1>2, <2>0, <3>1, JobFrame DEF sched, kept
    <3>3. CheckpointsSound'
      BY <1>2, <3>1, SnapshotSound DEF CheckpointsSound, store
    <3>4. QED
      BY <3>2, <3>3
  <2>14. CASE Publish
    <3>1. /\ UNCHANGED <<req, sched, kept, text, store>>
          /\ pc' # "restore" /\ ret' = ret
      BY <2>14 DEF Publish
    <3>2. QED
      BY <1>2, <2>0, <3>1, JobFrame, CheckpointFrame DEF sched, kept, store
  <2>15. CASE UNCHANGED vars
    BY <1>2, <2>15 DEF vars, control, visible, sched, kept, store, JobInv, JobSound,
       FlightSound, NoneSkipped, NearestFirst, FreshSound, InFlight, CheckpointsSound
  <2>16. QED
    BY <1>2, <2>1, <2>2, <2>3, <2>4, <2>5, <2>6, <2>7, <2>8, <2>9, <2>10, <2>11, <2>12,
       <2>13, <2>14, <2>15 DEF Next, JobThread, Pump, FrontEnd
<1>3. Spec => [](JobInv /\ CheckpointsSound)
  BY <1>1, <1>2, TypeCorrect, PTL DEF Spec
<1>4. QED
  BY <1>3, TypeCorrect, PTL DEF IInv

\* No checkpoint a resume could accept ever lies about a tile it lists as done.
THEOREM CheckpointsAreSound == Spec => []CheckpointsSound
<1>1. IInv => CheckpointsSound
  BY DEF IInv
<1>2. QED
  BY <1>1, InvariantHolds, PTL

\* The matches a job keeps are those of the tiles it counts as done.
THEOREM JobIsSound == Spec => []JobSound
<1>1. IInv => JobSound
  BY DEF IInv, JobInv
<1>2. QED
  BY <1>1, InvariantHolds, PTL

\* The cursor leaves no tile behind.
THEOREM NoTileSkipped == Spec => []NoneSkipped
<1>1. IInv => NoneSkipped
  BY DEF IInv, JobInv
<1>2. QED
  BY <1>1, InvariantHolds, PTL

\* A search that stops at a match stops at the nearest.
THEOREM NearestMatchFirst == Spec => []NearestFirst
<1>1. IInv => NearestFirst
  BY DEF IInv, JobInv
<1>2. QED
  BY <1>1, InvariantHolds, PTL

\* No origin is kept twice.
THEOREM NoOriginTwice == Spec => []ScannedOnce
<1>1. IInv => ScannedOnce
  <2> SUFFICES ASSUME IInv, NEW i \in DOMAIN inflight
               PROVE  /\ inflight[i].tile \notin done
                      /\ Hits[req.search][inflight[i].tile] \cap found = {}
                      /\ \A j \in DOMAIN inflight : i # j => inflight[i].tile # inflight[j].tile
    BY DEF ScannedOnce
  <2>1. TypeOK /\ JobSound /\ FlightSound
    BY DEF IInv, JobInv
  <2>2. /\ req.search \in Searches /\ DOMAIN inflight \subseteq Nat
        /\ \A u \in Tiles(req.search) : u \in Nat
    BY <2>1, RequestType, HitsType DEF TypeOK, ControlOK, SchedOK
  <2>3. inflight[i].tile \in Tiles(req.search) /\ inflight[i].tile \notin done
    BY <2>1 DEF FlightSound
  <2>4. Hits[req.search][inflight[i].tile] \cap found = {}
    <3>1. found \subseteq HitsOf(req.search, done)
      BY <2>1 DEF JobSound, Accounts
    <3>2. \A u \in done \cap Tiles(req.search) :
            Hits[req.search][inflight[i].tile] \cap Hits[req.search][u] = {}
      BY <2>2, <2>3, HitsAssumption DEF Tiles
    <3>3. QED
      BY <3>1, <3>2 DEF HitsOf
  <2>5. ASSUME NEW j \in DOMAIN inflight, i # j
        PROVE  inflight[i].tile # inflight[j].tile
    <3>1. inflight[i].tile \in Nat /\ inflight[j].tile \in Nat
      BY <2>1, <2>2 DEF FlightSound
    <3>2. inflight[i].tile < inflight[j].tile \/ inflight[j].tile < inflight[i].tile
      BY <2>1, <2>2, <2>5 DEF FlightSound
    <3>3. QED
      BY <3>1, <3>2
  <2>6. QED
    BY <2>3, <2>4, <2>5
<1>2. QED
  BY <1>1, InvariantHolds, PTL

-----------------------------------------------------------------------------
(* The places of the thread, and the states it shows                       *)

Saves == {"open", "write", "text"}

\* where control is once a save that is going on is over
At == IF pc \in Saves THEN ret ELSE pc

\* the state that the service shows at each place of the thread
StateShown ==
  /\ pc = "off" => status.state = "none"
  /\ pc \in {"restore", "configure"} => status.state = "pending"
  /\ At \in {"admit", "drain", "remove", "publish"} => status.state = "running"
  /\ At = "paused" => status.state = "paused"
  /\ pc = "ended" => status.state \in {"done", "cancelled", "error"}

PlaceInv ==
  /\ ret \in {"admit", "paused", "remove", "publish"}
  /\ StateShown
  /\ pc # "ended" => results = {}

\* Where a save that begins leads, now and in the end.
LEMMA BeginSaveLeads ==
  ASSUME NEW d \in BOOLEAN, NEW next \in {"admit", "paused", "remove", "publish"},
         BeginSave(d, next)
  PROVE  /\ At' = next /\ ret' = next /\ pc' \in {"open", "text", next}
         /\ pc' = "open" <=> d /\ req.path # NoPath
         /\ pc' # "open" => (pc' = "text" <=> req.keep)
BY DEF BeginSave, At, Saves

\* A step of a save goes on with it or returns.
LEMMA SaveStepLeads ==
  ASSUME PlaceInv, SaveOpen \/ SaveWrite \/ SaveText
  PROVE  /\ At' = At /\ ret' = ret /\ At = ret /\ pc \in Saves
         /\ pc' \in {"write", "text", ret} /\ pc' # "ended"
BY DEF PlaceInv, SaveOpen, SaveWrite, SaveText, AfterFile, At, Saves

\* A collected tile leaves the job running, behind a save or not.
LEMMA CollectLeads ==
  ASSUME Collect
  PROVE  /\ At' = "admit" /\ pc' \in {"open", "text", "admit"} /\ ret' \in {ret, "admit"}
         /\ pc' = "open" => req.path # NoPath
<1>1. PICK onDisk \in BOOLEAN, inText \in BOOLEAN :
        IF (onDisk /\ req.path # NoPath) \/ (inText /\ req.keep)
        THEN BeginSave(onDisk, "admit")
        ELSE pc' = "admit" /\ UNCHANGED <<ret, saved>>
  BY DEF Collect
<1>2. CASE BeginSave(onDisk, "admit")
  BY <1>2, BeginSaveLeads
<1>3. CASE pc' = "admit" /\ UNCHANGED <<ret, saved>>
  BY <1>3 DEF At, Saves
<1>4. QED
  BY <1>1, <1>2, <1>3

\* The thread, the state it shows and its results keep in step.
LEMMA PlaceStep ==
  ASSUME TypeOK, PlaceInv, [Next]_vars
  PROVE  PlaceInv'
<1>0. status \in StatusType
  BY DEF TypeOK, VisibleOK
<1>1. ASSUME NEW r \in Requests, Submit(r) PROVE PlaceInv'
  BY <1>1 DEF Submit, Reset, NewStatus, PlaceInv, StateShown, At, Saves
<1>2. CASE Kill
  BY <1>2 DEF Kill, Reset, NewStatus, PlaceInv, StateShown, At, Saves
<1>3. CASE Cancel \/ (\E on \in BOOLEAN : SetPause(on)) \/ SaveSession \/ UNCHANGED vars
  <2>1. UNCHANGED <<pc, ret, status, results>>
    BY <1>3 DEF Cancel, SetPause, SaveSession, vars, control, visible
  <2>2. QED
    BY <2>1 DEF PlaceInv, StateShown, At
<1>4. CASE Fail
  <2>1. /\ pc' = "ended" /\ ret' = ret /\ results' = results
        /\ status' = [status EXCEPT !.state = "error"]
    BY <1>4 DEF Fail
  <2>2. status'.state = "error"
    BY <1>0, <2>1 DEF StatusType
  <2>3. QED
    BY <2>1, <2>2 DEF PlaceInv, StateShown, At, Saves
<1>5. CASE Restore
  BY <1>5 DEF Restore, visible, PlaceInv, StateShown, At, Saves
<1>6. CASE Configure
  <2>1. /\ pc' = "admit" /\ pc = "configure" /\ ret' = ret /\ results' = results
        /\ status' = [status EXCEPT !.state = "running"]
    BY <1>6 DEF Configure
  <2>2. status'.state = "running"
    BY <1>0, <2>1 DEF StatusType
  <2>3. QED
    BY <2>1, <2>2 DEF PlaceInv, StateShown, At, Saves
<1>7. CASE AdmitTile \/ NoMoreTiles \/ StopAdmitting
  <2>1. /\ pc = "admit" /\ pc' \in {"admit", "drain"}
        /\ UNCHANGED <<ret, status, results>>
    BY <1>7 DEF AdmitTile, NoMoreTiles, StopAdmitting, control, visible
  <2>2. QED
    BY <2>1 DEF PlaceInv, StateShown, At, Saves
<1>8. CASE Collect
  <2>1. pc = "drain" /\ results' = results /\ status'.state = status.state
    BY <1>0, <1>8 DEF Collect, StatusType
  <2>2. QED
    BY <1>8, <2>1, CollectLeads DEF PlaceInv, StateShown, At, Saves
<1>9. CASE EnterPause
  <2>1. /\ pc = "drain" /\ results' = results /\ BeginSave(TRUE, "paused")
        /\ status' = [status EXCEPT !.state = "paused"]
    BY <1>9 DEF EnterPause
  <2>2. status'.state = "paused"
    BY <1>0, <2>1 DEF StatusType
  <2>3. QED
    BY <2>1, <2>2, BeginSaveLeads DEF PlaceInv, StateShown, At, Saves
<1>10. CASE LeavePause
  <2>1. /\ pc = "paused" /\ pc' = "admit" /\ ret' = ret /\ results' = results
        /\ status' = [status EXCEPT !.state = "running"]
    BY <1>10 DEF LeavePause
  <2>2. status'.state = "running"
    BY <1>0, <2>1 DEF StatusType
  <2>3. QED
    BY <2>1, <2>2 DEF PlaceInv, StateShown, At, Saves
<1>11. CASE Finish
  <2>1. /\ pc = "drain" /\ UNCHANGED <<status, results>>
        /\ \E d \in BOOLEAN, next \in {"remove", "publish"} : BeginSave(d, next)
    BY <1>11 DEF Finish, visible
  <2>2. QED
    BY <2>1, BeginSaveLeads DEF PlaceInv, StateShown, At, Saves
<1>12. CASE SaveOpen \/ SaveWrite \/ SaveText
  <2>1. UNCHANGED <<status, results>>
    BY <1>12 DEF SaveOpen, SaveWrite, SaveText, visible
  <2>2. QED
    BY <1>12, <2>1, SaveStepLeads DEF PlaceInv, StateShown, At, Saves
<1>13. CASE RemoveAutosave
  BY <1>13 DEF RemoveAutosave, visible, PlaceInv, StateShown, At, Saves
<1>14. CASE Publish
  <2>1. status'.state \in {"done", "cancelled"} /\ pc' = "ended" /\ ret' = ret
    BY <1>0, <1>14 DEF Publish, StatusType
  <2>2. QED
    BY <2>1 DEF PlaceInv, StateShown, At, Saves
<1>15. QED
  BY <1>1, <1>2, <1>3, <1>4, <1>5, <1>6, <1>7, <1>8, <1>9, <1>10, <1>11, <1>12, <1>13, <1>14
     DEF Next, JobThread, Pump, FrontEnd

\* PlaceInv holds in every reachable state.
LEMMA PlaceHolds == Spec => []PlaceInv
<1>1. Init => PlaceInv
  BY DEF Init, NewStatus, PlaceInv, StateShown, At, Saves
<1>2. QED
  BY <1>1, PlaceStep, TypeCorrect, PTL DEF Spec

-----------------------------------------------------------------------------
(* The life cycle                                                          *)

\* Every step is one of the life cycle's, or changes neither state nor results.
LEMMA LifecycleStep ==
  ASSUME TypeOK, PlaceInv, [Next]_vars
  PROVE  [Lifecycle!Next]_<<status.state, results>>
<1> DEFINE Goal == Lifecycle!Next \/ UNCHANGED <<status.state, results>>
<1>0. status \in StatusType /\ found \in SUBSET Origins
  BY DEF TypeOK, VisibleOK, KeptOK
<1>1. ASSUME NEW r \in Requests, Submit(r) PROVE Goal
  <2>1. status.state \in {"done", "cancelled", "error", "none"}
    BY <1>1 DEF Submit, Live, PlaceInv, StateShown
  <2>2. status'.state = "pending" /\ results' = {}
    BY <1>1 DEF Submit, Reset, NewStatus
  <2>3. QED
    BY <2>1, <2>2 DEF Lifecycle!Next, Lifecycle!Submitted, Lifecycle!Final
<1>2. CASE Kill
  <2>1. pc \notin {"off", "ended"} /\ pc \in Places
    BY <1>2 DEF Kill, Live, TypeOK, ControlOK
  <2>2. status.state \in {"pending", "running", "paused"}
    BY <2>1 DEF PlaceInv, StateShown, At, Saves, Places
  <2>3. status'.state = "none" /\ results' = {}
    BY <1>2 DEF Kill, Reset, NewStatus
  <2>4. QED
    BY <2>2, <2>3 DEF Lifecycle!Next, Lifecycle!Lost
<1>3. CASE Cancel \/ (\E on \in BOOLEAN : SetPause(on)) \/ SaveSession \/ UNCHANGED vars
  BY <1>3 DEF Cancel, SetPause, SaveSession, vars, visible
<1>4. CASE Fail
  <2>1. status.state \in {"pending", "running"}
    BY <1>4 DEF Fail, PlaceInv, StateShown, At, Saves
  <2>2. status' = [status EXCEPT !.state = "error"] /\ results' = results
    BY <1>4 DEF Fail
  <2>3. QED
    BY <1>0, <2>1, <2>2 DEF StatusType, Lifecycle!Next, Lifecycle!Failed
<1>5. CASE Restore \/ AdmitTile \/ NoMoreTiles \/ StopAdmitting \/ Finish
           \/ SaveOpen \/ SaveWrite \/ SaveText \/ RemoveAutosave
  BY <1>5 DEF Restore, AdmitTile, NoMoreTiles, StopAdmitting, Finish, SaveOpen, SaveWrite,
              SaveText, RemoveAutosave, visible
<1>6. CASE Configure
  <2>1. status.state = "pending"
    BY <1>6 DEF Configure, PlaceInv, StateShown
  <2>2. status' = [status EXCEPT !.state = "running"] /\ results' = results
    BY <1>6 DEF Configure
  <2>3. QED
    BY <1>0, <2>1, <2>2 DEF StatusType, Lifecycle!Next, Lifecycle!Started
<1>7. CASE Collect
  BY <1>0, <1>7 DEF Collect, StatusType
<1>8. CASE EnterPause
  <2>1. status.state = "running"
    BY <1>8 DEF EnterPause, PlaceInv, StateShown, At, Saves
  <2>2. status' = [status EXCEPT !.state = "paused"] /\ results' = results
    BY <1>8 DEF EnterPause
  <2>3. QED
    BY <1>0, <2>1, <2>2 DEF StatusType, Lifecycle!Next, Lifecycle!Paused
<1>9. CASE LeavePause
  <2>1. status.state = "paused"
    BY <1>9 DEF LeavePause, PlaceInv, StateShown, At, Saves
  <2>2. status' = [status EXCEPT !.state = "running"] /\ results' = results
    BY <1>9 DEF LeavePause
  <2>3. QED
    BY <1>0, <2>1, <2>2 DEF StatusType, Lifecycle!Next, Lifecycle!Resumed
<1>10. CASE Publish
  <2>1. status.state = "running"
    BY <1>10 DEF Publish, PlaceInv, StateShown, At, Saves
  <2>2. status'.state \in {"done", "cancelled"} /\ results' = found
    BY <1>0, <1>10 DEF Publish, StatusType
  <2>3. QED
    BY <1>0, <2>1, <2>2 DEF Lifecycle!Next, Lifecycle!Finished
<1>11. Goal
  BY <1>1, <1>2, <1>3, <1>4, <1>5, <1>6, <1>7, <1>8, <1>9, <1>10
     DEF Next, JobThread, Pump, FrontEnd
<1>12. QED
  BY <1>11

\* poll() and results() keep the life cycle of JobLifecycle: a job is pending, then
\* running, between pauses, and ends once, and its results appear only then.
THEOREM LifecycleKept == Spec => LifecycleSpec
<1>1. Init => Lifecycle!Init
  BY DEF Init, NewStatus, Lifecycle!Init
<1>2. QED
  BY <1>1, LifecycleStep, TypeCorrect, PlaceHolds, PTL
     DEF Spec, LifecycleSpec, Lifecycle!Spec, Lifecycle!lifecycle

-----------------------------------------------------------------------------
(* What a pause and the end leave behind                                   *)

\* in a pause, past the pump, or over
Resting == At \in {"paused", "remove", "publish"} \/ Ended

\* the file is to hold the whole progress: at the end, an autosave need not
FileDue == /\ req.path # NoPath
           /\ At # "paused" => req.path # AutosavePath

\* A save is on its way to the file, then to the text; what is behind it is exact
\* and stays so, because nothing moves while the job rests.
CopiesInv ==
  /\ Resting => inflight = <<>>
  /\ pc \in {"open", "write"} => req.path # NoPath
  /\ At = "remove" => req.path = AutosavePath
  /\ Resting /\ pc \notin Saves /\ req.keep => text = Snapshot
  /\ "disk" \notin Events /\ Resting /\ pc \notin {"open", "write"} /\ FileDue
       => disk[req.path] = Snapshot
  /\ Ended => results = found

\* A job that has ended is shown so only once its thread is gone.
LEMMA EndedAt ==
  ASSUME TypeOK, PlaceInv
  PROVE  Ended => pc = "ended" /\ At = "ended"
BY DEF TypeOK, ControlOK, Places, PlaceInv, StateShown, Ended, At, Saves

\* Nothing is asked of a job that does not rest.
LEMMA CopiesRestless ==
  ASSUME ~Resting, pc \notin {"open", "write"} \/ req.path # NoPath
  PROVE  CopiesInv
BY DEF CopiesInv, Resting, Ended

\* A save that begins with the pipeline empty will make the copies exact.
LEMMA CopiesBegin ==
  ASSUME NEW d \in BOOLEAN, NEW next \in {"paused", "remove", "publish"},
         BeginSave(d, next), PlaceInv', inflight = <<>>,
         UNCHANGED <<req, inflight, done, found, lossy, text, disk>>,
         ~d => next = "remove", next = "remove" => req.path = AutosavePath
  PROVE  CopiesInv'
<1>1. /\ At' = next /\ pc' \in {"open", "text", next}
      /\ pc' = "open" <=> d /\ req.path # NoPath
      /\ pc' # "open" => (pc' = "text" <=> req.keep)
  BY BeginSaveLeads
<1>2. ~Ended'
  BY <1>1 DEF PlaceInv, StateShown, Ended
<1>3. pc' \notin Saves => ~req.keep
  BY <1>1 DEF Saves
<1>4. pc' # "open" => ~FileDue'
  BY <1>1 DEF FileDue
<1>5. QED
  BY <1>1, <1>2, <1>3, <1>4 DEF CopiesInv, Resting

\* Each step of a save makes one more copy exact.
LEMMA CopiesSave ==
  ASSUME TypeOK, PlaceInv, PlaceInv', CopiesInv, SaveOpen \/ SaveWrite \/ SaveText
  PROVE  CopiesInv'
<1>1. /\ At' = At /\ At = ret /\ pc \in Saves /\ pc' # "ended" /\ ret' = ret
      /\ UNCHANGED <<req, inflight, done, found, lossy, status>>
  BY SaveStepLeads DEF SaveOpen, SaveWrite, SaveText, sched, kept, visible
<1>2. /\ ~Ended /\ ~Ended' /\ Resting' = Resting /\ FileDue' = FileDue /\ Snapshot' = Snapshot
  BY <1>1, EndedAt DEF Ended, Resting, FileDue, Snapshot, Saves
<1>3. CASE SaveOpen
  <2>1. pc = "open" /\ text' = text
    BY <1>3 DEF SaveOpen, visible
  <2>2. pc' = "write" \/ ("disk" \in Events /\ pc' = AfterFile)
    BY <1>3 DEF SaveOpen
  <2>3. pc' \notin Saves => ~req.keep
    BY <2>2 DEF AfterFile, Saves
  <2>4. pc' \in {"open", "write"} => req.path # NoPath
    BY <2>1 DEF CopiesInv
  <2>5. "disk" \notin Events => pc' = "write"
    BY <2>2
  <2>6. QED
    BY <1>1, <1>2, <2>3, <2>4, <2>5 DEF CopiesInv
<1>4. CASE SaveWrite
  <2>1. pc = "write" /\ pc' = AfterFile /\ req.path # NoPath
    BY <1>4 DEF SaveWrite, CopiesInv
  <2>2. req.path \in Paths
    BY <2>1, RequestType DEF TypeOK, ControlOK
  <2>3. "disk" \notin Events => disk'[req.path] = Snapshot
    BY <1>4, <2>2 DEF SaveWrite, TypeOK, StoreOK
  <2>4. pc' \notin Saves => ~req.keep
    BY <2>1 DEF AfterFile, Saves
  <2>5. pc' \notin {"open", "write"}
    BY <2>1 DEF AfterFile, PlaceInv
  <2>6. QED
    BY <1>1, <1>2, <2>3, <2>4, <2>5 DEF CopiesInv
<1>5. CASE SaveText
  <2>1. pc = "text" /\ pc' = ret /\ text' = Snapshot /\ disk' = disk
    BY <1>5 DEF SaveText, store
  <2>2. pc' \notin {"open", "write"}
    BY <2>1 DEF PlaceInv
  <2>3. QED
    BY <1>1, <1>2, <2>1, <2>2 DEF CopiesInv
<1>6. QED
  BY <1>3, <1>4, <1>5

\* The copies stay exact.
LEMMA CopiesStep ==
  ASSUME TypeOK, PlaceInv, CopiesInv, [Next]_vars
  PROVE  CopiesInv'
<1>0. PlaceInv'
  BY PlaceStep
<1>1. CASE \/ Kill \/ Fail \/ Restore \/ Configure \/ AdmitTile \/ NoMoreTiles \/ StopAdmitting
           \/ LeavePause \/ \E r \in Requests : Submit(r)
  <2>1. pc' \in {"off", "restore", "configure", "admit", "drain", "ended"}
    BY <1>1 DEF Kill, Fail, Restore, Configure, AdmitTile, NoMoreTiles, StopAdmitting, LeavePause,
                Submit, control
  <2>2. At' = pc'
    BY <2>1 DEF At, Saves
  <2>3. pc' = "ended" => status'.state = "error"
    BY <1>1 DEF Kill, Fail, Restore, Configure, AdmitTile, NoMoreTiles, StopAdmitting, LeavePause,
                Submit, control, TypeOK, VisibleOK, StatusType
  <2>4. ~Resting'
    BY <1>0, <2>1, <2>2, <2>3 DEF Resting, Ended, PlaceInv, StateShown
  <2>5. QED
    BY <2>1, <2>4, CopiesRestless DEF CopiesInv, Resting, Ended
<1>2. CASE Cancel \/ (\E on \in BOOLEAN : SetPause(on)) \/ SaveSession \/ UNCHANGED vars
  <2>1. UNCHANGED <<pc, ret, req, status, results, text, inflight, done, found, lossy, disk>>
    BY <1>2 DEF Cancel, SetPause, SaveSession, vars, control, visible, sched, kept, store
  <2>2. QED
    BY <2>1 DEF CopiesInv, Resting, FileDue, At, Ended, Snapshot
<1>3. CASE Collect
  <2>1. At' = "admit" /\ (pc' \in {"open", "write"} => req'.path # NoPath)
    BY <1>3, CollectLeads DEF Collect
  <2>2. ~Resting'
    BY <1>0, <2>1 DEF Resting, Ended, PlaceInv, StateShown
  <2>3. QED
    BY <2>1, <2>2 DEF CopiesInv, Resting, Ended
<1>4. CASE EnterPause
  <2>1. /\ BeginSave(TRUE, "paused") /\ inflight = <<>>
        /\ UNCHANGED <<req, inflight, done, found, lossy, text, disk>>
    BY <1>4 DEF EnterPause, sched, kept, store
  <2>2. QED
    BY <1>0, <2>1, CopiesBegin
<1>5. CASE Finish
  <2>1. /\ inflight = <<>>
        /\ UNCHANGED <<req, inflight, done, found, lossy, text, disk>>
    BY <1>5 DEF Finish, visible, sched, kept, store
  <2>2. CASE ~cancel /\ req.path = AutosavePath
    <3>1. BeginSave(FALSE, "remove")
      BY <1>5, <2>2 DEF Finish
    <3>2. QED
      BY <1>0, <2>1, <2>2, <3>1, CopiesBegin
  <2>3. CASE ~(~cancel /\ req.path = AutosavePath)
    <3>1. BeginSave(TRUE, "publish")
      BY <1>5, <2>3 DEF Finish
    <3>2. QED
      BY <1>0, <2>1, <3>1, CopiesBegin
  <2>4. QED
    BY <2>2, <2>3
<1>6. CASE SaveOpen \/ SaveWrite \/ SaveText
  BY <1>0, <1>6, CopiesSave
<1>7. CASE RemoveAutosave
  <2>1. /\ pc = "remove" /\ pc' = "publish" /\ req.path = AutosavePath
        /\ UNCHANGED <<req, status, inflight, done, found, lossy, text>>
    BY <1>7 DEF RemoveAutosave, CopiesInv, At, Saves, sched, kept, visible
  <2>2. Resting /\ ~Ended' /\ ~FileDue' /\ At' = "publish"
    BY <1>0, <2>1 DEF Resting, Ended, FileDue, At, Saves, PlaceInv, StateShown
  <2>3. QED
    BY <2>1, <2>2 DEF CopiesInv, Saves, Snapshot
<1>8. CASE Publish
  <2>1. /\ pc = "publish" /\ pc' = "ended" /\ results' = found
        /\ UNCHANGED <<req, inflight, done, found, lossy, text, disk>>
    BY <1>8 DEF Publish, sched, kept, store
  <2>2. Resting /\ At' = "ended" /\ At = "publish" /\ (FileDue' => FileDue)
    BY <2>1 DEF Resting, FileDue, At, Saves
  <2>3. QED
    BY <2>1, <2>2 DEF CopiesInv, Saves, Snapshot
<1>9. QED
  BY <1>1, <1>2, <1>3, <1>4, <1>5, <1>6, <1>7, <1>8 DEF Next, JobThread, Pump, FrontEnd

\* CopiesInv holds in every reachable state.
LEMMA CopiesHold == Spec => []CopiesInv
<1>1. Init => CopiesInv
  BY DEF Init, NewStatus, CopiesInv, Resting, At, Saves, Ended
<1>2. QED
  BY <1>1, CopiesStep, TypeCorrect, PlaceHolds, PTL DEF Spec

\* As long as the disk takes what is written, nothing is in flight while a pause is shown
\* and at the end, results are all that was found, and every copy of the progress is
\* exact that the save under way has not still to write (search_service.cpp:585-594).
THEOREM SavesExact ==
  ASSUME "disk" \notin Events
  PROVE  Spec => []SavesAreExact
<1>1. TypeOK /\ PlaceInv /\ CopiesInv => SavesAreExact
  <2> SUFFICES ASSUME TypeOK, PlaceInv, CopiesInv PROVE SavesAreExact
    OBVIOUS
  <2>1. PauseIsExact
    <3> SUFFICES ASSUME status.state = "paused"
                 PROVE  /\ inflight = <<>>
                        /\ (req.keep /\ pc \notin {"open", "write", "text"}) => text = Snapshot
                        /\ (req.path # NoPath /\ pc \notin {"open", "write"}) => disk[req.path] = Snapshot
      BY DEF PauseIsExact
    <3>1. Resting /\ At = "paused"
      BY DEF Resting, At, Saves, TypeOK, ControlOK, Places, PlaceInv, StateShown
    <3>2. QED
      BY <3>1 DEF CopiesInv, FileDue, Saves
  <2>2. EndIsExact
    <3> SUFFICES ASSUME Ended
                 PROVE  /\ inflight = <<>> /\ results = found
                        /\ req.keep => text = Snapshot
                        /\ req.path \notin {NoPath, AutosavePath} => disk[req.path] = Snapshot
      BY DEF EndIsExact
    <3>1. Resting /\ pc \notin Saves /\ pc \notin {"open", "write"}
      BY EndedAt DEF Resting, Saves
    <3>2. QED
      BY <3>1 DEF CopiesInv, FileDue
  <2>3. QED
    BY <2>1, <2>2 DEF SavesAreExact
<1>2. QED
  BY <1>1, TypeCorrect, PlaceHolds, CopiesHold, PTL

-----------------------------------------------------------------------------
(* A job and its own file                                                  *)

\* From the restore on, a job that resumes from its file has what the file lists.
FileInv ==
  (pc \notin {"off", "restore"} /\ status.state # "error"
     /\ ~req.resume /\ req.path # NoPath /\ Accepted(disk[req.path]))
    => disk[req.path].done \subseteq done

\* A restore takes over all the tiles of the file.
LEMMA FileRestored ==
  ASSUME IInv, Restore
  PROVE  FileInv'
<1>1. /\ UNCHANGED <<req, disk>>
      /\ done' = RestoredFrom.done \cap Tiles(req.search)
  BY DEF Restore, store
<1>2. Accounts(req.search, RestoredFrom.done, RestoredFrom.matches, RestoredFrom.lossy)
  BY RestoredSound DEF IInv
<1>3. done' = RestoredFrom.done
  BY <1>1, <1>2 DEF Accounts
<1>4. ~req.resume /\ req.path # NoPath /\ Accepted(disk[req.path]) => RestoredFrom = disk[req.path]
  BY DEF RestoredFrom
<1>5. Accepted(disk[req.path])' => Accepted(disk[req.path])
  BY <1>1 DEF Accepted
<1>6. QED
  BY <1>1, <1>3, <1>4, <1>5 DEF FileInv

\* While the thread runs, tiles are only added, and a file is only written by a save.
LEMMA FileStep ==
  ASSUME IInv, PlaceInv, CopiesInv, FileInv, [Next]_vars
  PROVE  FileInv'
<1>0. TypeOK
  BY DEF IInv
<1>1. CASE Kill \/ Fail \/ \E r \in Requests : Submit(r)
  <2>1. pc' \in {"off", "restore"} \/ status'.state = "error"
    BY <1>0, <1>1 DEF Kill, Fail, Submit, TypeOK, VisibleOK, StatusType
  <2>2. QED
    BY <2>1 DEF FileInv
<1>2. CASE Restore
  BY <1>2, FileRestored
<1>3. CASE Cancel \/ (\E on \in BOOLEAN : SetPause(on)) \/ SaveSession \/ UNCHANGED vars
  <2>1. UNCHANGED <<pc, req, status, done, disk>>
    BY <1>3 DEF Cancel, SetPause, SaveSession, vars, control, visible, sched, store
  <2>2. QED
    BY <2>1 DEF FileInv, Accepted
<1>4. CASE \/ Configure \/ AdmitTile \/ NoMoreTiles \/ StopAdmitting \/ Collect \/ EnterPause
           \/ LeavePause \/ Finish \/ SaveText \/ Publish
  <2>1. /\ pc \in {"configure", "admit", "drain", "paused", "text", "publish"}
        /\ UNCHANGED <<req, disk>> /\ done \subseteq done'
    BY <1>4 DEF Configure, AdmitTile, NoMoreTiles, StopAdmitting, Collect, EnterPause, LeavePause,
                Finish, SaveText, Publish, control, sched, store
  <2>2. status.state # "error"
    BY <2>1 DEF PlaceInv, StateShown, At, Saves
  <2>3. QED
    BY <2>1, <2>2 DEF FileInv, Accepted
<1>5. CASE SaveOpen \/ SaveWrite \/ RemoveAutosave
  <2>1. /\ pc \in {"open", "write", "remove"} /\ UNCHANGED <<req, done>>
        /\ disk' = disk \/ \E c \in {Cut, Snapshot, Absent} : disk' = [disk EXCEPT ![req.path] = c]
    BY <1>5 DEF SaveOpen, SaveWrite, RemoveAutosave, sched
  <2>2. status.state # "error"
    BY <2>1 DEF PlaceInv, StateShown, At, Saves
  <2>3. CASE disk' = disk
    BY <2>1, <2>2, <2>3 DEF FileInv, Accepted
  <2>4. ASSUME NEW c \in {Cut, Snapshot, Absent}, disk' = [disk EXCEPT ![req.path] = c]
        PROVE  FileInv'
    <3> SUFFICES ASSUME req.path # NoPath, Accepted(disk[req.path])'
                 PROVE  disk'[req.path].done \subseteq done'
      BY <2>1 DEF FileInv
    <3>1. req.path \in Paths
      BY <1>0, RequestType DEF TypeOK, ControlOK
    <3>2. disk'[req.path] = c
      BY <1>0, <2>4, <3>1 DEF TypeOK, StoreOK
    <3>3. c = Snapshot
      BY <2>1, <3>2 DEF Accepted, Cut, Absent
    <3>4. QED
      BY <2>1, <3>2, <3>3 DEF Snapshot
  <2>5. QED
    BY <2>1, <2>3, <2>4
<1>6. QED
  BY <1>1, <1>2, <1>3, <1>4, <1>5 DEF Next, JobThread, Pump, FrontEnd

\* A job that resumed from its file is never behind it, whatever saves fail or are
\* cut off: until it saves again, what the file lists is done.
THEOREM FileIsNotAhead == Spec => []FileNotAhead
<1>1. Init => FileInv
  BY DEF Init, FileInv
<1>2. TypeOK /\ PlaceInv /\ FileInv => FileNotAhead
  BY DEF TypeOK, ControlOK, Places, PlaceInv, StateShown, At, Saves, FileInv, FileNotAhead
<1>3. Spec => []FileInv
  BY <1>1, FileStep, InvariantHolds, PlaceHolds, CopiesHold, PTL DEF Spec
<1>4. QED
  BY <1>2, <1>3, TypeCorrect, PlaceHolds, PTL

-----------------------------------------------------------------------------
(* Progress                                                                *)

\* What is shown is done, and a job has nothing before its restore.
ShownInv ==
  /\ pc = "restore" => done = {} /\ found = {}
  /\ status.shown \subseteq done

\* A step of the thread adds tiles and matches, and shows no tile that is not done.
LEMMA ThreadGrows ==
  ASSUME TypeOK, PlaceInv, ShownInv, JobThread
  PROVE  /\ done \subseteq done' /\ found \subseteq found'
         /\ status.shown \subseteq status'.shown /\ status'.shown \subseteq done'
         /\ pc' # "restore"
<1>0. status \in StatusType
  BY DEF TypeOK, VisibleOK
<1>1. CASE Restore
  <2>1. done = {} /\ found = {} /\ pc' = "configure" /\ status' = status
    BY <1>1 DEF Restore, ShownInv, visible
  <2>2. QED
    BY <2>1 DEF ShownInv
<1>2. CASE Collect
  <2>1. done \subseteq done' /\ found \subseteq found' /\ status'.shown = done'
    BY <1>0, <1>2 DEF Collect, StatusType
  <2>2. pc' # "restore"
    BY <1>2, CollectLeads
  <2>3. QED
    BY <2>1, <2>2 DEF ShownInv
<1>3. CASE EnterPause \/ Finish
  <2>1. UNCHANGED <<done, found>> /\ status'.shown = status.shown
    BY <1>0, <1>3 DEF EnterPause, Finish, sched, kept, visible, StatusType
  <2>2. \E d \in BOOLEAN, next \in {"paused", "remove", "publish"} : BeginSave(d, next)
    BY <1>3 DEF EnterPause, Finish
  <2>3. pc' # "restore"
    BY <2>2, BeginSaveLeads
  <2>4. QED
    BY <2>1, <2>3 DEF ShownInv
<1>4. CASE SaveOpen \/ SaveWrite \/ SaveText
  <2>1. UNCHANGED <<done, found, status>>
    BY <1>4 DEF SaveOpen, SaveWrite, SaveText, sched, kept, visible
  <2>2. pc' # "restore"
    BY <1>4, SaveStepLeads DEF PlaceInv
  <2>3. QED
    BY <2>1, <2>2 DEF ShownInv
<1>5. CASE \/ Fail \/ Configure \/ AdmitTile \/ NoMoreTiles \/ StopAdmitting \/ LeavePause
           \/ RemoveAutosave \/ Publish
  <2>1. UNCHANGED <<done, found>> /\ pc' # "restore"
    BY <1>5 DEF Fail, Configure, AdmitTile, NoMoreTiles, StopAdmitting, LeavePause, RemoveAutosave,
                Publish, control, sched, kept
  <2>2. status'.shown = status.shown
    BY <1>0, <1>5 DEF Fail, Configure, AdmitTile, NoMoreTiles, StopAdmitting, LeavePause,
                      RemoveAutosave, Publish, visible, StatusType
  <2>3. QED
    BY <2>1, <2>2 DEF ShownInv
<1>6. QED
  BY <1>1, <1>2, <1>3, <1>4, <1>5 DEF JobThread, Pump

\* Nobody but the thread and a new or lost job touches the progress.
LEMMA ShownStep ==
  ASSUME TypeOK, PlaceInv, ShownInv, [Next]_vars
  PROVE  ShownInv'
<1>1. CASE JobThread
  BY <1>1, ThreadGrows DEF ShownInv
<1>2. CASE Kill \/ \E r \in Requests : Submit(r)
  BY <1>2 DEF Kill, Submit, Reset, NewStatus, ShownInv
<1>3. CASE Cancel \/ (\E on \in BOOLEAN : SetPause(on)) \/ SaveSession \/ UNCHANGED vars
  <2>1. UNCHANGED <<pc, status, done, found>>
    BY <1>3 DEF Cancel, SetPause, SaveSession, vars, control, visible, sched, kept
  <2>2. QED
    BY <2>1 DEF ShownInv
<1>4. QED
  BY <1>1, <1>2, <1>3 DEF Next, FrontEnd

\* ShownInv holds in every reachable state.
LEMMA ShownHolds == Spec => []ShownInv
<1>1. Init => ShownInv
  BY DEF Init, NewStatus, ShownInv
<1>2. QED
  BY <1>1, ShownStep, TypeCorrect, PlaceHolds, PTL DEF Spec

\* Within one job progress only grows: in what is searched, kept and shown.
THEOREM ProgressOnlyGrows == Spec => ProgressGrows
<1> DEFINE Grows == (runs' = runs /\ pc # "off" /\ pc' # "off") =>
              /\ done \subseteq done' /\ found \subseteq found'
              /\ status.shown \subseteq status'.shown
<1>1. ASSUME TypeOK, PlaceInv, ShownInv, [Next]_vars PROVE Grows
  <2>1. CASE JobThread
    BY <1>1, <2>1, ThreadGrows
  <2>2. CASE Kill
    BY <2>2 DEF Kill
  <2>3. ASSUME NEW r \in Requests, Submit(r) PROVE Grows
    BY <1>1, <2>3 DEF Submit, TypeOK, ControlOK
  <2>4. CASE Cancel \/ (\E on \in BOOLEAN : SetPause(on)) \/ SaveSession \/ UNCHANGED vars
    BY <2>4 DEF Cancel, SetPause, SaveSession, vars, visible, sched, kept
  <2>5. QED
    BY <1>1, <2>1, <2>2, <2>3, <2>4 DEF Next, FrontEnd
<1>2. QED
  BY <1>1, TypeCorrect, PlaceHolds, ShownHolds, PTL DEF Spec, ProgressGrows

-----------------------------------------------------------------------------
(* The end of a search                                                     *)

\* Nobody withdraws a pause.  The thread looks at the pause flag twice between
\* the admissions and the end of the loop; a pause withdrawn between the two ends
\* the search as if its tiles were done, which is a known fault of the code.
NoRace == "pause" \notin Events \/ "resume" \notin Events

\* Why the pump has come to its end: nothing may be admitted any more.
CoverInv ==
  /\ "pause" \notin Events => ~pause
  /\ ~more => \A t \in Tiles(req.search) : t < cursor
  /\ pc = "drain" /\ inflight = <<>> => ~MayAdmit \/ pause
  /\ At \in {"remove", "publish"} => ~MayAdmit
  /\ status.state = "done" /\ ~status.early => done = Tiles(req.search)

\* A step that starts a job, or runs its pump to a point other than the end.
LEMMA CoverElsewhere ==
  ASSUME "pause" \notin Events => ~pause',
         ~more' => \A t \in Tiles(req.search)' : t < cursor',
         At' \notin {"remove", "publish"}, pc' # "drain", status'.state # "done"
  PROVE  CoverInv'
BY DEF CoverInv

\* When an uncancelled job is published, every tile is done but for an early stop.
LEMMA PublishCovers ==
  ASSUME IInv, PlaceInv, CopiesInv, CoverInv, Publish
  PROVE  CoverInv'
<1>0. TypeOK /\ JobSound /\ NoneSkipped
  BY DEF IInv, JobInv
<1>1. /\ pc = "publish" /\ pc' = "ended"
      /\ UNCHANGED <<req, cancel, pause, more, stop, done, inflight, cursor>>
  BY DEF Publish, flags, sched
<1>2. At = "publish" /\ At' = "ended" /\ Resting
  BY <1>1 DEF At, Saves, Resting
<1>3. ~MayAdmit /\ inflight = <<>>
  BY <1>2 DEF CoverInv, CopiesInv
<1>4. status' = [status EXCEPT !.matches = found,
                   !.state = IF cancel THEN "cancelled" ELSE "done",
                   !.early = stop /\ done # Tiles(req.search) /\ ~cancel,
                   !.full = @ \/ (~cancel /\ ~(stop /\ done # Tiles(req.search)))]
  BY DEF Publish
<1>5. /\ status'.state = IF cancel THEN "cancelled" ELSE "done"
      /\ status'.early = (stop /\ done # Tiles(req.search) /\ ~cancel)
  BY <1>0, <1>4 DEF TypeOK, VisibleOK, StatusType
<1>6. ~more => done = Tiles(req.search)
  <2> SUFFICES ASSUME ~more PROVE Tiles(req.search) \subseteq done
    BY <1>0 DEF JobSound, Accounts
  <2>1. \A t \in Tiles(req.search) : t < cursor
    BY DEF CoverInv
  <2>2. InFlight = {}
    BY <1>3 DEF InFlight
  <2>3. QED
    BY <1>0, <2>1, <2>2 DEF NoneSkipped
<1>7. status'.state = "done" /\ ~status'.early => done' = Tiles(req.search)'
  BY <1>1, <1>3, <1>5, <1>6 DEF MayAdmit
<1>8. QED
  BY <1>1, <1>2, <1>7 DEF CoverInv

\* Admissions end for a reason that lasts.
LEMMA CoverStep ==
  ASSUME NoRace, IInv, PlaceInv, CopiesInv, CoverInv, [Next]_vars
  PROVE  CoverInv'
<1>0. TypeOK /\ PlaceInv'
  BY PlaceStep DEF IInv
<1>1. CASE Kill \/ \E r \in Requests : Submit(r)
  <2>1. /\ pc' \in {"off", "restore"} /\ more' = TRUE /\ pause' = FALSE
        /\ status'.state \in {"none", "pending"}
    BY <1>1 DEF Kill, Submit, Reset, NewStatus
  <2>2. QED
    BY <2>1, CoverElsewhere DEF At, Saves
<1>2. CASE Cancel
  <2>1. /\ UNCHANGED <<pc, ret, req, pause, status, done, cursor, inflight, more, stop>>
        /\ cancel' = TRUE
    BY <1>2 DEF Cancel, control, visible, sched
  <2>2. QED
    BY <2>1 DEF CoverInv, MayAdmit, At
<1>3. ASSUME NEW on \in BOOLEAN, SetPause(on) PROVE CoverInv'
  <2>1. /\ UNCHANGED <<pc, ret, req, cancel, status, done, cursor, inflight, more, stop>>
        /\ pause' = on /\ pause # on /\ (IF on THEN "pause" ELSE "resume") \in Events
    BY <1>3 DEF SetPause, control, visible, sched
  <2>2. on
    BY <1>0, <2>1 DEF NoRace, CoverInv, TypeOK, ControlOK
  <2>3. QED
    BY <2>1, <2>2 DEF CoverInv, MayAdmit, At
<1>4. CASE SaveSession \/ UNCHANGED vars
  <2>1. UNCHANGED <<pc, ret, req, flags, status, done, cursor, inflight, more, stop>>
    BY <1>4 DEF SaveSession, vars, control, visible, sched
  <2>2. QED
    BY <2>1 DEF CoverInv, MayAdmit, At, flags
<1>5. CASE Fail \/ Restore \/ Configure \/ LeavePause
  <2>1. /\ UNCHANGED <<req, pause, cursor, more>> /\ pc' \in {"ended", "configure", "admit"}
    BY <1>5 DEF Fail, Restore, Configure, LeavePause, flags, sched
  <2>2. status'.state # "done"
    BY <1>0, <1>5 DEF Fail, Restore, Configure, LeavePause, visible, PlaceInv, StateShown, At, Saves,
                      TypeOK, VisibleOK, StatusType
  <2>3. QED
    BY <2>1, <2>2, CoverElsewhere DEF At, Saves, CoverInv
<1>6. CASE AdmitTile
  <2>1. more /\ more' = more /\ pause' = pause /\ pc = "admit" /\ pc' = pc /\ status' = status
    BY <1>6 DEF AdmitTile, MayAdmit, control, flags, visible
  <2>2. QED
    BY <2>1, CoverElsewhere DEF At, Saves, CoverInv, PlaceInv, StateShown
<1>7. CASE NoMoreTiles
  <2>1. /\ pc = "admit" /\ pc' = "drain" /\ more' = FALSE /\ cursor' = Len(Hits[req.search]) + 1
        /\ UNCHANGED <<req, flags, status>>
    BY <1>7 DEF NoMoreTiles, visible
  <2>2. \A t \in Tiles(req.search)' : t < cursor'
    BY <1>0, <2>1, HitsType, RequestType DEF TypeOK, ControlOK
  <2>3. At' = "drain" /\ ~MayAdmit' /\ status'.state # "done" /\ pause' = pause
    BY <2>1 DEF At, Saves, MayAdmit, PlaceInv, StateShown, flags
  <2>4. QED
    BY <2>2, <2>3 DEF CoverInv
<1>8. CASE StopAdmitting
  <2>1. /\ pc = "admit" /\ pc' = "drain" /\ UNCHANGED <<req, flags, status, sched>>
        /\ ~(MayAdmit /\ ~pause /\ Len(inflight) < Depth)
    BY <1>8 DEF StopAdmitting, visible
  <2>2. inflight = <<>> => Len(inflight) < Depth
    BY BoundAssumption
  <2>3. At' = "drain" /\ MayAdmit' = MayAdmit /\ status'.state # "done"
    BY <2>1 DEF At, Saves, MayAdmit, PlaceInv, StateShown, flags, sched
  <2>4. QED
    BY <2>1, <2>2, <2>3 DEF CoverInv, flags, sched
<1>9. CASE Collect
  <2>1. At' = "admit" /\ pc' # "drain" /\ UNCHANGED <<req, pause, cursor, more>>
    BY <1>9, CollectLeads DEF Collect, flags
  <2>2. status'.state # "done"
    BY <1>0, <2>1 DEF PlaceInv, StateShown
  <2>3. QED
    BY <2>1, <2>2, CoverElsewhere DEF CoverInv
<1>10. CASE EnterPause
  <2>1. At' = "paused" /\ pc' # "drain" /\ UNCHANGED <<req, pause, cursor, more>>
    BY <1>10, BeginSaveLeads DEF EnterPause, flags, sched
  <2>2. status'.state # "done"
    BY <1>0, <2>1 DEF PlaceInv, StateShown
  <2>3. QED
    BY <2>1, <2>2, CoverElsewhere DEF CoverInv
<1>11. CASE Finish
  <2>1. /\ pc = "drain" /\ inflight = <<>> /\ ~(MayAdmit /\ pause)
        /\ UNCHANGED <<req, flags, status, sched>>
    BY <1>11 DEF Finish, visible
  <2>2. \E d \in BOOLEAN, next \in {"remove", "publish"} : BeginSave(d, next)
    BY <1>11 DEF Finish
  <2>3. At' \in {"remove", "publish"} /\ pc' # "drain"
    BY <2>2, BeginSaveLeads
  <2>4. ~MayAdmit /\ MayAdmit' = MayAdmit
    BY <2>1 DEF CoverInv, MayAdmit, flags, sched
  <2>5. status'.state # "done"
    BY <1>0, <2>3 DEF PlaceInv, StateShown
  <2>6. QED
    BY <2>1, <2>3, <2>4, <2>5 DEF CoverInv, flags, sched
<1>12. CASE SaveOpen \/ SaveWrite \/ SaveText
  <2>1. UNCHANGED <<req, flags, status, sched>>
    BY <1>12 DEF SaveOpen, SaveWrite, SaveText, visible
  <2>2. At' = At /\ pc' # "drain"
    BY <1>12, SaveStepLeads DEF PlaceInv
  <2>3. QED
    BY <2>1, <2>2 DEF CoverInv, MayAdmit, flags, sched
<1>13. CASE RemoveAutosave
  <2>1. pc = "remove" /\ pc' = "publish" /\ UNCHANGED <<req, flags, status, sched>>
    BY <1>13 DEF RemoveAutosave, visible
  <2>2. QED
    BY <2>1 DEF CoverInv, MayAdmit, flags, sched, At, Saves
<1>14. CASE Publish
  BY <1>14, PublishCovers
<1>15. QED
  BY <1>1, <1>2, <1>3, <1>4, <1>5, <1>6, <1>7, <1>8, <1>9, <1>10, <1>11, <1>12, <1>13, <1>14
     DEF Next, JobThread, Pump, FrontEnd

\* Unless a pause can be withdrawn while the thread is between its two looks at the
\* flag, a job reported done has searched every tile, an early stop apart, and its
\* results are all the matches there are if no cap dropped any.
THEOREM DoneIsCovered ==
  ASSUME NoRace
  PROVE  Spec => []DoneMeansCovered
<1>1. Init => CoverInv
  BY DEF Init, NewStatus, CoverInv, At, Saves
<1>2. Spec => []CoverInv
  BY <1>1, CoverStep, InvariantHolds, PlaceHolds, CopiesHold, PTL DEF Spec
<1>3. IInv /\ CopiesInv /\ CoverInv => DoneMeansCovered
  BY DEF IInv, JobInv, JobSound, Accounts, CopiesInv, Ended, CoverInv, DoneMeansCovered
<1>4. QED
  BY <1>2, <1>3, InvariantHolds, CopiesHold, PTL

-----------------------------------------------------------------------------
(* Truncation                                                              *)

\* an answer of the worker is short of matches of its tile
Short(e) == e.got # Hits[req.search][e.tile]

NothingStored == session = Absent /\ \A p \in Paths : disk[p] = Absent

\* What has been dropped, and what a worker has still to hand over short.
CapsInv ==
  /\ status.truncated => capped \/ trunc
  /\ lossy => status.truncated
  /\ capped \/ trunc => lossy \/ \E i \in DOMAIN inflight : Short(inflight[i])
  /\ req.search \notin Gpu => \A i \in DOMAIN inflight : Short(inflight[i]) => trunc

\* The first job has nothing to resume from.
TruncInv ==
  /\ runs = 0 => pc = "off" /\ text = Absent /\ NothingStored
  /\ pc = "restore" => text = Absent /\ ~lossy /\ ~capped /\ ~trunc /\ ~status.truncated
  /\ runs = 1 /\ pc = "restore" => NothingStored
  /\ runs = 1 /\ pc \notin {"off", "restore"} => CapsInv

\* With nothing stored a job starts from zero, and has dropped nothing.
LEMMA RestoreCaps ==
  ASSUME IInv, TruncInv, Restore, runs = 1
  PROVE  CapsInv'
<1>0. TypeOK /\ inflight = <<>>
  BY DEF IInv, JobInv, FreshSound, Restore
<1>1. NothingStored /\ ~trunc /\ ~status.truncated
  BY DEF TruncInv, Restore
<1>2. req.path \in Paths \cup {NoPath}
  BY <1>0, RequestType DEF TypeOK, ControlOK
<1>3. RestoredFrom.matches = {} /\ RestoredFrom.lossy = FALSE
  BY <1>1, <1>2 DEF RestoredFrom, NothingStored, Accepted, Absent, Scratch
<1>4. ~capped' /\ ~lossy' /\ UNCHANGED <<req, trunc, status, inflight>>
  BY <1>3, FirstsSubset DEF Restore, visible
<1>5. QED
  BY <1>0, <1>1, <1>4 DEF CapsInv

\* A CPU worker reports a short answer at once.
LEMMA AdmitCaps ==
  ASSUME IInv, CapsInv, AdmitTile
  PROVE  CapsInv'
<1>0. TypeOK
  BY DEF IInv
<1> PICK t \in Unscanned : \E S \in SUBSET Hits[req.search][t] :
        /\ inflight' = Append(inflight, [tile |-> t, got |-> S])
        /\ trunc' = (trunc \/ CpuDropped(t, S))
  BY FirstsSubset DEF AdmitTile
<1>1. PICK S \in SUBSET Hits[req.search][t] :
        /\ inflight' = Append(inflight, [tile |-> t, got |-> S])
        /\ trunc' = (trunc \/ CpuDropped(t, S))
  OBVIOUS
<1>2. UNCHANGED <<req, status, capped, lossy>>
  BY DEF AdmitTile, control, visible
<1> DEFINE e == [tile |-> t, got |-> S]
<1>3. e \in Entry /\ inflight \in Seq(Entry)
  BY <1>0, <1>1, RequestType, HitsType DEF TypeOK, ControlOK, SchedOK, Unscanned, Entry
<1>4. /\ DOMAIN inflight = 1 .. Len(inflight) /\ Len(inflight) \in Nat
      /\ DOMAIN inflight' = 1 .. Len(inflight) + 1
      /\ \A i \in DOMAIN inflight : i \in DOMAIN inflight' /\ inflight'[i] = inflight[i]
      /\ inflight'[Len(inflight) + 1] = e
  BY <1>1, <1>3, QueueAppend
<1> PICK n \in Nat : n = Len(inflight) + 1
  BY <1>4
<1>5. \A i \in DOMAIN inflight : Short(inflight[i]) => Short(inflight[i])'
  BY <1>2, <1>4 DEF Short
<1>6. Short(inflight[n])' <=> S # Hits[req.search][t]
  BY <1>2, <1>4 DEF Short
<1>7. capped' \/ trunc' => lossy' \/ \E i \in DOMAIN inflight' : Short(inflight[i])'
  <2>1. CASE capped \/ trunc
    BY <1>2, <1>4, <1>5, <2>1 DEF CapsInv
  <2>2. CASE CpuDropped(t, S)
    <3>1. n \in DOMAIN inflight'
      BY <1>4
    <3>2. QED
      BY <1>6, <2>2, <3>1 DEF CpuDropped
  <2>3. QED
    BY <1>1, <1>2, <2>1, <2>2
<1>8. ASSUME req.search \notin Gpu, NEW i \in DOMAIN inflight', Short(inflight[i])'
      PROVE  trunc'
  <2>1. CASE i \in DOMAIN inflight
    <3>1. Short(inflight[i])
      BY <1>2, <1>4, <1>8, <2>1 DEF Short
    <3>2. QED
      BY <1>1, <1>8, <2>1, <3>1 DEF CapsInv
  <2>2. CASE i = n
    BY <1>1, <1>6, <1>8, <2>2 DEF CpuDropped
  <2>3. QED
    BY <1>4, <2>1, <2>2
<1>9. QED
  BY <1>1, <1>2, <1>7, <1>8 DEF CapsInv

\* What a collected tile lost, to the worker or to keep(), is reported with it.
LEMMA CollectCaps ==
  ASSUME IInv, CapsInv, Collect
  PROVE  CapsInv'
<1>0. TypeOK /\ FlightSound
  BY DEF IInv, JobInv
<1> DEFINE t == Head(inflight).tile
           m == Head(inflight).got
<1>1. /\ inflight # <<>> /\ inflight' = Tail(inflight) /\ req' = req
      /\ trunc' = (trunc \/ GpuDropped(t, m))
  BY DEF Collect
<1>2. PICK S \in Firsts(m, req.cap - Cardinality(found)) :
        /\ capped' = (capped \/ S # m)
        /\ lossy' = (lossy \/ S # Hits[req.search][t])
  BY DEF Collect
<1>3. status'.truncated = (capped' \/ trunc')
  BY <1>0 DEF Collect, TypeOK, VisibleOK, StatusType
<1>4. inflight \in Seq(Entry)
  BY <1>0 DEF TypeOK, SchedOK
<1>5. /\ DOMAIN inflight = 1 .. Len(inflight) /\ Len(inflight) \in Nat \ {0}
      /\ 1 \in DOMAIN inflight /\ inflight[1] = Head(inflight)
      /\ DOMAIN inflight' = 1 .. Len(inflight) - 1
      /\ \A i \in DOMAIN inflight' : i + 1 \in DOMAIN inflight /\ inflight'[i] = inflight[i + 1]
  BY <1>1, <1>4, QueueTail
<1>6. S \subseteq m /\ m \subseteq Hits[req.search][t]
  BY <1>0, <1>2, <1>5, FirstsSubset DEF FlightSound
<1>7. Short(inflight[1]) <=> m # Hits[req.search][t]
  BY <1>5 DEF Short
<1>8. lossy' => capped' \/ trunc'
  BY <1>1, <1>2, <1>5, <1>7 DEF CapsInv, GpuDropped
<1>9. capped' \/ trunc' => lossy' \/ \E i \in DOMAIN inflight' : Short(inflight[i])'
  <2>1. CASE S # m \/ GpuDropped(t, m)
    BY <1>2, <1>6, <2>1 DEF GpuDropped
  <2>2. CASE capped \/ trunc
    <3>1. CASE lossy
      BY <1>2, <3>1
    <3>2. ASSUME NEW i \in DOMAIN inflight, Short(inflight[i])
          PROVE  lossy' \/ \E k \in DOMAIN inflight' : Short(inflight[k])'
      <4>1. CASE i = 1
        BY <1>2, <1>6, <1>7, <3>2, <4>1
      <4>2. CASE i # 1
        <5>1. i - 1 \in DOMAIN inflight' /\ inflight'[i - 1] = inflight[i]
          BY <1>5, <4>2
        <5>2. Short(inflight[i - 1])'
          BY <1>1, <3>2, <5>1 DEF Short
        <5>3. QED
          BY <5>1, <5>2
      <4>3. QED
        BY <4>1, <4>2
    <3>3. QED
      BY <2>2, <3>1, <3>2 DEF CapsInv
  <2>3. QED
    BY <1>1, <1>2, <2>1, <2>2
<1>10. ASSUME req.search \notin Gpu, NEW i \in DOMAIN inflight', Short(inflight[i])'
       PROVE  trunc'
  <2>1. i + 1 \in DOMAIN inflight /\ inflight'[i] = inflight[i + 1]
    BY <1>5
  <2>2. Short(inflight[i + 1])
    BY <1>1, <1>10, <2>1 DEF Short
  <2>3. QED
    BY <1>1, <1>10, <2>1, <2>2 DEF CapsInv
<1>11. QED
  BY <1>1, <1>3, <1>8, <1>9, <1>10 DEF CapsInv

\* Of the first job, drops and reports keep in step.
LEMMA TruncStep ==
  ASSUME IInv, PlaceInv, TruncInv, [Next]_vars
  PROVE  TruncInv'
<1>0. TypeOK /\ status \in StatusType /\ runs \in Nat
  BY DEF IInv, TypeOK, VisibleOK, ControlOK
<1>1. ASSUME NEW r \in Requests, Submit(r) PROVE TruncInv'
  <2>1. /\ runs' = runs + 1 /\ pc' = "restore" /\ text' = Absent /\ lossy' = FALSE
        /\ capped' = FALSE /\ trunc' = FALSE /\ status'.truncated = FALSE /\ UNCHANGED <<disk, session>>
    BY <1>1 DEF Submit, Reset, NewStatus, store
  <2>2. runs' = 1 => NothingStored'
    BY <1>0, <2>1 DEF TruncInv, NothingStored
  <2>3. QED
    BY <1>0, <2>1, <2>2 DEF TruncInv
<1>2. CASE Kill
  BY <1>2 DEF Kill, Live, TruncInv
<1>3. CASE SaveSession
  <2>1. text.kind = "whole" /\ UNCHANGED <<runs, pc, req, status, text, inflight, capped, trunc, lossy>>
    BY <1>3 DEF SaveSession, control, visible, sched, kept
  <2>2. text # Absent
    BY <2>1 DEF Absent
  <2>3. QED
    BY <2>1, <2>2 DEF TruncInv, CapsInv, Short
<1>4. CASE Cancel \/ (\E on \in BOOLEAN : SetPause(on)) \/ UNCHANGED vars
  <2>1. UNCHANGED <<runs, pc, req, status, text, inflight, capped, trunc, lossy, store>>
    BY <1>4 DEF Cancel, SetPause, vars, control, visible, sched, kept
  <2>2. QED
    BY <2>1 DEF TruncInv, CapsInv, Short, NothingStored, store
<1>5. CASE Restore
  <2>1. runs' = runs /\ pc = "restore" /\ pc' = "configure"
    BY <1>5 DEF Restore
  <2>2. QED
    BY <1>5, <2>1, RestoreCaps DEF TruncInv
<1>6. CASE AdmitTile
  <2>1. runs' = runs /\ pc = "admit" /\ pc' = "admit"
    BY <1>6 DEF AdmitTile, control
  <2>2. QED
    BY <1>6, <2>1, AdmitCaps DEF TruncInv
<1>7. CASE Collect
  <2>1. runs' = runs /\ pc = "drain" /\ pc' \notin {"off", "restore"}
    BY <1>7, CollectLeads DEF Collect
  <2>2. QED
    BY <1>7, <2>1, CollectCaps DEF TruncInv
<1>8. CASE \/ Fail \/ Configure \/ NoMoreTiles \/ StopAdmitting \/ EnterPause \/ LeavePause \/ Finish
           \/ SaveOpen \/ SaveWrite \/ SaveText \/ RemoveAutosave \/ Publish
  <2>1. UNCHANGED <<runs, req, inflight, capped, trunc, lossy>>
    BY <1>8 DEF Fail, Configure, NoMoreTiles, StopAdmitting, EnterPause, LeavePause, Finish,
                SaveOpen, SaveWrite, SaveText, RemoveAutosave, Publish, sched, kept
  <2>2. status'.truncated = status.truncated
    BY <1>0, <1>8 DEF Fail, Configure, NoMoreTiles, StopAdmitting, EnterPause, LeavePause, Finish,
                SaveOpen, SaveWrite, SaveText, RemoveAutosave, Publish, visible, StatusType
  <2>3. pc # "off" /\ pc' \notin {"off", "restore"}
    <3>1. CASE EnterPause \/ Finish
      <4>1. \E d \in BOOLEAN, next \in {"paused", "remove", "publish"} : BeginSave(d, next)
        BY <3>1 DEF EnterPause, Finish
      <4>2. QED
        BY <3>1, <4>1, BeginSaveLeads DEF EnterPause, Finish
    <3>2. CASE SaveOpen \/ SaveWrite \/ SaveText
      BY <3>2, SaveStepLeads DEF PlaceInv, Saves
    <3>3. CASE Fail \/ Configure \/ NoMoreTiles \/ StopAdmitting \/ LeavePause \/ RemoveAutosave \/ Publish
      BY <3>3 DEF Fail, Configure, NoMoreTiles, StopAdmitting, LeavePause, RemoveAutosave, Publish
    <3>4. QED
      BY <1>8, <3>1, <3>2, <3>3
  <2>4. CASE pc # "restore"
    BY <1>0, <2>1, <2>2, <2>3, <2>4 DEF TruncInv, CapsInv, Short
  <2>5. CASE pc = "restore"
    <3>1. Fail
      BY <1>8, <2>5 DEF Fail, Configure, NoMoreTiles, StopAdmitting, EnterPause, LeavePause, Finish,
                SaveOpen, SaveWrite, SaveText, RemoveAutosave, Publish
    <3>2. inflight = <<>>
      BY <2>5 DEF IInv, JobInv, FreshSound
    <3>3. QED
      BY <1>0, <2>1, <2>2, <2>3, <2>5, <3>2 DEF TruncInv, CapsInv
  <2>6. QED
    BY <2>4, <2>5
<1>9. QED
  BY <1>1, <1>2, <1>3, <1>4, <1>5, <1>6, <1>7, <1>8 DEF Next, JobThread, Pump, FrontEnd

\* For every cap and every worker, poll() says of a job that had nothing to resume
\* from that matches were dropped exactly when some were.
THEOREM FreshTruncationExact == Spec => []FreshTruncation
<1>1. Init => TruncInv
  BY DEF Init, NewStatus, TruncInv, NothingStored
<1>2. Spec => []TruncInv
  BY <1>1, TruncStep, InvariantHolds, PlaceHolds, PTL DEF Spec
<1>3. TypeOK /\ PlaceInv /\ CopiesInv /\ TruncInv => FreshTruncation
  <2> SUFFICES ASSUME TypeOK, PlaceInv, CopiesInv, TruncInv, runs = 1, Ended
               PROVE  status.truncated <=> lossy
    BY DEF FreshTruncation
  <2>1. pc = "ended" /\ inflight = <<>>
    BY EndedAt DEF CopiesInv, Resting
  <2>2. QED
    BY <2>1 DEF TruncInv, CapsInv
<1>4. QED
  BY <1>2, <1>3, TypeCorrect, PlaceHolds, CopiesHold, PTL
=============================================================================
