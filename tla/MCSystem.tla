------------------------------- MODULE MCSystem -------------------------------
(* Instances of DsplogSystem for TLC.  Files are interchangeable.            *)
EXTENDS DsplogSystem, TLC

FileSymmetry == Permutations(Threads)

\* What the next steps depend on: not the registry's history, its copy of
\* the instances' dsplog_state, or a snapshot that is no longer used.
FileView == <<[j \in 1..Len(queue) |-> <<queue[j].dsp_id, queue[j].active, queue[j].filp>>], open, [t \in Threads |-> IF t \in open THEN priv[t] ELSE 0], rel>>

SnapshotView == IF \E t \in Threads : HasSnapshot(t) THEN cur_write_ptr ELSE N

SystemView ==
  <<ringVars, wakeVars, modeVars, pc, lock, SnapshotView, FileView, useVars>>

\* Bounds: one reader is counted, and one completion outstanding, at a time;
\* a run ends where a full flag is lost, or a second waiter or a START leaves
\* a reader without its wake-up.  With MaxPending = 2, STOP may complete what
\* a reader is counted for.  The core registers before the other one: either
\* order is in DsplogRegistry, and the ring does not tell them apart.
MCNext ==
  /\ SystemNext
  /\ num_reader' <= 1 /\ fill_compl' <= 1
  /\ lost' = FALSE /\ stranded' = "no"
  /\ queue' = <<>> \/ queue'[1].dsp_id = Own

MCSpec == SystemInit /\ [][MCNext]_systemVars
=============================================================================
