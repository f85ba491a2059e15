---------------------------- MODULE DsplogStream ----------------------------
(***************************************************************************)
(* The records that pass through one core's ring buffer: DsplogCapture     *)
(* with the contents of the ring.  A record is known by the order in which *)
(* the timer stored it, so 1, 2, 3 ... is the stream a reader should see.  *)
(***************************************************************************)
EXTENDS DsplogCapture, Sequences

CONSTANT MaxRecords   \* bound: records stored

ASSUME StreamAssumption == MaxRecords \in Nat

VARIABLES
  slots,      \* the ring's entries, by position; 0 is a zeroed entry
  out,        \* what copy_to_user put into the caller's buffer
  stored,     \* history: records stored so far
  fetched,    \* history: the last record taken out or flushed
  snap,       \* history: stored, when cur_write_ptr was taken; 0 once it is used
  stop_mark   \* history: stored, at the last STOP of a started capture

dataVars == <<slots, out, stored, fetched, snap, stop_mark>>
streamVars == <<vars, dataVars>>

\* The entries of positions a, a + 1, ..., b - 1.
Segment(a, b) == [i \in 1..(b - a) |-> slots[a + i - 1]]

\* What dsplog_read copies: two segments when the log wraps, else one.
Readout(w, r) ==
  IF w < r THEN Segment(r, N) \o Segment(0, w) ELSE Segment(r, w)

\* memcpy of the record into the entry under write_ptr.
Store ==
  /\ TimerStore
  /\ slots' = [slots EXCEPT ![write_ptr] = stored + 1]
  /\ stored' = stored + 1
  /\ UNCHANGED <<out, fetched, snap, stop_mark>>

Snapshot(t) ==
  /\ ReadSnapshot(t) \/ StartSnapshot(t)
  /\ snap' = stored
  /\ UNCHANGED <<slots, out, stored, fetched, stop_mark>>

CopyOut(t) ==
  /\ ReadCopy(t)
  /\ out' = Readout(cur_write_ptr, read_ptr)
  /\ UNCHANGED <<slots, stored, fetched, snap, stop_mark>>

\* The read pointer moves over what was copied, or over what START flushes.
Advance(t) ==
  /\ ReadMove(t) \/ StartMove(t)
  /\ fetched' = snap /\ snap' = 0
  /\ UNCHANGED <<slots, out, stored, stop_mark>>

Return(t) ==
  /\ ReadClear(t)
  /\ out' = <<>>
  /\ UNCHANGED <<slots, stored, fetched, snap, stop_mark>>

StopCapture(t) ==
  /\ Stop(t)
  /\ stop_mark' = IF dsplog_state = 1 THEN stored ELSE stop_mark
  /\ UNCHANGED <<slots, out, stored, fetched, snap>>

\* The steps that touch no record.
Silent ==
  /\ \/ TimerRecord /\ stored < MaxRecords
     \/ TimerWrap \/ TimerTestFull \/ TimerMarkFull \/ TimerNotify \/ TimerDec \/ TimerComplete
     \/ \E t \in Threads :
          \/ ReadStopped(t) \/ ReadStarted(t) \/ ReadWake(t) \/ ReadSignalled(t)
          \/ ReadRelock(t) \/ ReadFault(t)
          \/ StartEnter(t) \/ StartClear(t) \/ StartArm(t)
     \/ OtherCoreStops \/ OtherCoreStarts
  /\ UNCHANGED dataVars

StreamInit ==
  /\ Init
  /\ slots = [p \in 0..(N - 1) |-> 0]
  /\ out = <<>>
  /\ stored = 0 /\ fetched = 0 /\ snap = 0 /\ stop_mark = 0

StreamNext ==
  \/ Store \/ Silent
  \/ \E t \in Threads :
       Snapshot(t) \/ CopyOut(t) \/ Advance(t) \/ Return(t) \/ StopCapture(t)

StreamSpec == StreamInit /\ [][StreamNext]_streamVars

----------------------------------------------------------------------------
(* Properties.                                                             *)

StreamTypeOK ==
  /\ TypeOK
  /\ slots \in [0..(N - 1) -> 0..MaxRecords]
  /\ out \in Seq(0..MaxRecords)
  /\ stored \in 0..MaxRecords /\ fetched \in 0..MaxRecords
  /\ snap \in 0..MaxRecords /\ stop_mark \in 0..MaxRecords

\* A read returns exactly the records that were stored next after the last
\* ones taken out: none skipped, repeated or reordered (dsplog_read and
\* dsp_log_add_to_ring_buffer, over every wrap of the two pointers).
ReadsInOrder ==
  \A t \in Threads :
    pc[t] = "move" /\ lost = FALSE
      => out = [i \in 1..(snap - fetched) |-> fetched + i]

\* While copy_to_user runs, the timer leaves alone what is being copied.
CopyUndisturbed ==
  [][\A t \in Threads :
       pc[t] = "copy" /\ pc'[t] = "copy" /\ lost = FALSE
         => Readout(cur_write_ptr, read_ptr)' = Readout(cur_write_ptr, read_ptr)]_streamVars

\* Once a stopped capture reports that its read is finished, everything it
\* stored before the STOP has been read.
FlushComplete == dsplog_read_finish = 1 /\ lost = FALSE => fetched >= stop_mark

\* The unread records, as the pointers and the entries give them.
Unread ==
  IF Occupancy = 0 THEN <<>> ELSE Readout(Norm(write_ptr), Norm(read_ptr))

\* The ring implements the bounded queue, until a full flag is lost.
Log == INSTANCE BoundedLog
         WITH Capacity <- N - 1, queue <- Unread, stored <- stored, broken <- lost
RefinesBoundedLog == Log!Spec
=============================================================================
