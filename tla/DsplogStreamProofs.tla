------------------------- MODULE DsplogStreamProofs -------------------------
(***************************************************************************)
(* The records a reader sees, for every size of the ring and number of     *)
(* threads and records.                                                    *)
(***************************************************************************)
EXTENDS DsplogStream, DsplogCaptureProofs, SequenceTheorems

----------------------------------------------------------------------------
(* The inductive invariant.                                                *)

\* The place of the k-th entry from p on.
Entry(p, k) == IF p + k >= N THEN p + k - N ELSE p + k

\* The unread entries are the records from fetched + 1 to stored, and a
\* snapshot of write_ptr is one of stored.
DataInv ==
  lost = FALSE =>
    /\ stored - fetched = Occupancy
    /\ \A k \in 0..(Occupancy - 1) : slots[Entry(Norm(read_ptr), k)] = fetched + k + 1
    /\ \A t \in Threads : HasSnapshot(t) =>
         snap - fetched = LogSize(Norm(cur_write_ptr), Norm(read_ptr))

\* Whatever a STOP found stored is behind every snapshot taken since, and
\* taken out when the read is declared finished.
FlushInv ==
  /\ dsplog_read_finish = 1 => dsplog_state = 0
  /\ stop_mark <= stored
  /\ lost = FALSE =>
       /\ \A t \in Threads : HasSnapshot(t) => stop_mark <= snap
       /\ \A t \in Threads : pc[t] = "clear" => stop_mark <= fetched
       /\ dsplog_read_finish = 1 => stop_mark <= fetched

BoundInv == tpc = "store" => stored < MaxRecords

StreamInv ==
  CaptureInv /\ StreamTypeOK /\ BoundInv /\ DataInv /\ ReadsInOrder /\ FlushInv

----------------------------------------------------------------------------
(* The contents of a log.                                                  *)

\* A segment of the ring is the sequence of its entries.
LEMMA SegmentEntries ==
  ASSUME NEW S, slots \in [0..(N - 1) -> S], NEW a \in 0..N, NEW b \in 0..N, a <= b
  PROVE  /\ Segment(a, b) \in Seq(S) /\ Len(Segment(a, b)) = b - a
         /\ \A i \in 1..(b - a) : Segment(a, b)[i] = slots[a + i - 1]
<1>1. b - a \in Nat /\ \A i \in 1..(b - a) : a + i - 1 \in 0..(N - 1)
  BY CaptureAssumption
<1>2. \A i \in 1..(b - a) : slots[a + i - 1] \in S
  BY <1>1
<1>3. Segment(a, b) \in Seq(S)
  BY <1>1, <1>2 DEF Segment
<1>4. DOMAIN Segment(a, b) = 1..(b - a)
  BY DEF Segment
<1>5. Len(Segment(a, b)) = b - a
  BY <1>1, <1>3, <1>4, LenProperties
<1> QED
  BY <1>3, <1>5 DEF Segment

\* What dsplog_read copies is the log from read_ptr on, over its wrap: a
\* read_ptr resting on ringbuf.end makes the first segment empty.
LEMMA ReadoutEntries ==
  ASSUME NEW S, slots \in [0..(N - 1) -> S], NEW w \in 0..N, NEW r \in 0..N
  PROVE  /\ Readout(w, r) \in Seq(S) /\ Len(Readout(w, r)) = LogSize(w, r)
         /\ \A i \in 1..LogSize(w, r) : Readout(w, r)[i] = slots[Entry(r, i - 1)]
<1>1. CASE w < r
  <2>1. /\ Segment(r, N) \in Seq(S) /\ Len(Segment(r, N)) = N - r
        /\ \A i \in 1..(N - r) : Segment(r, N)[i] = slots[r + i - 1]
    <3>1. N \in 0..N /\ r <= N
      BY CaptureAssumption
    <3> QED
      BY <3>1, SegmentEntries
  <2>2. /\ Segment(0, w) \in Seq(S) /\ Len(Segment(0, w)) = w
        /\ \A i \in 1..w : Segment(0, w)[i] = slots[i - 1]
    <3>1. 0 \in 0..N /\ 0 <= w /\ w - 0 = w
      BY CaptureAssumption
    <3>2. /\ Segment(0, w) \in Seq(S) /\ Len(Segment(0, w)) = w - 0
          /\ \A i \in 1..(w - 0) : Segment(0, w)[i] = slots[0 + i - 1]
      BY <3>1, SegmentEntries
    <3> QED
      BY <3>1, <3>2
  <2> DEFINE s == Segment(r, N)
             t == Segment(0, w)
  <2>3. Readout(w, r) = s \o t /\ LogSize(w, r) = N - r + w
    BY <1>1, CaptureAssumption DEF Readout, LogSize
  <2> HIDE DEF s, t
  <2>4. /\ s \o t \in Seq(S) /\ Len(s \o t) = N - r + w
        /\ \A i \in 1..(N - r + w) :
             (s \o t)[i] = IF i <= N - r THEN s[i] ELSE t[i - (N - r)]
    <3>1. s \in Seq(S) /\ t \in Seq(S) /\ Len(s) = N - r /\ Len(t) = w
      BY <2>1, <2>2 DEF s, t
    <3>2. /\ s \o t \in Seq(S) /\ Len(s \o t) = Len(s) + Len(t)
          /\ \A i \in 1..Len(s) + Len(t) : (s \o t)[i] = IF i <= Len(s) THEN s[i] ELSE t[i - Len(s)]
      BY <3>1, ConcatProperties
    <3> QED
      BY <3>1, <3>2
  <2>5. ASSUME NEW i \in 1..(N - r + w)
        PROVE  (s \o t)[i] = slots[Entry(r, i - 1)]
    <3>1. CASE i <= N - r
      <4>1. Entry(r, i - 1) = r + i - 1 /\ i \in 1..(N - r)
        BY <3>1, CaptureAssumption DEF Entry
      <4> QED
        BY <2>1, <2>4, <3>1, <4>1 DEF s
    <3>2. CASE i > N - r
      <4>1. Entry(r, i - 1) = i - (N - r) - 1 /\ i - (N - r) \in 1..w
        BY <3>2, CaptureAssumption DEF Entry
      <4>2. ~ (i <= N - r)
        BY <3>2, CaptureAssumption
      <4> QED
        BY <2>2, <2>4, <4>1, <4>2 DEF t
    <3>3. i <= N - r \/ i > N - r
      BY CaptureAssumption
    <3> QED
      BY <3>1, <3>2, <3>3, Zenon
  <2> QED
    BY <2>3, <2>4, <2>5
<1>2. CASE w >= r
  <2>1. Readout(w, r) = Segment(r, w) /\ LogSize(w, r) = w - r
    BY <1>2, CaptureAssumption DEF Readout, LogSize
  <2>2. /\ Segment(r, w) \in Seq(S) /\ Len(Segment(r, w)) = w - r
        /\ \A i \in 1..(w - r) : Segment(r, w)[i] = slots[r + i - 1]
    BY <1>2, SegmentEntries
  <2>3. \A i \in 1..(w - r) : Entry(r, i - 1) = r + i - 1
    BY CaptureAssumption DEF Entry
  <2> QED
    BY <2>1, <2>2, <2>3
<1>3. w < r \/ w >= r
  BY CaptureAssumption
<1> QED
  BY <1>1, <1>2, <1>3, Zenon

----------------------------------------------------------------------------
(* The steps.                                                              *)

\* Every step of the stream is a step of the capture.
LEMMA StreamIsCapture == StreamNext => Next
  BY DEF StreamNext, Store, Silent, Snapshot, CopyOut, Advance, Return, StopCapture, Next, Timer,
     Read, Start

\* One thread at a time holds the mutex.
LEMMA OneHolder ==
  ASSUME MutexInv, NEW t \in Threads, NEW u \in Threads, pc[t] \in Locked, pc[u] \in Locked
  PROVE  t = u
  BY DEF MutexInv

\* What the steps that touch no record leave as it is.
Framed ==
  /\ UNCHANGED dataVars
  /\ read_ptr' = read_ptr /\ Norm(write_ptr') = Norm(write_ptr)
  /\ lost' = FALSE => lost = FALSE
  /\ \A u \in Threads : HasSnapshot(u)' => HasSnapshot(u) /\ cur_write_ptr' = cur_write_ptr
  /\ \A u \in Threads : pc'[u] \in {"move", "clear"} => pc'[u] = pc[u]
  /\ dsplog_read_finish' = 1 => dsplog_read_finish = 1 /\ dsplog_state' = dsplog_state
  /\ tpc' = "store" => tpc = "store" \/ stored < MaxRecords

LEMMA SilentFrame ==
  ASSUME TypeOK, MutexInv, Silent
  PROVE  Framed
<1> USE DEF TypeOK, GoTo, HasSnapshot, ringVars, wakeVars, modeVars, callVars
<1>1. UNCHANGED dataVars
  BY DEF Silent
<1>2. CASE \/ TimerTestFull \/ TimerMarkFull \/ TimerNotify \/ TimerDec \/ TimerComplete
           \/ OtherCoreStops \/ OtherCoreStarts
  BY <1>1, <1>2 DEF TimerTestFull, TimerMarkFull, TimerNotify, TimerDec, TimerComplete,
     OtherCoreStops, OtherCoreStarts, Framed
<1>3. CASE TimerRecord /\ stored < MaxRecords
  BY <1>1, <1>3 DEF TimerRecord, Framed
<1>4. CASE TimerWrap
  <2>1. Norm(write_ptr') = Norm(write_ptr)
    BY <1>4, CaptureAssumption DEF TimerWrap, Norm
  <2> QED
    BY <1>1, <1>4, <2>1 DEF TimerWrap, Framed
<1>5. ASSUME NEW t \in Threads,
             \/ ReadStopped(t) \/ ReadWake(t) \/ ReadSignalled(t) \/ ReadRelock(t) \/ StartEnter(t)
      PROVE  Framed
  BY <1>1, <1>5 DEF ReadStopped, ReadWake, ReadSignalled, ReadRelock, StartEnter, Framed
<1>6. ASSUME NEW t \in Threads, ReadStarted(t) PROVE Framed
  <2>1. pc' = [pc EXCEPT ![t] = "snap"] \/ pc' = [pc EXCEPT ![t] = "wait"]
    BY <1>6 DEF ReadStarted
  <2>2. UNCHANGED <<cur_write_ptr, ringVars, modeVars>>
    BY <1>6 DEF ReadStarted
  <2> QED
    BY <1>1, <2>1, <2>2 DEF Framed
<1>7. ASSUME NEW t \in Threads, ReadFault(t) \/ StartArm(t) PROVE Framed
  <2>1. /\ pc' = [pc EXCEPT ![t] = "idle"] /\ pc[t] \in Locked
        /\ UNCHANGED ringVars
        /\ dsplog_read_finish' = 1 => dsplog_read_finish = 1 /\ dsplog_state' = dsplog_state
    BY <1>7 DEF ReadFault, StartArm, Locked
  <2>2. \A u \in Threads : ~ HasSnapshot(u)'
    BY <2>1, OneHolder DEF Locked
  <2> QED
    BY <1>1, <2>1, <2>2 DEF Framed
<1>8. ASSUME NEW t \in Threads, StartClear(t) PROVE Framed
  <2>1. /\ pc' = [pc EXCEPT ![t] = "start_arm"]
        /\ UNCHANGED <<write_ptr, read_ptr, tpc, cur_write_ptr, modeVars>>
        /\ lost' = FALSE => lost = FALSE
    BY <1>8 DEF StartClear, ClearFull
  <2> QED
    BY <1>1, <2>1 DEF Framed
<1> QED
  BY <1>2, <1>3, <1>4, <1>5, <1>6, <1>7, <1>8 DEF Silent

\* What is said of the records.
RecordsInv == BoundInv /\ DataInv /\ ReadsInOrder /\ FlushInv

LEMMA FrameKeepsRecords ==
  ASSUME RecordsInv, Framed
  PROVE  RecordsInv'
<1> USE DEF RecordsInv, Framed, dataVars
<1>1. Occupancy' = Occupancy
  BY DEF Occupancy
<1>2. BoundInv'
  BY DEF BoundInv
<1>3. DataInv'
  BY <1>1 DEF DataInv
<1>4. ReadsInOrder'
  BY DEF ReadsInOrder
<1>5. FlushInv'
  BY DEF FlushInv
<1> QED
  BY <1>2, <1>3, <1>4, <1>5

\* The types of the records, and of a log's length.
RecordTypes ==
  /\ write_ptr \in 0..N /\ read_ptr \in 0..N /\ cur_write_ptr \in 0..N
  /\ stored \in Nat /\ fetched \in Nat /\ snap \in Nat /\ stop_mark \in Nat
  /\ slots \in [0..(N - 1) -> Nat]
  /\ Occupancy \in 0..(N - 1)
  /\ LogSize(Norm(cur_write_ptr), Norm(read_ptr)) \in 0..(N - 1)

LEMMA TypesOfRecords == StreamTypeOK => RecordTypes
  BY StreamAssumption, LogSizeRange DEF StreamTypeOK, RecordTypes, TypeOK, Occupancy

\* A record is stored behind the others.
LEMMA StoreRecord ==
  ASSUME CaptureInv, RecordTypes, RecordsInv, Store
  PROVE  RecordsInv'
<1> USE DEF RecordsInv
<1>1. /\ tpc = "store" /\ tpc' = "wrap" /\ write_ptr' = write_ptr + 1
      /\ UNCHANGED <<read_ptr, lost, modeVars, callVars>>
      /\ slots' = [slots EXCEPT ![write_ptr] = stored + 1] /\ stored' = stored + 1
      /\ UNCHANGED <<out, fetched, snap, stop_mark>>
  BY DEF Store, TimerStore
<1>2. write_ptr \in 0..(N - 1)
  BY <1>1, CaptureAssumption DEF RecordTypes, CaptureInv, EndInv
<1>3. \A u \in Threads : HasSnapshot(u)' <=> HasSnapshot(u)
  BY <1>1 DEF HasSnapshot, callVars
<1>4. BoundInv' /\ ReadsInOrder'
  BY <1>1 DEF BoundInv, ReadsInOrder, callVars
<1>5. FlushInv'
  BY <1>1, <1>3 DEF FlushInv, RecordTypes, callVars, modeVars
<1>6. DataInv'
  <2> SUFFICES ASSUME lost = FALSE
               PROVE  /\ stored' - fetched' = Occupancy'
                      /\ \A k \in 0..(Occupancy' - 1) :
                           slots'[Entry(Norm(read_ptr'), k)] = fetched' + k + 1
                      /\ \A t \in Threads : HasSnapshot(t)' =>
                           snap' - fetched' = LogSize(Norm(cur_write_ptr'), Norm(read_ptr'))
    BY <1>1 DEF DataInv
  <2>1. Occupancy <= N - 2
    BY <1>1 DEF CaptureInv, RingInv, FullInv
  <2>2. Occupancy' = Occupancy + 1
    BY <1>1, <1>2, <2>1, StoreLengthens DEF Occupancy, RecordTypes
  <2>3. stored - fetched = Occupancy
    BY DEF DataInv
  <2>4. stored' - fetched' = Occupancy'
    BY <1>1, <2>2, <2>3 DEF RecordTypes
  <2>5. Norm(read_ptr) \in 0..(N - 1) /\ Norm(write_ptr) = write_ptr
    BY <1>2, CaptureAssumption DEF Norm, RecordTypes
  <2>6. Entry(Norm(read_ptr), Occupancy) = write_ptr
    BY <1>2, <2>1, <2>5, CaptureAssumption DEF Entry, Occupancy, LogSize
  <2>7. ASSUME NEW k \in 0..(Occupancy - 1)
        PROVE  Entry(Norm(read_ptr), k) # write_ptr /\ Entry(Norm(read_ptr), k) \in 0..(N - 1)
    BY <1>2, <2>1, <2>5, CaptureAssumption DEF Entry, Occupancy, LogSize
  <2>8. ASSUME NEW k \in 0..(Occupancy' - 1)
        PROVE  slots'[Entry(Norm(read_ptr), k)] = fetched + k + 1
    <3>1. CASE k = Occupancy
      <4>1. slots'[write_ptr] = stored + 1
        BY <1>1, <1>2 DEF RecordTypes
      <4> QED
        BY <2>3, <2>6, <3>1, <4>1 DEF RecordTypes
    <3>2. CASE k # Occupancy
      <4>1. k \in 0..(Occupancy - 1)
        BY <2>2, <3>2 DEF RecordTypes
      <4>2. slots'[Entry(Norm(read_ptr), k)] = slots[Entry(Norm(read_ptr), k)]
        BY <1>1, <2>7, <4>1 DEF RecordTypes
      <4> QED
        BY <4>1, <4>2 DEF DataInv
    <3> QED
      BY <3>1, <3>2
  <2> QED
    BY <1>1, <1>3, <2>4, <2>8 DEF DataInv, callVars
<1> QED
  BY <1>4, <1>5, <1>6

\* A thread that holds the mutex takes its snapshot of write_ptr.
LEMMA TakeSnapshot ==
  ASSUME CaptureInv, RecordTypes, RecordsInv, NEW t \in Threads, Snapshot(t)
  PROVE  RecordsInv'
<1> USE DEF RecordsInv
<1>1. /\ pc' = [pc EXCEPT ![t] = "copy"] \/ pc' = [pc EXCEPT ![t] = "start_move"]
      /\ cur_write_ptr' = write_ptr
      /\ UNCHANGED <<ringVars, modeVars, slots, out, stored, fetched, stop_mark>>
      /\ snap' = stored /\ pc[t] \in Locked
  BY DEF Snapshot, ReadSnapshot, StartSnapshot, GoTo, Locked
<1>2. \A u \in Threads : pc'[u] \in {"move", "clear"} => FALSE
  BY <1>1, OneHolder DEF CaptureInv, TypeOK, Locked
<1>3. BoundInv' /\ ReadsInOrder'
  BY <1>1, <1>2 DEF BoundInv, ReadsInOrder, ringVars
<1>4. FlushInv'
  BY <1>1, <1>2 DEF FlushInv, ringVars, modeVars
<1>5. DataInv'
  BY <1>1 DEF DataInv, ringVars, Occupancy
<1> QED
  BY <1>3, <1>4, <1>5

\* The records from a to b - 1 places on, as a sequence.
Records(a, b) == [i \in 1..(b - a) |-> a + i]

\* What a thread with a snapshot is about to copy, or to flush, is exactly
\* the records stored since the last ones taken out.
LEMMA SnapshotReadout ==
  ASSUME CaptureInv, RecordTypes, DataInv, lost = FALSE, NEW t \in Threads, HasSnapshot(t)
  PROVE  Readout(cur_write_ptr, read_ptr) = Records(fetched, snap)
<1> DEFINE L == LogSize(cur_write_ptr, read_ptr)
           R == Readout(cur_write_ptr, read_ptr)
<1>1. /\ LogSize(Norm(cur_write_ptr), Norm(read_ptr)) <= Occupancy
      /\ cur_write_ptr = N => read_ptr # 0
  BY DEF CaptureInv, RingInv, SnapshotInv
<1>2. L = LogSize(Norm(cur_write_ptr), Norm(read_ptr))
  BY <1>1, CaptureAssumption DEF RecordTypes, LogSize, Norm
<1>3. L = snap - fetched /\ L \in 0..(N - 1) /\ L <= Occupancy
  BY <1>1, <1>2 DEF DataInv, RecordTypes
<1>4. R \in Seq(Nat) /\ Len(R) = L /\ \A i \in 1..L : R[i] = slots[Entry(read_ptr, i - 1)]
  BY ReadoutEntries DEF RecordTypes
<1> HIDE DEF R, L
<1>5. ASSUME NEW i \in 1..L PROVE R[i] = fetched + i
  <2>1. i - 1 \in 0..(Occupancy - 1)
    BY <1>3 DEF RecordTypes
  <2>2. Entry(read_ptr, i - 1) = Entry(Norm(read_ptr), i - 1)
    BY <1>3, CaptureAssumption DEF RecordTypes, Entry, Norm
  <2>3. slots[Entry(Norm(read_ptr), i - 1)] = fetched + (i - 1) + 1
    BY <2>1 DEF DataInv
  <2> QED
    BY <1>3, <1>4, <2>2, <2>3 DEF RecordTypes
<1>6. R = [i \in 1..L |-> R[i]]
  <2>1. DOMAIN R = 1..L /\ R = [i \in DOMAIN R |-> R[i]]
    BY <1>4, LenProperties
  <2> QED
    BY <2>1
<1>7. R = [i \in 1..L |-> fetched + i]
  BY <1>5, <1>6
<1> QED
  BY <1>3, <1>7 DEF Records, R

\* copy_to_user hands out the records of the snapshot.
LEMMA CopyRecords ==
  ASSUME CaptureInv, RecordTypes, RecordsInv, NEW t \in Threads, CopyOut(t)
  PROVE  RecordsInv'
<1> USE DEF RecordsInv
<1>1. /\ pc' = [pc EXCEPT ![t] = "move"] /\ pc[t] = "copy"
      /\ UNCHANGED <<cur_write_ptr, ringVars, modeVars>>
      /\ out' = Readout(cur_write_ptr, read_ptr)
      /\ UNCHANGED <<slots, stored, fetched, snap, stop_mark>>
  BY DEF CopyOut, ReadCopy, GoTo
<1>2. pc \in [Threads -> Locked \union Unlocked]
  BY DEF CaptureInv, TypeOK
<1>3. \A u \in Threads : HasSnapshot(u)' => HasSnapshot(u)
  BY <1>1, <1>2 DEF HasSnapshot
<1>4. \A u \in Threads : pc'[u] # "clear" \/ pc[u] = "clear"
  BY <1>1, <1>2
<1>5. ReadsInOrder'
  <2> SUFFICES ASSUME lost = FALSE PROVE out' = Records(fetched, snap)
    BY <1>1 DEF ReadsInOrder, Records, ringVars
  <2>1. HasSnapshot(t)
    BY <1>1 DEF HasSnapshot
  <2> QED
    BY <1>1, <2>1, SnapshotReadout
<1>6. BoundInv'
  BY <1>1 DEF BoundInv, ringVars
<1>7. FlushInv'
  BY <1>1, <1>3, <1>4 DEF FlushInv, ringVars, modeVars
<1>8. DataInv'
  BY <1>1, <1>3 DEF DataInv, ringVars, Occupancy
<1> QED
  BY <1>5, <1>6, <1>7, <1>8

\* The read pointer moves to the snapshot: the records before it are gone.
LEMMA AdvanceRecords ==
  ASSUME CaptureInv, RecordTypes, RecordsInv, NEW t \in Threads, Advance(t)
  PROVE  RecordsInv'
<1> USE DEF RecordsInv
<1>1. /\ pc' = [pc EXCEPT ![t] = "clear"] \/ pc' = [pc EXCEPT ![t] = "start_clear"]
      /\ HasSnapshot(t) /\ pc[t] \in Locked /\ pc[t] \in {"move", "start_move"}
      /\ read_ptr' = cur_write_ptr
      /\ UNCHANGED <<write_ptr, tpc, lost, cur_write_ptr, modeVars>>
      /\ fetched' = snap /\ snap' = 0
      /\ UNCHANGED <<slots, out, stored, stop_mark>>
  BY DEF Advance, ReadMove, StartMove, MoveReadPtr, GoTo, HasSnapshot, Locked
<1>2. pc \in [Threads -> Locked \union Unlocked]
  BY DEF CaptureInv, TypeOK
<1>3. \A u \in Threads : ~ HasSnapshot(u)' /\ pc'[u] # "move"
  BY <1>1, <1>2, OneHolder DEF CaptureInv, HasSnapshot, Locked
<1>4. BoundInv' /\ ReadsInOrder'
  BY <1>1, <1>3 DEF BoundInv, ReadsInOrder
<1>5. FlushInv'
  <2>1. lost = FALSE => stop_mark <= snap
    BY <1>1 DEF FlushInv
  <2>2. \A u \in Threads : ~ HasSnapshot(u)'
    BY <1>3
  <2> QED
    BY <1>1, <2>1, <2>2 DEF FlushInv, modeVars
<1>6. DataInv'
  <2> SUFFICES ASSUME lost = FALSE
               PROVE  /\ stored - snap = Occupancy'
                      /\ \A k \in 0..(Occupancy' - 1) :
                           slots[Entry(Norm(cur_write_ptr), k)] = snap + k + 1
    BY <1>1, <1>3 DEF DataInv
  <2> DEFINE L == LogSize(Norm(cur_write_ptr), Norm(read_ptr))
  <2>1. L <= Occupancy /\ snap - fetched = L /\ stored - fetched = Occupancy
    BY <1>1 DEF CaptureInv, RingInv, SnapshotInv, DataInv
  <2>2. Occupancy' = Occupancy - L
    BY <1>1, <2>1, MoveShortens DEF Occupancy, RecordTypes
  <2>3. Norm(read_ptr) \in 0..(N - 1) /\ L \in 0..(N - 1)
    BY CaptureAssumption DEF Norm, RecordTypes
  <2>4. Norm(cur_write_ptr) = Entry(Norm(read_ptr), L)
    BY <2>3, CaptureAssumption DEF LogSize, Norm, Entry, RecordTypes
  <2>5. stored - snap = Occupancy'
    BY <2>1, <2>2, <2>3 DEF RecordTypes
  <2> HIDE DEF L
  <2>6. ASSUME NEW k \in 0..(Occupancy' - 1)
        PROVE  slots[Entry(Norm(cur_write_ptr), k)] = snap + k + 1
    <3>1. L + k \in 0..(Occupancy - 1) /\ k \in Nat
      BY <2>1, <2>2, <2>3 DEF RecordTypes
    <3>2. Entry(Norm(cur_write_ptr), k) = Entry(Norm(read_ptr), L + k)
      <4> DEFINE r == Norm(read_ptr)
      <4>1. L + k <= N - 2 /\ N \in Nat /\ r \in 0..(N - 1) /\ L \in 0..(N - 1) /\ k \in Nat
        BY <2>3, <3>1, CaptureAssumption DEF RecordTypes
      <4> HIDE DEF r
      <4>2. Entry(Entry(r, L), k) = Entry(r, L + k)
        BY <4>1 DEF Entry
      <4> QED
        BY <2>4, <4>2 DEF r
    <3>3. slots[Entry(Norm(read_ptr), L + k)] = fetched + (L + k) + 1
      BY <3>1 DEF DataInv
    <3> QED
      BY <2>1, <2>3, <3>1, <3>2, <3>3 DEF RecordTypes
  <2> QED
    BY <2>5, <2>6
<1> QED
  BY <1>4, <1>5, <1>6

\* The call returns: a stopped capture may now be declared finished.
LEMMA ReturnRecords ==
  ASSUME CaptureInv, RecordTypes, RecordsInv, NEW t \in Threads, Return(t)
  PROVE  RecordsInv'
<1> USE DEF RecordsInv
<1>1. /\ pc' = [pc EXCEPT ![t] = "idle"] /\ pc[t] = "clear"
      /\ UNCHANGED <<write_ptr, read_ptr, tpc, dsplog_state>>
      /\ lost' = FALSE => lost = FALSE
      /\ dsplog_read_finish' = IF dsplog_state = 0 THEN 1 ELSE dsplog_read_finish
      /\ UNCHANGED <<slots, stored, fetched, snap, stop_mark>>
  BY DEF Return, ReadClear, ClearFull, GoTo
<1>2. pc \in [Threads -> Locked \union Unlocked]
  BY DEF CaptureInv, TypeOK
<1>3. \A u \in Threads : ~ HasSnapshot(u)' /\ pc'[u] # "clear" /\ pc'[u] # "move"
  BY <1>1, <1>2, OneHolder DEF CaptureInv, HasSnapshot, Locked
<1>4. BoundInv' /\ ReadsInOrder'
  BY <1>1, <1>3 DEF BoundInv, ReadsInOrder
<1>5. DataInv'
  BY <1>1, <1>3 DEF DataInv, Occupancy
<1>6. FlushInv'
  <2>1. dsplog_read_finish' = 1 => dsplog_state' = 0
    BY <1>1 DEF FlushInv
  <2>2. lost' = FALSE => stop_mark <= fetched
    BY <1>1 DEF FlushInv
  <2> QED
    BY <1>1, <1>3, <2>1, <2>2 DEF FlushInv
<1> QED
  BY <1>4, <1>5, <1>6

\* STOP of a started capture: nobody is inside read(), nothing is finished.
LEMMA StopRecords ==
  ASSUME CaptureInv, RecordTypes, RecordsInv, NEW t \in Threads, StopCapture(t)
  PROVE  RecordsInv'
<1> USE DEF RecordsInv
<1>1. /\ lock = NoThread /\ dsplog_state' = 0
      /\ UNCHANGED <<ringVars, callVars, dsplog_read_finish>>
      /\ stop_mark' = IF dsplog_state = 1 THEN stored ELSE stop_mark
      /\ UNCHANGED <<slots, out, stored, fetched, snap>>
  BY DEF StopCapture, Stop
<1>2. \A u \in Threads : pc[u] \notin Locked /\ pc'[u] = pc[u]
  BY <1>1, CaptureAssumption DEF CaptureInv, MutexInv, callVars
<1>3. \A u \in Threads : ~ HasSnapshot(u)' /\ pc'[u] # "clear" /\ pc'[u] # "move"
  BY <1>2 DEF HasSnapshot, Locked
<1>4. BoundInv' /\ ReadsInOrder'
  BY <1>1, <1>3 DEF BoundInv, ReadsInOrder, ringVars
<1>5. DataInv'
  BY <1>1, <1>3 DEF DataInv, Occupancy, ringVars
<1>6. FlushInv'
  <2>1. stop_mark' <= stored'
    BY <1>1 DEF FlushInv, RecordTypes
  <2>2. dsplog_read_finish' = 1 => stop_mark' = stop_mark
    BY <1>1 DEF FlushInv
  <2> QED
    BY <1>1, <1>3, <2>1, <2>2 DEF FlushInv, ringVars
<1> QED
  BY <1>4, <1>5, <1>6

LEMMA RecordsStep ==
  ASSUME CaptureInv, RecordTypes, RecordsInv, [StreamNext]_streamVars
  PROVE  RecordsInv'
<1>1. CASE Store
  BY <1>1, StoreRecord
<1>2. CASE Silent
  BY <1>2, SilentFrame, FrameKeepsRecords DEF CaptureInv
<1>3. ASSUME NEW t \in Threads,
             Snapshot(t) \/ CopyOut(t) \/ Advance(t) \/ Return(t) \/ StopCapture(t)
      PROVE  RecordsInv'
  BY <1>3, TakeSnapshot, CopyRecords, AdvanceRecords, ReturnRecords, StopRecords
<1>4. CASE UNCHANGED streamVars
  <2>1. Framed
    BY <1>4 DEF streamVars, vars, ringVars, modeVars, callVars, dataVars, Framed, HasSnapshot
  <2> QED
    BY <2>1, FrameKeepsRecords
<1> QED
  BY <1>1, <1>2, <1>3, <1>4 DEF StreamNext

LEMMA StreamTypeStep ==
  ASSUME CaptureInv', StreamTypeOK, RecordsInv, [StreamNext]_streamVars
  PROVE  StreamTypeOK'
<1>1. TypeOK'
  BY DEF CaptureInv
<1>2. CASE Store
  <2>1. stored + 1 \in 0..MaxRecords /\ write_ptr \in 0..N
    BY <1>2, StreamAssumption DEF Store, TimerStore, RecordsInv, BoundInv, StreamTypeOK, TypeOK
  <2> QED
    BY <1>1, <1>2, <2>1 DEF Store, StreamTypeOK
<1>3. CASE Silent \/ UNCHANGED streamVars
  BY <1>1, <1>3 DEF Silent, StreamTypeOK, dataVars, streamVars
<1>4. ASSUME NEW t \in Threads, CopyOut(t) PROVE StreamTypeOK'
  <2>1. /\ out' = Readout(cur_write_ptr, read_ptr)
        /\ UNCHANGED <<slots, stored, fetched, snap, stop_mark>>
    BY <1>4 DEF CopyOut
  <2>2. out' \in Seq(0..MaxRecords)
    BY <2>1, ReadoutEntries DEF StreamTypeOK, TypeOK
  <2> QED
    BY <1>1, <2>1, <2>2 DEF StreamTypeOK
<1>5. ASSUME NEW t \in Threads, Snapshot(t) \/ Advance(t) \/ StopCapture(t)
      PROVE  StreamTypeOK'
  BY <1>1, <1>5, StreamAssumption DEF Snapshot, Advance, StopCapture, StreamTypeOK
<1>6. ASSUME NEW t \in Threads, Return(t) PROVE StreamTypeOK'
  <2>1. <<>> \in Seq(0..MaxRecords)
    BY EmptySeq
  <2> QED
    BY <1>1, <1>6, <2>1 DEF Return, StreamTypeOK
<1> QED
  BY <1>2, <1>3, <1>4, <1>5, <1>6 DEF StreamNext

----------------------------------------------------------------------------
(* The theorems.                                                           *)

\* The inductive invariant of the stream holds.  It rests on that of the
\* capture, of which every step is one.
THEOREM StreamInvariant == StreamSpec => []StreamInv
<1>1. StreamInit => StreamInv
  <2> SUFFICES ASSUME StreamInit PROVE StreamInv
    OBVIOUS
  <2>1. CaptureInv
    BY CaptureInit DEF StreamInit
  <2>2. StreamTypeOK
    <3>1. out \in Seq(0..MaxRecords)
      BY EmptySeq DEF StreamInit
    <3> QED
      BY <2>1, <3>1, StreamAssumption DEF StreamInit, StreamTypeOK, CaptureInv
  <2>3. BoundInv /\ ReadsInOrder /\ FlushInv
    BY DEF StreamInit, Init, BoundInv, ReadsInOrder, FlushInv, HasSnapshot
  <2>4. DataInv
    BY CaptureAssumption DEF StreamInit, Init, DataInv, HasSnapshot, Occupancy, LogSize, Norm
  <2> QED
    BY <2>1, <2>2, <2>3, <2>4 DEF StreamInv
<1>2. StreamInv /\ [StreamNext]_streamVars => StreamInv'
  <2> SUFFICES ASSUME StreamInv, [StreamNext]_streamVars PROVE StreamInv'
    OBVIOUS
  <2>1. [Next]_vars
    BY StreamIsCapture DEF streamVars
  <2>2. CaptureInv'
    BY <2>1, CaptureStep DEF StreamInv
  <2>3. RecordTypes /\ RecordsInv
    BY TypesOfRecords DEF StreamInv, RecordsInv
  <2>4. RecordsInv' /\ StreamTypeOK'
    BY <2>2, <2>3, RecordsStep, StreamTypeStep DEF StreamInv
  <2> QED
    BY <2>2, <2>4 DEF StreamInv, RecordsInv
<1> QED
  BY <1>1, <1>2, PTL DEF StreamSpec

\* The types of the ring's contents.
THEOREM StreamTypes == StreamSpec => []StreamTypeOK
<1>1. StreamInv => StreamTypeOK
  BY DEF StreamInv
<1> QED
  BY <1>1, StreamInvariant, PTL

\* A read returns the records stored next, none skipped, repeated or
\* reordered.
THEOREM ReadInOrder == StreamSpec => []ReadsInOrder
<1>1. StreamInv => ReadsInOrder
  BY DEF StreamInv
<1> QED
  BY <1>1, StreamInvariant, PTL

\* A read declared finished has taken out all that STOP found stored.
THEOREM FlushesCompletely == StreamSpec => []FlushComplete
<1>1. StreamInv => FlushComplete
  BY DEF StreamInv, FlushInv, FlushComplete, StreamTypeOK
<1> QED
  BY <1>1, StreamInvariant, PTL

----------------------------------------------------------------------------
(* What the timer does during a copy, and the bounded queue.               *)

\* What a snapshot stands for, and what is unread, as sequences.
ViewInv ==
  lost = FALSE =>
    /\ \A t \in Threads : HasSnapshot(t) =>
         Readout(cur_write_ptr, read_ptr) = Records(fetched, snap)
    /\ Unread = Records(fetched, stored)
    /\ fetched <= stored
    /\ \A t \in Threads : HasSnapshot(t) => fetched <= snap

\* A sequence of records, its length and its elements.
LEMMA RecordsEntries ==
  ASSUME NEW a \in Nat, NEW b \in Nat, a <= b
  PROVE  /\ Records(a, b) \in Seq(Nat) /\ Len(Records(a, b)) = b - a
         /\ \A i \in 1..(b - a) : Records(a, b)[i] = a + i
<1>1. b - a \in Nat /\ \A i \in 1..(b - a) : a + i \in Nat
  OBVIOUS
<1>2. Records(a, b) \in Seq(Nat)
  BY <1>1 DEF Records
<1>3. DOMAIN Records(a, b) = 1..(b - a)
  BY DEF Records
<1>4. Len(Records(a, b)) = b - a
  BY <1>1, <1>2, <1>3, LenProperties
<1> QED
  BY <1>2, <1>4 DEF Records

\* One record more at the end ...
LEMMA RecordsAppend ==
  ASSUME NEW a \in Nat, NEW b \in Nat, a <= b
  PROVE  Append(Records(a, b), b + 1) = Records(a, b + 1)
<1> DEFINE s == Records(a, b)
           t == Records(a, b + 1)
           u == Append(s, b + 1)
<1>1. s \in Seq(Nat) /\ Len(s) = b - a /\ \A i \in 1..(b - a) : s[i] = a + i
  BY RecordsEntries
<1>2. t \in Seq(Nat) /\ Len(t) = b + 1 - a /\ \A i \in 1..(b + 1 - a) : t[i] = a + i
  <2>1. b + 1 \in Nat /\ a <= b + 1
    OBVIOUS
  <2> QED
    BY <2>1, RecordsEntries
<1> HIDE DEF s, t
<1>3. /\ u \in Seq(Nat) /\ Len(u) = Len(s) + 1
      /\ \A i \in 1..Len(s) : u[i] = s[i]
      /\ u[Len(s) + 1] = b + 1
  <2> DEFINE e == b + 1
  <2>1. e \in Nat
    OBVIOUS
  <2> HIDE DEF e
  <2>2. /\ Append(s, e) \in Seq(Nat) /\ Len(Append(s, e)) = Len(s) + 1
        /\ \A i \in 1..Len(s) : Append(s, e)[i] = s[i]
        /\ Append(s, e)[Len(s) + 1] = e
    BY <1>1, <2>1, AppendProperties
  <2> QED
    BY <2>2 DEF e
<1> HIDE DEF u
<1>4. ASSUME NEW i \in 1..Len(u) PROVE u[i] = t[i]
  <2>1. CASE i <= Len(s)
    BY <1>1, <1>2, <1>3, <2>1
  <2>2. CASE i = Len(s) + 1
    BY <1>1, <1>2, <1>3, <2>2
  <2> QED
    BY <1>1, <1>3, <2>1, <2>2
<1>5. Len(u) = Len(t)
  BY <1>1, <1>2, <1>3
<1>6. u = t
  BY <1>2, <1>3, <1>4, <1>5, SeqEqual
<1> QED
  BY <1>6 DEF u, s, t

\* ... and some fewer at the front.
LEMMA RecordsSuffix ==
  ASSUME NEW a \in Nat, NEW c \in Nat, NEW b \in Nat, a <= c, c <= b
  PROVE  /\ c - a \in 0..Len(Records(a, b))
         /\ SubSeq(Records(a, b), c - a + 1, Len(Records(a, b))) = Records(c, b)
<1> DEFINE s == Records(a, b)
           t == Records(c, b)
           m == c - a + 1
           u == SubSeq(s, m, Len(s))
<1>1. s \in Seq(Nat) /\ Len(s) = b - a /\ \A i \in 1..(b - a) : s[i] = a + i
  BY RecordsEntries
<1>2. t \in Seq(Nat) /\ Len(t) = b - c /\ \A i \in 1..(b - c) : t[i] = c + i
  BY RecordsEntries
<1> HIDE DEF s, t
<1>3. m \in Int /\ Len(s) \in Int /\ \A i \in m..Len(s) : s[i] \in Nat
  BY <1>1
<1>4. /\ u \in Seq(Nat)
      /\ Len(u) = IF m <= Len(s) THEN Len(s) - m + 1 ELSE 0
      /\ \A i \in 1..(Len(s) - m + 1) : u[i] = s[m + i - 1]
  BY <1>3, SubSeqProperties
<1> HIDE DEF u
<1>5. Len(u) = Len(t) /\ Len(s) - m + 1 = b - c
  BY <1>1, <1>2, <1>4
<1>6. ASSUME NEW i \in 1..Len(u) PROVE u[i] = t[i]
  <2>1. i \in 1..(b - c) /\ m + i - 1 \in 1..(b - a) /\ a + (m + i - 1) = c + i
    BY <1>2, <1>5
  <2> QED
    BY <1>1, <1>2, <1>4, <1>5, <2>1
<1>7. u = t
  BY <1>2, <1>4, <1>5, <1>6, SeqEqual
<1> QED
  BY <1>1, <1>7 DEF u, s, t

LEMMA RecordsView == StreamInv => ViewInv
<1> SUFFICES ASSUME StreamInv, lost = FALSE
             PROVE  /\ \A t \in Threads : HasSnapshot(t) =>
                         Readout(cur_write_ptr, read_ptr) = Records(fetched, snap)
                    /\ Unread = Records(fetched, stored)
                    /\ fetched <= stored
                    /\ \A t \in Threads : HasSnapshot(t) => fetched <= snap
  BY DEF ViewInv
<1>1. RecordTypes /\ DataInv /\ CaptureInv
  BY TypesOfRecords DEF StreamInv
<1>2. stored - fetched = Occupancy
  BY <1>1 DEF DataInv
<1>3. fetched <= stored
  BY <1>1, <1>2 DEF RecordTypes
<1>4. ASSUME NEW t \in Threads, HasSnapshot(t)
      PROVE  /\ Readout(cur_write_ptr, read_ptr) = Records(fetched, snap)
             /\ fetched <= snap
  <2>1. Readout(cur_write_ptr, read_ptr) = Records(fetched, snap)
    BY <1>1, <1>4, SnapshotReadout
  <2>2. snap - fetched = LogSize(Norm(cur_write_ptr), Norm(read_ptr))
    BY <1>1, <1>4 DEF DataInv
  <2> QED
    BY <1>1, <2>1, <2>2 DEF RecordTypes
<1>5. Unread = Records(fetched, stored)
  <2> DEFINE w == Norm(write_ptr)
             r == Norm(read_ptr)
             R == Readout(w, r)
  <2>1. w \in 0..(N - 1) /\ r \in 0..(N - 1) /\ LogSize(w, r) = Occupancy
    BY <1>1, CaptureAssumption DEF RecordTypes, Norm, Occupancy
  <2>2. /\ R \in Seq(Nat) /\ Len(R) = Occupancy
        /\ \A i \in 1..Occupancy : R[i] = slots[Entry(r, i - 1)]
    <3>1. w \in 0..N /\ r \in 0..N /\ slots \in [0..(N - 1) -> Nat]
      BY <1>1, <2>1, CaptureAssumption DEF RecordTypes
    <3> HIDE DEF w, r
    <3> QED
      BY <2>1, <3>1, ReadoutEntries
  <2> HIDE DEF R
  <2>3. ASSUME NEW i \in 1..Occupancy PROVE R[i] = fetched + i
    <3>1. i - 1 \in 0..(Occupancy - 1)
      BY <1>1 DEF RecordTypes
    <3>2. slots[Entry(r, i - 1)] = fetched + (i - 1) + 1
      BY <1>1, <3>1 DEF DataInv
    <3> QED
      BY <1>1, <2>2, <3>2 DEF RecordTypes
  <2> DEFINE s == Records(fetched, stored)
  <2>4. s \in Seq(Nat) /\ Len(s) = Occupancy /\ \A i \in 1..Occupancy : s[i] = fetched + i
    BY <1>1, <1>2, <1>3, RecordsEntries DEF RecordTypes
  <2> HIDE DEF s
  <2>5. CASE Occupancy = 0
    <3>1. s = <<>>
      BY <2>4, <2>5, EmptySeq
    <3> QED
      BY <2>5, <3>1 DEF Unread, s
  <2>6. CASE Occupancy # 0
    <3>1. R = s
      BY <2>2, <2>3, <2>4, SeqEqual
    <3> QED
      BY <2>6, <3>1 DEF Unread, R, s
  <2> QED
    BY <2>5, <2>6
<1> QED
  BY <1>3, <1>4, <1>5

\* While a thread copies, the timer stores behind what is copied: the copy
\* is the same throughout.
THEOREM CopiesUndisturbed == StreamSpec => CopyUndisturbed
<1>1. StreamInv => ViewInv
  BY RecordsView
<1>2. /\ StreamInv /\ ViewInv /\ ViewInv' /\ [StreamNext]_streamVars
      => [\A t \in Threads :
            pc[t] = "copy" /\ pc'[t] = "copy" /\ lost = FALSE
              => Readout(cur_write_ptr, read_ptr)' = Readout(cur_write_ptr, read_ptr)]_streamVars
  <2> SUFFICES ASSUME StreamInv, ViewInv, ViewInv', StreamNext,
                      NEW t \in Threads, pc[t] = "copy", pc'[t] = "copy", lost = FALSE
               PROVE  Readout(cur_write_ptr, read_ptr)' = Readout(cur_write_ptr, read_ptr)
    OBVIOUS
  <2>1. pc \in [Threads -> Locked \union Unlocked] /\ pc[t] \in Locked /\ MutexInv
    BY DEF StreamInv, CaptureInv, TypeOK, Locked
  <2>2. lock # NoThread
    BY <2>1, CaptureAssumption DEF MutexInv
  <2>3. ASSUME NEW u \in Threads PROVE ~ (Snapshot(u) \/ Advance(u) \/ Return(u) \/ StartClear(u))
    <3>1. SUFFICES ASSUME Snapshot(u) \/ Advance(u) \/ Return(u) \/ StartClear(u) PROVE FALSE
      OBVIOUS
    <3>2. pc[u] \in Locked /\ pc[u] # "copy"
      BY <3>1 DEF Snapshot, Advance, Return, ReadSnapshot, StartSnapshot, ReadMove, StartMove,
         ReadClear, StartClear, Locked
    <3> QED
      BY <2>1, <3>2, OneHolder
  <2>4. UNCHANGED <<fetched, snap, lost>>
    <3>1. CASE Store
      BY <3>1 DEF Store, TimerStore
    <3>2. CASE Silent
      <4>1. UNCHANGED <<fetched, snap>>
        BY <3>2 DEF Silent, dataVars
      <4>2. UNCHANGED lost
        BY <2>3, <3>2 DEF Silent, TimerRecord, TimerWrap, TimerTestFull, TimerMarkFull,
           TimerNotify, TimerDec, TimerComplete, ReadStopped, ReadStarted, ReadWake,
           ReadSignalled, ReadRelock, ReadFault, StartEnter, StartArm, OtherCoreStops,
           OtherCoreStarts, ringVars
      <4> QED
        BY <4>1, <4>2
    <3>3. ASSUME NEW u \in Threads, CopyOut(u) \/ StopCapture(u)
          PROVE  UNCHANGED <<fetched, snap, lost>>
      BY <3>3 DEF CopyOut, ReadCopy, StopCapture, Stop, ringVars
    <3> QED
      BY <2>3, <3>1, <3>2, <3>3 DEF StreamNext
  <2>5. HasSnapshot(t) /\ HasSnapshot(t)'
    BY DEF HasSnapshot
  <2> QED
    BY <2>4, <2>5 DEF ViewInv, Records
<1> QED
  BY <1>1, <1>2, StreamInvariant, PTL DEF StreamSpec, CopyUndisturbed

\* The ring is a bounded queue of records: a store appends one where there
\* is room, a read or a START takes some from the front, and nothing else
\* changes what is unread, until a full flag is lost.
THEOREM RingIsBoundedLog == StreamSpec => RefinesBoundedLog
<1>1. StreamInv => ViewInv
  BY RecordsView
<1>2. StreamInit => Log!Init
  BY CaptureAssumption DEF StreamInit, Init, Log!Init, Unread, Occupancy, LogSize, Norm
<1>3. StreamInv /\ ViewInv /\ StreamInv' /\ ViewInv' /\ [StreamNext]_streamVars
      => [Log!Next]_Log!logVars
  <2> SUFFICES ASSUME StreamInv, ViewInv, StreamInv', ViewInv', [StreamNext]_streamVars
               PROVE  [Log!Next]_Log!logVars
    OBVIOUS
  <2>1. /\ RecordTypes /\ lost \in BOOLEAN /\ lost' \in BOOLEAN
        /\ fetched \in Nat /\ fetched' \in Nat /\ stored \in Nat /\ snap \in Nat
    <3>1. RecordTypes
      BY TypesOfRecords DEF StreamInv
    <3>2. lost \in BOOLEAN /\ lost' \in BOOLEAN
      BY DEF StreamInv, CaptureInv, TypeOK
    <3>3. fetched' \in Nat
      BY StreamAssumption DEF StreamInv, StreamTypeOK
    <3> QED
      BY <3>1, <3>2, <3>3 DEF RecordTypes
  <2>2. CASE lost = TRUE
    BY <2>2 DEF Log!Next
  <2>3. CASE lost = FALSE /\ lost' = TRUE
    BY <2>3 DEF Log!Next, Log!Break
  <2>4. CASE lost = FALSE /\ lost' = FALSE
    <3>1. Unread = Records(fetched, stored) /\ fetched <= stored
      BY <2>4 DEF ViewInv
    <3>2. Unread' = Records(fetched', stored')
      BY <2>4 DEF ViewInv, Records
    <3>3. CASE UNCHANGED <<fetched, stored>>
      BY <2>4, <3>1, <3>2, <3>3 DEF Log!logVars
    <3>4. CASE Store
      <4>1. stored' = stored + 1 /\ fetched' = fetched /\ tpc = "store"
        BY <3>4 DEF Store, TimerStore
      <4>2. Len(Unread) = stored - fetched
        BY <2>1, <3>1, RecordsEntries
      <4>3. stored - fetched = Occupancy /\ Occupancy <= N - 2
        BY <2>4, <4>1 DEF StreamInv, DataInv, CaptureInv, RingInv, FullInv
      <4>4. Len(Unread) < N - 1
        BY <2>1, <4>2, <4>3, CaptureAssumption DEF RecordTypes
      <4>5. Unread' = Append(Unread, stored + 1)
        BY <2>1, <3>1, <3>2, <4>1, RecordsAppend
      <4> QED
        BY <2>4, <4>1, <4>4, <4>5 DEF Log!Next, Log!Append1
    <3>5. ASSUME NEW t \in Threads, Advance(t) PROVE [Log!Next]_Log!logVars
      <4>1. fetched' = snap /\ stored' = stored /\ HasSnapshot(t)
        BY <3>5 DEF Advance, ReadMove, StartMove, HasSnapshot
      <4>2. fetched <= snap /\ snap <= stored
        <5>1. fetched <= snap
          BY <2>4, <4>1 DEF ViewInv
        <5>2. fetched' <= stored'
          BY <2>4 DEF ViewInv
        <5> QED
          BY <4>1, <5>1, <5>2
      <4>3. /\ snap - fetched \in 0..Len(Unread)
            /\ SubSeq(Unread, snap - fetched + 1, Len(Unread)) = Unread'
        BY <2>1, <3>1, <3>2, <4>1, <4>2, RecordsSuffix
      <4> QED
        BY <2>4, <4>1, <4>3 DEF Log!Next, Log!Take
    <3>6. CASE Silent \/ UNCHANGED streamVars
      BY <3>3, <3>6 DEF Silent, dataVars, streamVars
    <3>7. ASSUME NEW t \in Threads, Snapshot(t) \/ CopyOut(t) \/ Return(t) \/ StopCapture(t)
          PROVE  [Log!Next]_Log!logVars
      BY <3>3, <3>7 DEF Snapshot, CopyOut, Return, StopCapture
    <3> QED
      BY <3>4, <3>5, <3>6, <3>7 DEF StreamNext
  <2> QED
    BY <2>1, <2>2, <2>3, <2>4
<1> QED
  BY <1>1, <1>2, <1>3, StreamInvariant, PTL DEF StreamSpec, RefinesBoundedLog, Log!Spec
=============================================================================
