------------------------ MODULE DsplogCaptureProofs ------------------------
(***************************************************************************)
(* The safety of one core's ring buffer and of its wake-ups, for every     *)
(* number of threads and every size of the ring.                           *)
(***************************************************************************)
EXTENDS DsplogCapture, TLAPS

----------------------------------------------------------------------------
(* Ring arithmetic.                                                        *)

\* The timer's test for a full ring (dsp_log_add_to_ring_buffer) is exact:
\* it holds just when N - 1 entries are unread, also when read_ptr rests on
\* ringbuf.end after a snapshot taken there.
LEMMA FullTestExact ==
  ASSUME NEW w \in 0..(N - 1), NEW r \in 0..N
  PROVE  AtFull(w, r) <=> LogSize(Norm(w), Norm(r)) = N - 1
  BY CaptureAssumption DEF AtFull, LogSize, Norm

\* Storing a record where two entries are free makes the log one longer.
LEMMA StoreLengthens ==
  ASSUME NEW w \in 0..(N - 1), NEW r \in 0..N,
         LogSize(Norm(w), Norm(r)) <= N - 2
  PROVE  LogSize(Norm(w + 1), Norm(r)) = LogSize(Norm(w), Norm(r)) + 1
  BY CaptureAssumption DEF LogSize, Norm

\* Moving read_ptr to a place between the pointers shortens the log by what
\* is taken out.
LEMMA MoveShortens ==
  ASSUME NEW w \in 0..N, NEW c \in 0..N, NEW r \in 0..N,
         LogSize(Norm(c), Norm(r)) <= LogSize(Norm(w), Norm(r))
  PROVE  LogSize(Norm(w), Norm(c)) = LogSize(Norm(w), Norm(r)) - LogSize(Norm(c), Norm(r))
  BY CaptureAssumption DEF LogSize, Norm

\* A log is never negative, and shorter than the ring.
LEMMA LogSizeRange ==
  ASSUME NEW w \in 0..N, NEW r \in 0..N
  PROVE  LogSize(Norm(w), Norm(r)) \in 0..(N - 1)
  BY CaptureAssumption DEF LogSize, Norm

----------------------------------------------------------------------------
(* Types and the mutex.                                                    *)

LEMMA TypeStep == TypeOK /\ EndInv /\ [Next]_vars => TypeOK' /\ EndInv'
<1> SUFFICES ASSUME TypeOK, EndInv, [Next]_vars PROVE TypeOK' /\ EndInv'
  OBVIOUS
<1> USE CaptureAssumption DEF TypeOK, EndInv, ringVars, wakeVars, modeVars, callVars
<1>1. CASE Timer
  <2> USE DEF TimerPc
  <2>1. CASE TimerRecord
    BY <2>1 DEF TimerRecord
  <2>2. CASE TimerStore
    BY <2>2 DEF TimerStore
  <2>3. CASE TimerWrap
    BY <2>3 DEF TimerWrap
  <2>4. CASE TimerTestFull \/ TimerMarkFull \/ TimerNotify
    BY <2>4 DEF TimerTestFull, TimerMarkFull, TimerNotify
  <2>5. CASE TimerDec \/ TimerComplete
    BY <2>5 DEF TimerDec, TimerComplete
  <2> QED
    BY <1>1, <2>1, <2>2, <2>3, <2>4, <2>5 DEF Timer
<1>2. ASSUME NEW t \in Threads, Read(t) PROVE TypeOK' /\ EndInv'
  <2> USE DEF Locked, Unlocked, GoTo, Acquire, Release
  <2>1. CASE ReadStopped(t) \/ ReadRelock(t)
    BY <2>1 DEF ReadStopped, ReadRelock
  <2>2. CASE ReadStarted(t)
    <3>1. UNCHANGED <<ringVars, modeVars, cur_write_ptr, fill_compl>>
      BY <2>2 DEF ReadStarted
    <3>2. lock' \in Threads \union {NoThread}
      BY <2>2 DEF ReadStarted
    <3>3. pc' \in [Threads -> Locked \union Unlocked]
      BY <2>2 DEF ReadStarted
    <3>4. stranded' \in {"no", "reader", "start"}
      BY <2>2 DEF ReadStarted
    <3>5. num_reader' \in Int
      BY <2>2 DEF ReadStarted
    <3> QED
      BY <3>1, <3>2, <3>3, <3>4, <3>5
  <2>3. CASE ReadWake(t) \/ ReadSignalled(t)
    BY <2>3 DEF ReadWake, ReadSignalled
  <2>4. CASE ReadSnapshot(t) \/ ReadCopy(t) \/ ReadMove(t)
    BY <2>4 DEF ReadSnapshot, ReadCopy, ReadMove, MoveReadPtr
  <2>5. CASE ReadFault(t) \/ ReadClear(t)
    <3>1. /\ lock' = NoThread /\ pc' = [pc EXCEPT ![t] = "idle"]
          /\ cur_write_ptr' = 0
      BY <2>5 DEF ReadFault, ReadClear
    <3>2. /\ UNCHANGED <<write_ptr, read_ptr, tpc, wakeVars, dsplog_state, timer_initialized>>
          /\ full' \in {0, 1} /\ dsplog_read_finish' \in {0, 1} /\ lost' \in BOOLEAN
      BY <2>5 DEF ReadFault, ReadClear, ClearFull
    <3> QED
      BY <3>1, <3>2
  <2> QED
    BY <1>2, <2>1, <2>2, <2>3, <2>4, <2>5 DEF Read
<1>3. ASSUME NEW t \in Threads, Start(t) PROVE TypeOK' /\ EndInv'
  <2> USE DEF Locked, Unlocked, GoTo, Acquire, Release
  <2>1. CASE StartEnter(t) \/ StartSnapshot(t)
    BY <2>1 DEF StartEnter, StartSnapshot
  <2>2. CASE StartMove(t) \/ StartClear(t)
    BY <2>2 DEF StartMove, StartClear, MoveReadPtr, ClearFull
  <2>3. CASE StartArm(t)
    <3>1. /\ lock' = NoThread /\ pc' = [pc EXCEPT ![t] = "idle"]
          /\ cur_write_ptr' = 0
      BY <2>3 DEF StartArm
    <3>2. /\ UNCHANGED <<ringVars, fill_compl>>
          /\ num_reader' = 0 /\ stranded' \in {"no", "reader", "start"}
          /\ dsplog_state' = 1 /\ dsplog_read_finish' = 0 /\ timer_initialized' \in {0, 1}
      BY <2>3 DEF StartArm, StrandedByStart
    <3> QED
      BY <3>1, <3>2
  <2> QED
    BY <1>3, <2>1, <2>2, <2>3 DEF Start
<1>4. ASSUME NEW t \in Threads, Stop(t) PROVE TypeOK' /\ EndInv'
  BY <1>4 DEF Stop
<1>5. CASE OtherCoreStops \/ OtherCoreStarts
  BY <1>5 DEF OtherCoreStops, OtherCoreStarts
<1>6. CASE UNCHANGED vars
  BY <1>6 DEF vars
<1> QED
  BY <1>1, <1>2, <1>3, <1>4, <1>5, <1>6 DEF Next

LEMMA MutexStep == TypeOK /\ MutexInv /\ [Next]_vars => MutexInv'
<1> SUFFICES ASSUME TypeOK, MutexInv, [Next]_vars, NEW u \in Threads
             PROVE  (lock = u <=> pc[u] \in Locked)'
  BY DEF MutexInv
<1> USE CaptureAssumption DEF MutexInv, TypeOK, Locked, Unlocked, callVars
<1>1. CASE Timer
  BY <1>1 DEF Timer, TimerRecord, TimerStore, TimerWrap, TimerTestFull, TimerMarkFull,
     TimerNotify, TimerDec, TimerComplete
<1>2. ASSUME NEW t \in Threads, Read(t) PROVE (lock = u <=> pc[u] \in Locked)'
  <2> USE DEF GoTo
  <2>1. CASE ReadStopped(t) \/ ReadRelock(t)
    BY <2>1 DEF ReadStopped, ReadRelock, Acquire
  <2>2. CASE ReadStarted(t)
    BY <2>2 DEF ReadStarted
  <2>3. CASE ReadWake(t) \/ ReadSignalled(t)
    BY <2>3 DEF ReadWake, ReadSignalled
  <2>4. CASE ReadSnapshot(t) \/ ReadCopy(t) \/ ReadMove(t)
    BY <2>4 DEF ReadSnapshot, ReadCopy, ReadMove
  <2>5. CASE ReadFault(t) \/ ReadClear(t)
    BY <2>5 DEF ReadFault, ReadClear, Release
  <2> QED
    BY <1>2, <2>1, <2>2, <2>3, <2>4, <2>5 DEF Read
<1>3. ASSUME NEW t \in Threads, Start(t) PROVE (lock = u <=> pc[u] \in Locked)'
  BY <1>3 DEF Start, StartEnter, StartSnapshot, StartMove, StartClear, StartArm, GoTo,
     Acquire, Release
<1>4. ASSUME NEW t \in Threads, Stop(t) PROVE (lock = u <=> pc[u] \in Locked)'
  BY <1>4 DEF Stop
<1>5. CASE OtherCoreStops \/ OtherCoreStarts
  BY <1>5 DEF OtherCoreStops, OtherCoreStarts
<1>6. CASE UNCHANGED vars
  BY <1>6 DEF vars
<1> QED
  BY <1>1, <1>2, <1>3, <1>4, <1>5, <1>6 DEF Next

----------------------------------------------------------------------------
(* Wake-ups.                                                               *)

\* Steps that neither touch the count and the completion nor start or end
\* a wait, and take the timer neither to its decrement nor away from its
\* complete().
LEMMA WakeFrame ==
  ASSUME WakeInv, UNCHANGED wakeVars, Waiting' = Waiting,
         tpc' = "dec" => tpc = "dec", tpc = "complete" => tpc' = "complete"
  PROVE  WakeInv'
  BY DEF WakeInv, wakeVars

LEMMA WakeStep == TypeOK /\ WakeInv /\ [Next]_vars => WakeInv'
<1> SUFFICES ASSUME TypeOK, WakeInv, [Next]_vars PROVE WakeInv'
  OBVIOUS
<1> USE DEF wakeVars, callVars, TypeOK
<1>1. CASE Timer
  <2>1. Waiting' = Waiting
    BY <1>1 DEF Timer, TimerRecord, TimerStore, TimerWrap, TimerTestFull, TimerMarkFull,
       TimerNotify, TimerDec, TimerComplete, Waiting
  <2>2. CASE TimerRecord \/ TimerStore \/ TimerWrap \/ TimerTestFull \/ TimerMarkFull
    BY <2>1, <2>2, WakeFrame DEF TimerRecord, TimerStore, TimerWrap, TimerTestFull, TimerMarkFull
  <2>3. CASE TimerNotify
    BY <2>1, <2>3 DEF TimerNotify, NotifyDue, WakeInv
  <2>4. CASE TimerDec
    BY <2>1, <2>4 DEF TimerDec, WakeInv
  <2>5. CASE TimerComplete
    BY <2>1, <2>5 DEF TimerComplete, WakeInv
  <2> QED
    BY <1>1, <2>2, <2>3, <2>4, <2>5 DEF Timer
<1>2. ASSUME NEW t \in Threads, Read(t) PROVE WakeInv'
  <2>1. CASE ReadStarted(t)
    <3>1. CASE num_reader' = 0
      <4>1. Waiting' = Waiting /\ UNCHANGED <<tpc, stranded, fill_compl>>
        BY <2>1, <3>1 DEF ReadStarted, GoTo, Waiting, ringVars
      <4> QED
        BY <2>1, <3>1, <4>1 DEF ReadStarted, WakeInv
    <3>2. CASE num_reader' # 0
      <4>1. Waiting' = Waiting \union {t} /\ UNCHANGED <<tpc, fill_compl>>
        BY <2>1, <3>2 DEF ReadStarted, GoTo, Waiting, ringVars
      <4>2. stranded' = "no" => Waiting = {} /\ stranded = "no"
        BY <2>1, <3>2 DEF ReadStarted
      <4> QED
        BY <2>1, <3>2, <4>1, <4>2 DEF ReadStarted, WakeInv
    <3> QED
      BY <3>1, <3>2
  <2>2. CASE ReadWake(t)
    <3>1. Waiting' = Waiting \ {t} /\ t \in Waiting
      BY <2>2 DEF ReadWake, GoTo, Waiting
    <3> QED
      BY <2>2, <3>1 DEF ReadWake, LastWaiter, WakeInv, ringVars
  <2>3. CASE ReadSignalled(t)
    <3>1. Waiting' = Waiting \ {t} /\ t \in Waiting
      BY <2>3 DEF ReadSignalled, GoTo, Waiting
    <3> QED
      BY <2>3, <3>1 DEF ReadSignalled, LastWaiter, WakeInv, ringVars
  <2>4. CASE ReadStopped(t) \/ ReadRelock(t) \/ ReadSnapshot(t) \/ ReadCopy(t)
             \/ ReadFault(t) \/ ReadMove(t) \/ ReadClear(t)
    <3>1. Waiting' = Waiting /\ UNCHANGED <<wakeVars, tpc>>
      BY <2>4 DEF ReadStopped, ReadRelock, ReadSnapshot, ReadCopy, ReadFault, ReadMove,
         ReadClear, GoTo, Waiting, ringVars
    <3> QED
      BY <3>1, WakeFrame
  <2> QED
    BY <1>2, <2>1, <2>2, <2>3, <2>4 DEF Read
<1>3. ASSUME NEW t \in Threads, Start(t) PROVE WakeInv'
  <2>1. Waiting' = Waiting /\ UNCHANGED tpc
    BY <1>3 DEF Start, StartEnter, StartSnapshot, StartMove, StartClear, StartArm, GoTo,
       Waiting, ringVars
  <2>2. CASE StartArm(t)
    BY <2>1, <2>2 DEF StartArm, StrandedByStart, WakeInv
  <2>3. CASE StartEnter(t) \/ StartSnapshot(t) \/ StartMove(t) \/ StartClear(t)
    BY <2>1, <2>3, WakeFrame DEF StartEnter, StartSnapshot, StartMove, StartClear
  <2> QED
    BY <1>3, <2>2, <2>3 DEF Start
<1>4. ASSUME NEW t \in Threads, Stop(t) PROVE WakeInv'
  <2>1. Waiting' = Waiting /\ UNCHANGED tpc
    BY <1>4 DEF Stop, Waiting, ringVars, callVars
  <2> QED
    BY <1>4, <2>1 DEF Stop, TimerQuiet, WakeInv
<1>5. CASE OtherCoreStops \/ OtherCoreStarts \/ UNCHANGED vars
  <2>1. Waiting' = Waiting /\ UNCHANGED <<wakeVars, tpc>>
    BY <1>5 DEF OtherCoreStops, OtherCoreStarts, Waiting, ringVars, vars
  <2> QED
    BY <2>1, WakeFrame
<1> QED
  BY <1>1, <1>2, <1>3, <1>4, <1>5 DEF Next

----------------------------------------------------------------------------
(* The ring.                                                               *)

\* Steps that leave the ring alone and take no snapshot.
LEMMA RingFrame ==
  ASSUME RingInv, UNCHANGED <<ringVars, cur_write_ptr>>,
         \A t \in Threads : HasSnapshot(t)' => HasSnapshot(t)
  PROVE  RingInv'
<1>1. SnapshotInv => SnapshotInv'
  BY DEF SnapshotInv, Occupancy, ringVars
<1>2. FullInv => FullInv'
  BY DEF FullInv, Occupancy, ringVars
<1> QED
  BY <1>1, <1>2 DEF RingInv, ringVars

LEMMA TimerRing ==
  ASSUME TypeOK, EndInv, RingInv, Timer
  PROVE  RingInv'
<1> SUFFICES ASSUME lost' = FALSE PROVE SnapshotInv' /\ FullInv'
  BY DEF RingInv
<1>1. UNCHANGED <<read_ptr, lost, callVars>>
  BY DEF Timer, TimerRecord, TimerStore, TimerWrap, TimerTestFull, TimerMarkFull,
     TimerNotify, TimerDec, TimerComplete
<1>2. lost = FALSE /\ SnapshotInv /\ FullInv
  BY <1>1 DEF RingInv
<1>3. \A t \in Threads : HasSnapshot(t)' <=> HasSnapshot(t)
  BY <1>1 DEF HasSnapshot, callVars
<1>4. /\ write_ptr \in 0..N /\ read_ptr \in 0..N /\ cur_write_ptr \in 0..N
      /\ Occupancy \in 0..(N - 1)
  BY LogSizeRange DEF TypeOK, Occupancy
<1>5. ASSUME UNCHANGED write_ptr PROVE SnapshotInv' /\ Occupancy' = Occupancy
  BY <1>1, <1>2, <1>3, <1>5 DEF SnapshotInv, Occupancy, callVars
<1>6. CASE TimerRecord
  BY <1>2, <1>4, <1>5, <1>6, CaptureAssumption DEF TimerRecord, FullInv, TypeOK
<1>7. CASE TimerStore
  <2>1. write_ptr \in 0..(N - 1) /\ Occupancy <= N - 2
    BY <1>2, <1>4, <1>7, CaptureAssumption DEF TimerStore, FullInv, EndInv
  <2>2. write_ptr' = write_ptr + 1 /\ tpc' = "wrap"
    BY <1>7 DEF TimerStore
  <2>3. Occupancy' = Occupancy + 1
    BY <1>1, <1>4, <2>1, <2>2, StoreLengthens DEF Occupancy
  <2>4. write_ptr' = N => read_ptr' # 0
    BY <1>1, <1>4, <2>1, <2>2, CaptureAssumption DEF Occupancy, LogSize, Norm
  <2>5. ASSUME NEW t \in Threads, HasSnapshot(t)
        PROVE  /\ LogSize(Norm(cur_write_ptr), Norm(read_ptr)) <= Occupancy
               /\ write_ptr' = N => cur_write_ptr # 0
               /\ cur_write_ptr = N => read_ptr # 0
    <3>1. /\ LogSize(Norm(cur_write_ptr), Norm(read_ptr)) <= Occupancy
          /\ cur_write_ptr = N => read_ptr # 0
      BY <1>2, <2>5 DEF SnapshotInv
    <3>2. write_ptr' = N => cur_write_ptr # 0
      BY <1>4, <2>1, <2>2, <3>1, CaptureAssumption DEF Occupancy, LogSize, Norm
    <3> QED
      BY <3>1, <3>2
  <2>6. \A t \in Threads : HasSnapshot(t) =>
          LogSize(Norm(cur_write_ptr), Norm(read_ptr)) <= Occupancy'
    <3>1. LogSize(Norm(cur_write_ptr), Norm(read_ptr)) \in Int
      BY <1>4, LogSizeRange
    <3> QED
      BY <1>4, <2>3, <2>5, <3>1, CaptureAssumption
  <2>7. SnapshotInv'
    BY <1>1, <1>3, <2>4, <2>5, <2>6 DEF SnapshotInv, callVars
  <2> QED
    BY <2>2, <2>7 DEF FullInv
<1>8. CASE TimerWrap
  <2>1. Norm(write_ptr') = Norm(write_ptr) /\ write_ptr' # N /\ tpc' = "test"
    BY <1>4, <1>8, CaptureAssumption DEF TimerWrap, Norm
  <2>2. Occupancy' = Occupancy
    BY <1>1, <2>1 DEF Occupancy
  <2> QED
    BY <1>1, <1>2, <1>3, <2>1, <2>2 DEF SnapshotInv, FullInv, callVars
<1>9. CASE TimerTestFull
  <2>1. AtFull(write_ptr, read_ptr) <=> Occupancy = N - 1
    <3>1. write_ptr \in 0..(N - 1)
      BY <1>4, <1>9, CaptureAssumption DEF TimerTestFull, EndInv
    <3> QED
      BY <1>4, <3>1, FullTestExact DEF Occupancy
  <2> QED
    BY <1>2, <1>5, <1>9, <2>1 DEF TimerTestFull, FullInv
<1>10. CASE TimerMarkFull
  BY <1>5, <1>10 DEF TimerMarkFull, FullInv
<1>11. CASE TimerNotify \/ TimerDec \/ TimerComplete
  BY <1>2, <1>5, <1>11 DEF TimerNotify, TimerDec, TimerComplete, FullInv
<1> QED
  BY <1>6, <1>7, <1>8, <1>9, <1>10, <1>11 DEF Timer

\* The pointer moves of dsplog_read and dsplog_start_cap, by the thread
\* that holds the mutex, hence over its own snapshot.
LEMMA MoveRing ==
  ASSUME TypeOK, MutexInv, RingInv, NEW t \in Threads, pc[t] \in {"move", "start_move"},
         read_ptr' = cur_write_ptr, UNCHANGED <<write_ptr, full, tpc, lost, cur_write_ptr>>,
         pc' = [pc EXCEPT ![t] = "clear"] \/ pc' = [pc EXCEPT ![t] = "start_clear"]
  PROVE  RingInv'
<1> SUFFICES ASSUME lost = FALSE PROVE SnapshotInv' /\ FullInv'
  BY DEF RingInv
<1>1. \A u \in Threads : ~ HasSnapshot(u)'
  BY DEF HasSnapshot, MutexInv, TypeOK, Locked
<1>2. /\ write_ptr \in 0..N /\ read_ptr \in 0..N /\ cur_write_ptr \in 0..N
  BY DEF TypeOK
<1>3. /\ SnapshotInv /\ FullInv
      /\ LogSize(Norm(cur_write_ptr), Norm(read_ptr)) <= Occupancy
      /\ write_ptr = N => cur_write_ptr # 0
  BY DEF RingInv, SnapshotInv, HasSnapshot
<1>4. /\ Occupancy \in 0..(N - 1)
      /\ LogSize(Norm(cur_write_ptr), Norm(read_ptr)) \in 0..(N - 1)
  BY <1>2, LogSizeRange DEF Occupancy
<1>5. Occupancy' = Occupancy - LogSize(Norm(cur_write_ptr), Norm(read_ptr))
  BY <1>2, <1>3, MoveShortens DEF Occupancy
<1>6. Occupancy' <= Occupancy /\ Occupancy' \in 0..(N - 1)
  BY <1>3, <1>4, <1>5, CaptureAssumption
<1>7. SnapshotInv'
  BY <1>1, <1>3 DEF SnapshotInv
<1>8. FullInv'
  BY <1>3, <1>4, <1>6, CaptureAssumption DEF FullInv
<1> QED
  BY <1>7, <1>8

\* Clearing full keeps the invariant unless it loses the flag.
LEMMA ClearRing ==
  ASSUME TypeOK, RingInv, ClearFull, UNCHANGED <<write_ptr, read_ptr, tpc>>,
         \A u \in Threads : HasSnapshot(u)' => HasSnapshot(u) /\ cur_write_ptr' = cur_write_ptr
  PROVE  RingInv'
<1> SUFFICES ASSUME lost' = FALSE PROVE SnapshotInv' /\ FullInv'
  BY DEF RingInv
<1>1. lost = FALSE /\ (Occupancy = N - 1 => tpc \in {"wrap", "test", "mark"})
  BY DEF ClearFull, TypeOK
<1>2. SnapshotInv /\ FullInv /\ Occupancy' = Occupancy
  BY <1>1 DEF RingInv, Occupancy
<1> QED
  BY <1>1, <1>2 DEF SnapshotInv, FullInv

\* A snapshot of write_ptr lies between the pointers when it is taken.
LEMMA SnapshotRing ==
  ASSUME TypeOK, RingInv, cur_write_ptr' = write_ptr, UNCHANGED ringVars
  PROVE  RingInv'
<1> SUFFICES ASSUME lost = FALSE PROVE SnapshotInv' /\ FullInv'
  BY DEF RingInv, ringVars
<1>1. SnapshotInv /\ FullInv /\ Occupancy' = Occupancy
  BY DEF RingInv, Occupancy, ringVars
<1>2. LogSize(Norm(write_ptr), Norm(read_ptr)) \in Int
  BY LogSizeRange DEF TypeOK
<1>3. SnapshotInv'
  BY <1>1, <1>2, CaptureAssumption DEF SnapshotInv, Occupancy, ringVars
<1>4. FullInv'
  BY <1>1 DEF FullInv, ringVars
<1> QED
  BY <1>3, <1>4

LEMMA RingStep == TypeOK /\ EndInv /\ MutexInv /\ RingInv /\ [Next]_vars => RingInv'
<1> SUFFICES ASSUME TypeOK, EndInv, MutexInv, RingInv, [Next]_vars PROVE RingInv'
  OBVIOUS
<1> DEFINE NoNewSnapshot == \A u \in Threads : HasSnapshot(u)' => HasSnapshot(u)
<1>1. ASSUME NEW t \in Threads, Read(t) PROVE RingInv'
  <2>1. CASE ReadSnapshot(t)
    BY <2>1, SnapshotRing DEF ReadSnapshot
  <2>2. CASE ReadMove(t)
    BY <2>2, MoveRing DEF ReadMove, MoveReadPtr, GoTo
  <2>3. CASE ReadClear(t)
    <3>1. \A u \in Threads : ~ HasSnapshot(u)'
      BY <2>3 DEF ReadClear, GoTo, HasSnapshot, MutexInv, TypeOK, Locked
    <3> QED
      BY <2>3, <3>1, ClearRing DEF ReadClear
  <2>4. CASE ReadFault(t)
    <3>1. \A u \in Threads : ~ HasSnapshot(u)'
      BY <2>4 DEF ReadFault, GoTo, HasSnapshot, MutexInv, TypeOK, Locked
    <3>2. UNCHANGED ringVars
      BY <2>4 DEF ReadFault
    <3>3. SnapshotInv => SnapshotInv'
      BY <3>1, <3>2 DEF SnapshotInv, ringVars
    <3>4. FullInv => FullInv'
      BY <3>2 DEF FullInv, Occupancy, ringVars
    <3> QED
      BY <3>2, <3>3, <3>4 DEF RingInv, ringVars
  <2>5. CASE ReadStopped(t) \/ ReadWake(t) \/ ReadSignalled(t) \/ ReadRelock(t) \/ ReadCopy(t)
    <3>1. NoNewSnapshot /\ UNCHANGED <<ringVars, cur_write_ptr>>
      BY <2>5 DEF ReadStopped, ReadWake, ReadSignalled, ReadRelock, ReadCopy, GoTo,
         HasSnapshot, TypeOK
    <3> QED
      BY <3>1, RingFrame
  <2>6. CASE ReadStarted(t)
    <3>1. UNCHANGED <<ringVars, cur_write_ptr>>
      BY <2>6 DEF ReadStarted
    <3>2. pc' = [pc EXCEPT ![t] = "snap"] \/ pc' = [pc EXCEPT ![t] = "wait"]
      BY <2>6 DEF ReadStarted, GoTo
    <3>3. NoNewSnapshot
      BY <3>2 DEF HasSnapshot, TypeOK
    <3> QED
      BY <3>1, <3>3, RingFrame
  <2> QED
    BY <1>1, <2>1, <2>2, <2>3, <2>4, <2>5, <2>6 DEF Read
<1>2. ASSUME NEW t \in Threads, Start(t) PROVE RingInv'
  <2>1. CASE StartEnter(t)
    <3>1. NoNewSnapshot /\ UNCHANGED <<ringVars, cur_write_ptr>>
      BY <2>1 DEF StartEnter, GoTo, HasSnapshot, TypeOK
    <3> QED
      BY <3>1, RingFrame
  <2>2. CASE StartSnapshot(t)
    BY <2>2, SnapshotRing DEF StartSnapshot
  <2>3. CASE StartMove(t)
    BY <2>3, MoveRing DEF StartMove, MoveReadPtr, GoTo
  <2>4. CASE StartClear(t)
    <3>1. NoNewSnapshot /\ UNCHANGED <<write_ptr, read_ptr, tpc, cur_write_ptr>> /\ ClearFull
      BY <2>4 DEF StartClear, GoTo, HasSnapshot, TypeOK
    <3> QED
      BY <3>1, ClearRing
  <2>5. CASE StartArm(t)
    <3>1. \A u \in Threads : ~ HasSnapshot(u)'
      BY <2>5 DEF StartArm, GoTo, HasSnapshot, MutexInv, TypeOK, Locked
    <3>2. UNCHANGED ringVars
      BY <2>5 DEF StartArm
    <3>3. SnapshotInv => SnapshotInv'
      BY <3>1, <3>2 DEF SnapshotInv, ringVars
    <3>4. FullInv => FullInv'
      BY <3>2 DEF FullInv, Occupancy, ringVars
    <3> QED
      BY <3>2, <3>3, <3>4 DEF RingInv, ringVars
  <2> QED
    BY <1>2, <2>1, <2>2, <2>3, <2>4, <2>5 DEF Start
<1>3. ASSUME NEW t \in Threads, Stop(t) PROVE RingInv'
  BY <1>3, RingFrame DEF Stop, callVars, HasSnapshot
<1>4. CASE OtherCoreStops \/ OtherCoreStarts \/ UNCHANGED vars
  BY <1>4, RingFrame DEF OtherCoreStops, OtherCoreStarts, vars, callVars, HasSnapshot
<1> QED
  BY <1>1, <1>2, <1>3, <1>4, TimerRing DEF Next

LEMMA CaptureInit ==
  ASSUME Init
  PROVE  CaptureInv
<1> USE CaptureAssumption DEF Init
<1>1. TypeOK /\ EndInv
  <2>1. lost \in BOOLEAN /\ stranded \in {"no", "reader", "start"}
    OBVIOUS
  <2>2. tpc \in TimerPc /\ pc \in [Threads -> Locked \union Unlocked]
    BY DEF TimerPc, Unlocked
  <2>3. /\ write_ptr \in 0..N /\ read_ptr \in 0..N /\ cur_write_ptr \in 0..N
        /\ num_reader \in Int /\ fill_compl \in Nat
    OBVIOUS
  <2>4. EndInv
    BY DEF EndInv
  <2> QED
    BY <2>1, <2>2, <2>3, <2>4 DEF TypeOK
<1>2. MutexInv
  BY DEF MutexInv, Locked
<1>3. RingInv
  BY DEF RingInv, SnapshotInv, FullInv, HasSnapshot, Occupancy, LogSize, Norm
<1>4. WakeInv
  BY DEF WakeInv, Waiting
<1> QED
  BY <1>1, <1>2, <1>3, <1>4 DEF CaptureInv

\* The parts rest on one another: the ring needs the mutex, and the types
\* need the pointer's end.
LEMMA CaptureStep == CaptureInv /\ [Next]_vars => CaptureInv'
  BY TypeStep, MutexStep, RingStep, WakeStep DEF CaptureInv

----------------------------------------------------------------------------
(* The theorems.                                                           *)

\* The inductive invariant holds.
THEOREM CaptureInvariant == Spec => []CaptureInv
<1>1. Init => CaptureInv
  BY CaptureInit
<1> QED
  BY <1>1, CaptureStep, PTL DEF Spec

\* The types of the state, for any ring and any number of threads.
THEOREM TypeCorrect == Spec => []TypeOK
<1>1. CaptureInv => TypeOK
  BY DEF CaptureInv
<1> QED
  BY <1>1, CaptureInvariant, PTL

\* The timer never stores a record without room for it, unless a full flag
\* was cleared while the ring was full.
THEOREM NeverOverruns == Spec => []StoreHasRoom
<1>1. CaptureInv => StoreHasRoom
  BY DEF CaptureInv, RingInv, FullInv, StoreHasRoom
<1> QED
  BY <1>1, CaptureInvariant, PTL

\* What read() copies is unread and less than the ring.
THEOREM ReadsWithinLog == Spec => []ReadWithinLog
<1>1. CaptureInv => ReadWithinLog
  <2> SUFFICES ASSUME CaptureInv, NEW t \in Threads, lost = FALSE, pc[t] \in {"copy", "move"}
               PROVE  /\ LogSize(cur_write_ptr, read_ptr) <= Occupancy
                      /\ LogSize(cur_write_ptr, read_ptr) < N
    BY DEF ReadWithinLog
  <2>1. /\ LogSize(Norm(cur_write_ptr), Norm(read_ptr)) <= Occupancy
        /\ cur_write_ptr = N => read_ptr # 0
    BY DEF CaptureInv, RingInv, SnapshotInv, HasSnapshot
  <2>2. /\ write_ptr \in 0..N /\ read_ptr \in 0..N /\ cur_write_ptr \in 0..N
    BY DEF CaptureInv, TypeOK
  <2>3. LogSize(cur_write_ptr, read_ptr) = LogSize(Norm(cur_write_ptr), Norm(read_ptr))
    BY <2>1, <2>2, CaptureAssumption DEF LogSize, Norm
  <2>4. LogSize(Norm(cur_write_ptr), Norm(read_ptr)) \in 0..(N - 1)
    BY <2>2, LogSizeRange
  <2> QED
    BY <2>1, <2>3, <2>4, CaptureAssumption
<1> QED
  BY <1>1, CaptureInvariant, PTL

\* Whoever waits in read() has a wake-up coming, unless a second waiter or
\* a START took it away.
THEOREM NoLostWakeup == Spec => []WakeupDue
<1>1. CaptureInv => WakeupDue
  BY DEF CaptureInv, WakeInv, WakeupDue
<1> QED
  BY <1>1, CaptureInvariant, PTL
=============================================================================
