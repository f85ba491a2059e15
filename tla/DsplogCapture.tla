--------------------------- MODULE DsplogCapture ---------------------------
(***************************************************************************)
(* One DSP core's capture instance (struct dsp_log_timer_cap_info): the    *)
(* ring buffer between the kernel timer, which stores records, and the     *)
(* user threads, which take them out with read(), and the START and STOP   *)
(* ioctls.  The timer runs in softirq context and takes no lock; threads   *)
(* hold amba_dsplog_mutex except while they wait for fill_compl.  A step   *)
(* is therefore one access to the state the two sides share.               *)
(*                                                                         *)
(* Positions count entries of DSPLOG_ENTRY_SIZE bytes: 0 is ringbuf.start  *)
(* and N is ringbuf.end.  Which record is where is left to DsplogStream.   *)
(***************************************************************************)
EXTENDS Integers

CONSTANTS
  Threads,     \* user threads that use this core's instance
  NoThread,    \* amba_dsplog_mutex is free
  N,           \* DSP_PRINTK_BUF_SIZE / DSPLOG_ENTRY_SIZE
  Threshold,   \* DSP_PRINTK_BUF_DUMP_THRESHOLD_SIZE / DSPLOG_ENTRY_SIZE
  MaxPending   \* bound: reader counts and completions outstanding

ASSUME CaptureAssumption ==
  /\ NoThread \notin Threads
  /\ N \in Nat /\ N >= 2
  /\ Threshold \in Nat
  /\ MaxPending \in Nat

VARIABLES
  write_ptr,           \* ringbuf.write_ptr
  read_ptr,            \* ringbuf.read_ptr
  full,                \* ringbuf.full
  num_reader,          \* ringbuf.num_reader
  fill_compl,          \* the count inside the completion ringbuf.fill_compl
  dsplog_state,        \* 1: started
  dsplog_read_finish,  \* 1: stopped and flushed
  timer_initialized,   \* G_timer_control.timer_initialized
  tpc,                 \* where the timer is in dsp_log_add_to_ring_buffer
  lock,                \* the thread holding amba_dsplog_mutex
  pc,                  \* where each thread is in its system call
  cur_write_ptr,       \* the lock holder's snapshot of write_ptr
  lost,                \* history: full was cleared while the ring was full
  stranded             \* history: "reader" or "start", whichever has left a wait
                       \* without a wake-up of its own; "no" once that is over

ringVars == <<write_ptr, read_ptr, full, tpc, lost>>
wakeVars == <<num_reader, fill_compl, stranded>>
modeVars == <<dsplog_state, dsplog_read_finish, timer_initialized>>
callVars == <<lock, pc, cur_write_ptr>>
vars == <<ringVars, wakeVars, modeVars, callVars>>

TimerPc == {"idle", "store", "wrap", "test", "mark", "notify", "dec", "complete"}
\* pc values of a thread that holds the mutex ...
Locked == {"snap", "copy", "move", "clear", "start_snap", "start_move", "start_clear",
           "start_arm"}
\* ... and of one that does not.
Unlocked == {"idle", "wait", "woken"}

----------------------------------------------------------------------------
(* Ring arithmetic.                                                        *)

\* cur_log_size as the code computes it from two pointers.
LogSize(w, r) == IF w - r < 0 THEN w - r + N ELSE w - r

\* Faulty: the place before ringbuf.end is forgotten, or a free entry is not
\* kept.
AtFullWithoutWrap(w, r) == w + 1 = r
AtFullTooLate(w, r) == w = r

\* The test by which the timer finds the ring full.
AtFull(w, r) == (w = N - 1 /\ r = 0) \/ w + 1 = r

\* Number of unread entries; end and start are one place.
Norm(p) == IF p = N THEN 0 ELSE p
Occupancy == LogSize(Norm(write_ptr), Norm(read_ptr))

Waiting == {t \in Threads : pc[t] = "wait"}

----------------------------------------------------------------------------
(* The timer: dsp_log_add_to_ring_buffer for one record.                   *)

\* A record is taken from the DSP; it is discarded when the ring is full.
\* The bound on num_reader silences the DSP once the count has run away.
TimerRecord ==
  /\ timer_initialized = 1 /\ tpc = "idle"
  /\ num_reader > -MaxPending
  /\ tpc' = IF full = 0 THEN "store" ELSE "notify"
  /\ UNCHANGED <<write_ptr, read_ptr, full, lost, wakeVars, modeVars, callVars>>

\* memcpy, then the pointer moves; it may rest on ringbuf.end for a moment.
TimerStore ==
  /\ tpc = "store" /\ tpc' = "wrap"
  /\ write_ptr' = write_ptr + 1
  /\ UNCHANGED <<read_ptr, full, lost, wakeVars, modeVars, callVars>>

\* Faulty: the pointer is wrapped one entry too late.
TimerWrapLate ==
  /\ tpc = "wrap" /\ tpc' = "test"
  /\ write_ptr' = IF write_ptr > N THEN 0 ELSE write_ptr
  /\ UNCHANGED <<read_ptr, full, lost, wakeVars, modeVars, callVars>>

TimerWrap ==
  /\ tpc = "wrap" /\ tpc' = "test"
  /\ write_ptr' = IF write_ptr >= N THEN 0 ELSE write_ptr
  /\ UNCHANGED <<read_ptr, full, lost, wakeVars, modeVars, callVars>>

TimerTestFull ==
  /\ tpc = "test"
  /\ tpc' = IF AtFull(write_ptr, read_ptr) THEN "mark" ELSE "notify"
  /\ UNCHANGED <<write_ptr, read_ptr, full, lost, wakeVars, modeVars, callVars>>

TimerMarkFull ==
  /\ tpc = "mark" /\ tpc' = "notify"
  /\ full' = 1
  /\ UNCHANGED <<write_ptr, read_ptr, lost, wakeVars, modeVars, callVars>>

\* Faulty: a full ring is no reason of its own to wake a reader.
NotifyDueUnlessFull == num_reader # 0 /\ LogSize(write_ptr, read_ptr) > Threshold

\* A reader is counted and there is enough for it to be woken.
NotifyDue ==
  /\ num_reader # 0
  /\ full = 1 \/ LogSize(write_ptr, read_ptr) > Threshold

TimerNotify ==
  /\ tpc = "notify"
  /\ tpc' = IF NotifyDue THEN "dec" ELSE "idle"
  /\ UNCHANGED <<write_ptr, read_ptr, full, lost, wakeVars, modeVars, callVars>>

\* Faulty: the test of the decremented count is inverted.
TimerDecInverted ==
  /\ tpc = "dec"
  /\ num_reader' = num_reader - 1
  /\ tpc' = IF num_reader' # 0 THEN "complete" ELSE "idle"
  /\ UNCHANGED <<write_ptr, read_ptr, full, lost, fill_compl, stranded, modeVars, callVars>>

\* atomic_dec_and_test: only the step to zero completes.
TimerDec ==
  /\ tpc = "dec"
  /\ num_reader' = num_reader - 1
  /\ tpc' = IF num_reader' = 0 THEN "complete" ELSE "idle"
  /\ UNCHANGED <<write_ptr, read_ptr, full, lost, fill_compl, stranded, modeVars, callVars>>

TimerComplete ==
  /\ tpc = "complete" /\ tpc' = "idle"
  /\ fill_compl' = fill_compl + 1
  /\ UNCHANGED <<write_ptr, read_ptr, full, lost, num_reader, stranded, modeVars, callVars>>

Timer ==
  \/ TimerRecord \/ TimerStore \/ TimerWrap \/ TimerTestFull
  \/ TimerMarkFull \/ TimerNotify \/ TimerDec \/ TimerComplete

----------------------------------------------------------------------------
(* read(): dsplog_read under amba_dsplog_mutex.  A read refused with       *)
(* -EINVAL and one made after the last flush (dsplog_read_finish = 1)      *)
(* return at once and change nothing, and are not actions.                 *)

GoTo(t, place) == pc' = [pc EXCEPT ![t] = place]

Acquire(t) == lock = NoThread /\ lock' = t

\* The call returns: its local goes out of scope.
Release(t) ==
  /\ lock = t /\ lock' = NoThread
  /\ cur_write_ptr' = 0

\* The capture is stopped: no wait.
ReadStopped(t) ==
  /\ pc[t] = "idle" /\ GoTo(t, "snap")
  /\ Acquire(t)
  /\ dsplog_read_finish = 0 /\ dsplog_state = 0
  /\ UNCHANGED <<cur_write_ptr, ringVars, wakeVars, modeVars>>

\* The capture is started: count the reader, and wait unless the count,
\* once raised, is zero.  A second waiter is one that a single completion
\* leaves behind.
ReadStarted(t) ==
  /\ pc[t] = "idle" /\ lock = NoThread
  /\ dsplog_read_finish = 0 /\ dsplog_state = 1
  /\ num_reader + fill_compl < MaxPending
  /\ num_reader' = num_reader + 1
  /\ IF num_reader' = 0
       THEN /\ GoTo(t, "snap") /\ lock' = t
            /\ UNCHANGED stranded
       ELSE /\ GoTo(t, "wait") /\ UNCHANGED lock
            /\ stranded' = IF Waiting # {} THEN "reader" ELSE stranded
  /\ UNCHANGED <<cur_write_ptr, fill_compl, ringVars, modeVars>>

\* With the thread's wait, nothing is left of what was done to it.
LastWaiter(t) == Waiting = {t} /\ num_reader = 0 /\ tpc # "dec"

\* wait_for_completion_interruptible returns: a completion was consumed ...
ReadWake(t) ==
  /\ pc[t] = "wait" /\ GoTo(t, "woken")
  /\ fill_compl > 0 /\ fill_compl' = fill_compl - 1
  /\ stranded' = IF LastWaiter(t) THEN "no" ELSE stranded
  /\ UNCHANGED <<num_reader, lock, cur_write_ptr, ringVars, modeVars>>

\* ... or a signal arrived; the return value is ignored either way.
ReadSignalled(t) ==
  /\ pc[t] = "wait" /\ GoTo(t, "woken")
  /\ fill_compl = 0
  /\ stranded' = IF LastWaiter(t) THEN "no" ELSE stranded
  /\ UNCHANGED <<num_reader, fill_compl, lock, cur_write_ptr, ringVars, modeVars>>

ReadRelock(t) ==
  /\ pc[t] = "woken" /\ GoTo(t, "snap")
  /\ Acquire(t)
  /\ UNCHANGED <<cur_write_ptr, ringVars, wakeVars, modeVars>>

ReadSnapshot(t) ==
  /\ pc[t] = "snap" /\ GoTo(t, "copy")
  /\ cur_write_ptr' = write_ptr
  /\ UNCHANGED <<lock, ringVars, wakeVars, modeVars>>

ReadCopy(t) ==
  /\ pc[t] = "copy" /\ GoTo(t, "move")
  /\ UNCHANGED <<lock, cur_write_ptr, ringVars, wakeVars, modeVars>>

\* copy_to_user fails: -EFAULT, nothing is taken out.
ReadFault(t) ==
  /\ pc[t] = "copy" /\ GoTo(t, "idle")
  /\ LogSize(cur_write_ptr, read_ptr) > 0
  /\ Release(t)
  /\ UNCHANGED <<ringVars, wakeVars, modeVars>>

\* Faulty: the pointer moves to where write_ptr is by now.
MoveToWritePtr == read_ptr' = write_ptr

MoveReadPtr == read_ptr' = cur_write_ptr

\* Faulty: full is counted down.
CountDownFull == full' = full - 1 /\ UNCHANGED lost

\* full is cleared whatever the timer did since the snapshot.  It is lost
\* when the ring is full and the timer is past its own test.
ClearFull ==
  /\ full' = 0
  /\ lost' = IF Occupancy = N - 1 /\ tpc \notin {"wrap", "test", "mark"} THEN TRUE ELSE lost

ReadMove(t) ==
  /\ pc[t] = "move" /\ GoTo(t, "clear")
  /\ MoveReadPtr
  /\ UNCHANGED <<write_ptr, full, tpc, lost, lock, cur_write_ptr, wakeVars, modeVars>>

ReadClear(t) ==
  /\ pc[t] = "clear" /\ GoTo(t, "idle")
  /\ ClearFull
  /\ dsplog_read_finish' = IF dsplog_state = 0 THEN 1 ELSE dsplog_read_finish
  /\ Release(t)
  /\ UNCHANGED <<write_ptr, read_ptr, tpc, wakeVars, dsplog_state, timer_initialized>>

Read(t) ==
  \/ ReadStopped(t) \/ ReadStarted(t) \/ ReadWake(t) \/ ReadSignalled(t) \/ ReadRelock(t)
  \/ ReadSnapshot(t) \/ ReadCopy(t) \/ ReadFault(t) \/ ReadMove(t) \/ ReadClear(t)

----------------------------------------------------------------------------
(* START: dsplog_start_cap.  It does not stop the timer.                   *)

StartEnter(t) ==
  /\ pc[t] = "idle" /\ GoTo(t, "start_snap")
  /\ Acquire(t)
  /\ UNCHANGED <<cur_write_ptr, ringVars, wakeVars, modeVars>>

StartSnapshot(t) ==
  /\ pc[t] = "start_snap" /\ GoTo(t, "start_move")
  /\ cur_write_ptr' = write_ptr
  /\ UNCHANGED <<lock, ringVars, wakeVars, modeVars>>

\* Faulty: START leaves the ring as it is.
StartMoveNothing(t) ==
  /\ pc[t] = "start_move" /\ GoTo(t, "start_arm")
  /\ UNCHANGED <<ringVars, lock, cur_write_ptr, wakeVars, modeVars>>

StartMove(t) ==
  /\ pc[t] = "start_move" /\ GoTo(t, "start_clear")
  /\ MoveReadPtr
  /\ UNCHANGED <<write_ptr, full, tpc, lost, lock, cur_write_ptr, wakeVars, modeVars>>

StartClear(t) ==
  /\ pc[t] = "start_clear" /\ GoTo(t, "start_arm")
  /\ ClearFull
  /\ UNCHANGED <<write_ptr, read_ptr, tpc, lock, cur_write_ptr, wakeVars, modeVars>>

StrandedByStart ==
  IF stranded = "reader" /\ Waiting # {} THEN "reader"
  ELSE IF tpc = "dec" \/ (Waiting # {} /\ fill_compl = 0) THEN "start"
  ELSE IF Waiting = {} THEN "no" ELSE stranded

\* The reader count is reset under the feet of a thread that waits, or of
\* the timer between its test of the count and its decrement.  The timer is
\* started only once every core has an instance.
StartArm(t) ==
  /\ pc[t] = "start_arm" /\ GoTo(t, "idle")
  /\ num_reader' = 0
  /\ stranded' = StrandedByStart
  /\ dsplog_state' = 1 /\ dsplog_read_finish' = 0
  /\ timer_initialized' \in {1, timer_initialized}
  /\ Release(t)
  /\ UNCHANGED <<fill_compl, ringVars>>

Start(t) ==
  StartEnter(t) \/ StartSnapshot(t) \/ StartMove(t) \/ StartClear(t) \/ StartArm(t)

----------------------------------------------------------------------------
(* STOP: dsplog_stop_cap.  del_timer_sync waits for the callback, so the   *)
(* timer stands still for the rest of the call.                            *)

\* Faulty: del_timer in place of del_timer_sync.
TimerNotAwaited == TRUE

TimerQuiet == tpc = "idle"

\* Faulty: STOP leaves a waiting reader alone, or declares the log read.
StopWithoutComplete(t) ==
  /\ pc[t] = "idle" /\ lock = NoThread /\ TimerQuiet
  /\ timer_initialized' = 0 /\ num_reader' = 0 /\ dsplog_state' = 0
  /\ UNCHANGED <<dsplog_read_finish, fill_compl, stranded, ringVars, callVars>>

StopFinishes(t) ==
  /\ pc[t] = "idle" /\ lock = NoThread /\ TimerQuiet /\ fill_compl < MaxPending
  /\ timer_initialized' = 0 /\ num_reader' = 0 /\ dsplog_state' = 0
  /\ fill_compl' = fill_compl + 1 /\ dsplog_read_finish' = 1
  /\ UNCHANGED <<stranded, ringVars, callVars>>

Stop(t) ==
  /\ pc[t] = "idle" /\ lock = NoThread /\ TimerQuiet
  /\ fill_compl < MaxPending
  /\ timer_initialized' = 0
  /\ num_reader' = 0
  /\ dsplog_state' = 0
  /\ fill_compl' = fill_compl + 1
  /\ stranded' = IF Waiting = {} THEN "no" ELSE stranded
  /\ UNCHANGED <<dsplog_read_finish, ringVars, callVars>>

(* The same ioctls on other cores share the one timer.  STOP of another    *)
(* core and every SET_DSP_CORE take it away; START of another core brings  *)
(* it back.                                                                *)
OtherCoreStops ==
  /\ lock = NoThread /\ TimerQuiet
  /\ timer_initialized' = 0
  /\ UNCHANGED <<dsplog_state, dsplog_read_finish, ringVars, wakeVars, callVars>>

OtherCoreStarts ==
  /\ lock = NoThread
  /\ timer_initialized' = 1
  /\ UNCHANGED <<dsplog_state, dsplog_read_finish, ringVars, wakeVars, callVars>>

----------------------------------------------------------------------------

\* alloc_log_cap_instance and init_buffer: zeroed, and not started.
Init ==
  /\ write_ptr = 0 /\ read_ptr = 0 /\ full = 0
  /\ num_reader = 0 /\ fill_compl = 0
  /\ dsplog_state = 0 /\ dsplog_read_finish = 0
  /\ timer_initialized = 0 /\ tpc = "idle"
  /\ lock = NoThread /\ pc = [t \in Threads |-> "idle"]
  /\ cur_write_ptr = 0
  /\ lost = FALSE /\ stranded = "no"

Next ==
  \/ Timer
  \/ \E t \in Threads : Read(t) \/ Start(t) \/ Stop(t)
  \/ OtherCoreStops \/ OtherCoreStarts

Spec == Init /\ [][Next]_vars

(* The kernel runs the timer and every runnable thread; the DSP is assumed *)
(* to go on logging.  Nobody is obliged to issue a system call or to send  *)
(* a signal.  The mutex is passed on to a thread that keeps asking for it. *)
Fairness ==
  /\ WF_vars(Timer)
  /\ \A t \in Threads :
       /\ WF_vars(ReadWake(t)) /\ SF_vars(ReadRelock(t))
       /\ WF_vars(\/ ReadSnapshot(t) \/ ReadCopy(t) \/ ReadFault(t) \/ ReadMove(t) \/ ReadClear(t)
                  \/ StartSnapshot(t) \/ StartMove(t) \/ StartClear(t) \/ StartArm(t))

FairSpec == Spec /\ Fairness
----------------------------------------------------------------------------
(* Properties.                                                             *)

TypeOK ==
  /\ write_ptr \in 0..N /\ read_ptr \in 0..N /\ cur_write_ptr \in 0..N
  /\ full \in {0, 1} /\ dsplog_state \in {0, 1} /\ dsplog_read_finish \in {0, 1}
  /\ timer_initialized \in {0, 1}
  /\ num_reader \in Int /\ fill_compl \in Nat
  /\ tpc \in TimerPc
  /\ lock \in Threads \union {NoThread}
  /\ pc \in [Threads -> Locked \union Unlocked]
  /\ lost \in BOOLEAN /\ stranded \in {"no", "reader", "start"}

\* The timer stores a record only where two entries are free, so write_ptr
\* never catches read_ptr, however its step interleaves with a reader and
\* with START; the one exception is a full flag cleared while the ring was
\* full (dsp_log_add_to_ring_buffer against dsplog_read and dsplog_start_cap).
StoreHasRoom == lost = FALSE /\ tpc = "store" => Occupancy <= N - 2

\* A read takes no more than is unread, although its snapshot of write_ptr
\* may have caught the pointer resting on ringbuf.end (dsplog_read).
ReadWithinLog ==
  \A t \in Threads :
    lost = FALSE /\ pc[t] \in {"copy", "move"}
      => /\ LogSize(cur_write_ptr, read_ptr) <= Occupancy
         /\ LogSize(cur_write_ptr, read_ptr) < N

\* Whoever waits for fill_compl has a wake-up coming: a completion is
\* posted or about to be, or the timer still counts a reader.  Excepted
\* are a second waiter and a START that resets the count under a waiter.
WakeupDue ==
  stranded = "no" /\ Waiting # {}
    => num_reader > 0 \/ fill_compl > 0 \/ tpc = "complete"

\* A thread blocked in read() gets out of its wait, as long as the timer
\* keeps running, the DSP goes on logging and its wake-up was not taken away:
\* again and again there is nobody who waits.
ReaderWoken ==
  <>[](timer_initialized = 1 /\ stranded = "no") => []<>(Waiting = {})

\* STOP makes the read() that blocks return, although the timer is gone, and
\* although a START may have taken the wake-up that the reader was counted
\* for or have driven the count below zero: dsplog_stop_cap completes
\* whatever the count.  The exception is a second reader that waits.
StopReturns ==
  \A t \in Threads :
    pc[t] = "wait" /\ dsplog_state = 0 /\ stranded # "reader"
      ~> pc[t] = "idle" \/ stranded = "reader"

(* Why they hold: the invariant every step preserves.                      *)

\* A thread holds the mutex exactly where its code does.
MutexInv == \A t \in Threads : lock = t <=> pc[t] \in Locked

\* write_ptr rests on ringbuf.end only until the timer wraps it.
EndInv == write_ptr = N => tpc = "wrap"

\* The threads whose snapshot of write_ptr is still to be used.
HasSnapshot(t) == pc[t] \in {"copy", "move", "start_move"}

\* A snapshot lies between read_ptr and write_ptr.  A pointer resting on
\* ringbuf.end never meets one on ringbuf.start, which LogSize would take
\* for a ring of N unread entries.
SnapshotInv ==
  /\ write_ptr = N => read_ptr # 0
  /\ \A t \in Threads : HasSnapshot(t) =>
       /\ LogSize(Norm(cur_write_ptr), Norm(read_ptr)) <= Occupancy
       /\ write_ptr = N => cur_write_ptr # 0
       /\ cur_write_ptr = N => read_ptr # 0

\* A full ring is marked full, or the timer is about to mark it.
FullInv ==
  /\ tpc = "store" => Occupancy <= N - 2
  /\ tpc \notin {"wrap", "test", "mark"} /\ Occupancy = N - 1 => full = 1

RingInv == lost = FALSE => SnapshotInv /\ FullInv

\* A count that was never taken away belongs to at most one waiter.
WakeInv ==
  stranded = "no" =>
    /\ num_reader >= 0
    /\ tpc = "dec" => num_reader > 0
    /\ \A t, u \in Waiting : t = u
    /\ Waiting # {} => num_reader > 0 \/ fill_compl > 0 \/ tpc = "complete"

\* The inductive invariant behind the safety properties above.
CaptureInv == TypeOK /\ EndInv /\ MutexInv /\ RingInv /\ WakeInv

(* What comments of the code say of it, and TLC refutes.                   *)

\* dsplog_timer.c:360, "write ptr will NEVER catch read ptr".
NeverCatches == tpc = "store" => Occupancy <= N - 2

\* README.md:23, "Lossless Extraction Interface", and dsplog_timer.c:351,
\* "when ring buffer full, discard new record": nothing is discarded,
\* between calls, while there is room.
DiscardOnlyWhenFull ==
  [][tpc = "idle" /\ tpc' = "notify" /\ lock = NoThread => Occupancy = N - 1]_vars
=============================================================================
