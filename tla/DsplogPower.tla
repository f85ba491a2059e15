----------------------------- MODULE DsplogPower -----------------------------
(***************************************************************************)
(* Suspend, resume and DSP hang recovery against the running timer         *)
(* callback, seen from one core's instance, and the two ioctls that show   *)
(* the log memory.                                                         *)
(*                                                                         *)
(* dsplog_suspend takes no lock and does not stop the timer, so each store *)
(* of it is a step, and so is each access of the callback to the record    *)
(* under dsppf_current.  Places count slots of DSPLOG_ENTRY_SIZE bytes     *)
(* from the start of the whole log memory, core after core.                *)
(*                                                                         *)
(* The capture has been started on the cleared memory, or not at all: what *)
(* START and STOP do to a walk in progress is DsplogScan's.                *)
(*                                                                         *)
(* The sequence numbers of one life of the DSP stay below the gaps and the *)
(* wrap that DsplogScan is about: an older record has a smaller number.    *)
(***************************************************************************)
EXTENDS Integers

CONSTANTS
  CoreNums,    \* the UCODE_CORE_NUM of the builds looked at
  Slots,       \* slots of one core's region
  MaxRecords,  \* bound: records a core writes in one life of the DSP
  MaxLives     \* bound: suspends and hang recoveries, together

\* A core has at least two slots: in one alone, the callback would take the
\* last record again and again.
ASSUME PowerAssumption ==
  /\ CoreNums \subseteq Nat \ {0} /\ Slots \in Nat \ {0, 1}
  /\ MaxRecords \in Nat /\ MaxLives \in Nat

VARIABLES
  cores, own,          \* UCODE_CORE_NUM, and dsp_id of the instance
  mem,                 \* the log memory, by slot: a record <<core, number>> or Cleared
  written,             \* by core, the records written in this life of the DSP
  dsppf_base, dsplog_buf_size,
  dsppf_current, curr_seq_num, dsp_suspended,
  timer_initialized,   \* 1: the capture was started on the cleared memory
  timer_armed,         \* the timer is pending, or its callback runs and will re-arm it
  tpc,                 \* where the callback is with the instance
  next_ptr,            \* its register for the new dsppf_current; 0: not in use
  power,               \* where dsplog_suspend is, "off" when it has returned
  lives,               \* suspends and hang recoveries so far
  dump_mem_snapshot, max_size,  \* a reader of the snapshot; -1: not in its read()
  last,                \* history: number of the last record taken in this life
  late,                \* history: records taken since dsp_suspended was set
  collided,            \* history: the DSP overwrote a record not yet taken, or wrote
                       \* the slot between the callback's two looks at it
  torn                 \* history: suspend fell into the handling of a record

configVars == <<cores, own, timer_initialized>>
dspVars == <<mem, written, collided>>
regionVars == <<dsppf_base, dsplog_buf_size>>
walkVars == <<dsppf_current, curr_seq_num>>
timerVars == <<tpc, next_ptr>>
userVars == <<dump_mem_snapshot, max_size>>
powerVars == <<configVars, dspVars, regionVars, walkVars, dsp_suspended, timer_armed, timerVars,
               power, lives, userVars, last, late, torn>>

CoreSet == 0..(cores - 1)
MemSize == cores * Slots
Cleared == <<0, 0>>
ClearedMem == [s \in 0..(MemSize - 1) |-> Cleared]

\* The first record of a life has sequence number 0, and so has a cleared slot.
SeqNumOf(record) == IF record = Cleared THEN 0 ELSE record[2] - 1

Here == mem[dsppf_current]

\* The callback has found dsp_suspended clear and is not done with the slot.
InRecord == tpc \notin {"idle", "test"}

----------------------------------------------------------------------------
(* The DSP: stopped while it is being suspended or reset, and writing from *)
(* the start of each core's region after that.                             *)

DspWrite(c) ==
  /\ power \in {"on", "off"} /\ written[c] < MaxRecords
  /\ LET slot == c * Slots + (written[c] % Slots) IN
       /\ mem' = [mem EXCEPT ![slot] = <<c, written[c] + 1>>]
       /\ collided' = \/ collided
                       \/ (c = own /\ mem[slot][2] > last)
                       \/ (slot = dsppf_current /\ tpc = "empty")
  /\ written' = [written EXCEPT ![c] = @ + 1]
  /\ UNCHANGED <<configVars, regionVars, walkVars, dsp_suspended, timer_armed, timerVars, power, lives,
                 userVars, last, late, torn>>

----------------------------------------------------------------------------
(* dsp_printk_timer with this instance.                                    *)

Callback(from, to) ==
  /\ tpc = from /\ tpc' = to
  /\ UNCHANGED <<configVars, dspVars, regionVars, dsp_suspended, timer_armed, power, lives, userVars,
                 torn>>

Keep == UNCHANGED <<walkVars, next_ptr, last, late>>

Tick == timer_armed /\ Callback("idle", "test") /\ Keep

\* Faulty: the flag is not looked at.
TestOnce == Callback("test", "judge") /\ Keep

TestSuspended == Callback("test", IF dsp_suspended = 1 THEN "idle" ELSE "judge") /\ Keep

Stale == SeqNumOf(Here) < curr_seq_num

Judge == Callback("judge", IF Stale THEN "idle" ELSE "seq") /\ Keep

NoteSeqNum ==
  /\ Callback("seq", "empty")
  /\ curr_seq_num' = SeqNumOf(Here)
  /\ UNCHANGED <<dsppf_current, next_ptr, last, late>>

TestEmpty ==
  Callback("empty", IF curr_seq_num = 0 /\ Here = Cleared THEN "idle" ELSE "take") /\ Keep

\* memcpy into the ring, DsplogCapture.
TakeRecord ==
  /\ Callback("take", "load")
  /\ last' = Here[2] /\ late' = IF dsp_suspended = 1 THEN late + 1 ELSE late
  /\ UNCHANGED <<walkVars, next_ptr>>

LoadPlace ==
  /\ Callback("load", "store")
  /\ next_ptr' = dsppf_current + 1
  /\ UNCHANGED <<walkVars, last, late>>

StorePlace ==
  /\ Callback("store", "wrap")
  /\ dsppf_current' = next_ptr /\ next_ptr' = 0
  /\ UNCHANGED <<curr_seq_num, last, late>>

\* Faulty: the place wraps one slot too late.
PastEndLate == dsppf_current > dsppf_base + dsplog_buf_size

PastEnd == dsppf_current >= dsppf_base + dsplog_buf_size

\* Faulty: the walk is put before its first slot.
TestWrapBefore ==
  /\ Callback("wrap", IF PastEnd THEN "rewind" ELSE "test")
  /\ next_ptr' = IF PastEnd THEN dsppf_base - 1 ELSE 0
  /\ UNCHANGED <<walkVars, last, late>>

TestWrap ==
  /\ Callback("wrap", IF PastEnd THEN "rewind" ELSE "test")
  /\ next_ptr' = IF PastEnd THEN dsppf_base ELSE 0
  /\ UNCHANGED <<walkVars, last, late>>

Rewind ==
  /\ Callback("rewind", "test")
  /\ dsppf_current' = next_ptr /\ next_ptr' = 0
  /\ UNCHANGED <<curr_seq_num, last, late>>

Timer ==
  \/ Tick \/ TestSuspended \/ Judge \/ NoteSeqNum \/ TestEmpty \/ TakeRecord
  \/ LoadPlace \/ StorePlace \/ TestWrap \/ Rewind

----------------------------------------------------------------------------
(* dsplog_suspend.  The other cores' instances, if there are any, come     *)
(* before this one, after it, or both.                                     *)

Suspend(from, to) ==
  /\ power = from /\ power' = to
  /\ UNCHANGED <<configVars, timer_armed, timerVars, userVars, lives>>

\* Each other instance clears the memory, all of it.
SuspendOther ==
  /\ \/ Suspend("other first", "flag") \/ Suspend("other last", "off")
  /\ mem' = ClearedMem
  /\ torn' = (torn \/ InRecord)
  /\ UNCHANGED <<written, collided, regionVars, walkVars, dsp_suspended, last, late>>

SuspendBegin ==
  /\ power = "on" /\ lives < MaxLives /\ lives' = lives + 1
  /\ power' \in IF cores = 1 THEN {"flag"} ELSE {"flag", "other first"}
  /\ UNCHANGED <<configVars, dspVars, regionVars, walkVars, dsp_suspended, timer_armed, timerVars,
                 userVars, last, late, torn>>

SuspendFlag ==
  /\ Suspend("flag", "region")
  /\ dsp_suspended' = 1
  /\ torn' = InRecord
  /\ UNCHANGED <<dspVars, regionVars, walkVars, last, late>>

\* dsp_init_logbuf gives the whole memory, by two stores in some order.
WholeBase == dsppf_base' = 0 /\ UNCHANGED dsplog_buf_size
WholeSize == dsplog_buf_size' = MemSize /\ UNCHANGED dsppf_base

SuspendRegion ==
  /\ \/ Suspend("region", "size") /\ WholeBase
     \/ Suspend("size", "place") /\ WholeSize
     \/ Suspend("region", "base") /\ WholeSize
     \/ Suspend("base", "place") /\ WholeBase
  /\ UNCHANGED <<dspVars, walkVars, dsp_suspended, last, late, torn>>

SuspendPlace ==
  /\ Suspend("place", "seq")
  /\ dsppf_current' = dsppf_base /\ last' = 0
  /\ UNCHANGED <<curr_seq_num, dspVars, regionVars, dsp_suspended, late, torn>>

SuspendSeqNum ==
  /\ Suspend("seq", "clear")
  /\ curr_seq_num' = 0
  /\ UNCHANGED <<dsppf_current, dspVars, regionVars, dsp_suspended, last, late, torn>>

\* The DSP's life ends here; whatever it wrote is cleared.
SuspendClear ==
  /\ \/ Suspend("clear", "off")
     \/ Suspend("clear", "other last") /\ cores > 1
  /\ mem' = ClearedMem /\ written' = [c \in CoreSet |-> 0] /\ collided' = FALSE
  /\ UNCHANGED <<regionVars, walkVars, dsp_suspended, last, late, torn>>

\* dsplog_resume.  The processors were down in between, so that no callback
\* lasts from before.
Resume ==
  /\ power = "off" /\ power' = "on" /\ tpc = "idle"
  /\ dsppf_base' = 0 /\ dsplog_buf_size' = MemSize
  /\ dsp_suspended' = 0 /\ late' = 0
  /\ UNCHANGED <<configVars, dspVars, walkVars, timer_armed, timerVars, lives, userVars, last, torn>>

----------------------------------------------------------------------------
(* dsplog_reset_cap, on the chips with several cores: under the mutex and  *)
(* with the timer stopped.  Between them the instances clear all memory.   *)

\* Faulty: del_timer in place of del_timer_sync.
TimerNotAwaited == TRUE

TimerQuiet == tpc = "idle"

MutexFree == max_size = -1

\* Faulty: the timer that was stopped for the reset is not started again.
RearmNot == timer_armed' = FALSE

Rearm == timer_armed' = (timer_initialized = 1)

Reset ==
  /\ power = "on" /\ cores > 1 /\ MutexFree /\ TimerQuiet
  /\ lives < MaxLives /\ lives' = lives + 1
  /\ dsppf_current' = dsppf_base /\ curr_seq_num' = 0
  /\ mem' = ClearedMem
  /\ written' = [c \in CoreSet |-> 0] /\ collided' = FALSE /\ last' = 0 /\ torn' = FALSE
  /\ Rearm
  /\ UNCHANGED <<configVars, regionVars, dsp_suspended, timerVars, power, userVars, late>>

----------------------------------------------------------------------------
(* The user: GET_MEMORY_INFO, DUMP_MEMORY_SNAPSHOT, and the read() that    *)
(* copies the log memory as it is.                                         *)

User ==
  UNCHANGED <<configVars, dspVars, regionVars, walkVars, dsp_suspended, timer_armed, timerVars, power,
              lives, last, late, torn>>

\* What GET_MEMORY_INFO gives as the size; it changes nothing.
GetMemoryInfo == dsplog_buf_size

\* Of the argument only the lowest bit is kept.
DumpMemorySnapshot ==
  /\ MutexFree /\ dump_mem_snapshot' \in {0, 1}
  /\ User /\ UNCHANGED max_size

\* Faulty: the size is not looked at.
FitsAlways(size) == TRUE

Fits(size) == size = dsplog_buf_size

\* A size that does not fit is refused and changes nothing.
SnapshotCheck ==
  /\ MutexFree /\ dump_mem_snapshot = 1
  /\ \E size \in {Slots, MemSize} : Fits(size) /\ max_size' = size
  /\ User /\ UNCHANGED dump_mem_snapshot

\* copy_to_user from dsppf_base; when it fails the snapshot is still due.
SnapshotCopy ==
  /\ ~ MutexFree /\ max_size' = -1
  /\ dump_mem_snapshot' \in {0, 1}
  /\ User

----------------------------------------------------------------------------

\* alloc_log_cap_instance: each core has its own part of the cleared memory.
PowerInit ==
  /\ cores \in CoreNums /\ own \in CoreSet
  /\ mem = ClearedMem /\ written = [c \in CoreSet |-> 0]
  /\ dsppf_base = own * Slots /\ dsplog_buf_size = Slots
  /\ dsppf_current = dsppf_base /\ curr_seq_num = 0 /\ dsp_suspended = 0
  /\ timer_initialized \in {0, 1} /\ timer_armed = (timer_initialized = 1)
  /\ tpc = "idle" /\ next_ptr = 0
  /\ power = "on" /\ lives = 0
  /\ dump_mem_snapshot = 0 /\ max_size = -1
  /\ last = 0 /\ late = 0 /\ collided = FALSE /\ torn = FALSE

SuspendStep ==
  \/ SuspendOther \/ SuspendFlag \/ SuspendRegion \/ SuspendPlace \/ SuspendSeqNum \/ SuspendClear

PowerNext ==
  \/ \E c \in CoreSet : DspWrite(c)
  \/ Timer
  \/ SuspendBegin \/ SuspendStep \/ Resume \/ Reset
  \/ DumpMemorySnapshot \/ SnapshotCheck \/ SnapshotCopy

PowerSpec == PowerInit /\ [][PowerNext]_powerVars

\* An armed timer expires and re-arms itself.  Nobody has to log, to suspend
\* or to resume.
PowerFairSpec == PowerSpec /\ WF_powerVars(Timer)

----------------------------------------------------------------------------
(* Properties.                                                             *)

PowerTypeOK ==
  /\ cores \in CoreNums /\ own \in CoreSet
  /\ mem \in [0..(MemSize - 1) -> {Cleared} \union (CoreSet \X (1..MaxRecords))]
  /\ written \in [CoreSet -> 0..MaxRecords]
  /\ dsppf_base \in {0, own * Slots} /\ dsplog_buf_size \in {Slots, MemSize}
  /\ dsppf_current \in 0..MemSize /\ next_ptr \in 0..MemSize
  /\ curr_seq_num \in 0..MaxRecords /\ dsp_suspended \in {0, 1}
  /\ timer_initialized \in {0, 1} /\ timer_armed \in BOOLEAN
  /\ tpc \in {"idle", "test", "judge", "seq", "empty", "take", "load", "store", "wrap", "rewind"}
  /\ power \in {"on", "off", "other first", "flag", "region", "size", "base", "place", "seq",
                "clear", "other last"}
  /\ lives \in 0..MaxLives
  /\ dump_mem_snapshot \in {0, 1} /\ max_size \in {-1, Slots, MemSize}
  /\ last \in 0..MaxRecords /\ late \in Nat
  /\ collided \in BOOLEAN /\ torn \in BOOLEAN

\* Whatever suspend stores under the callback, and in whatever order
\* dsp_init_logbuf stores the region, the callback reads slots of the log
\* memory only.
WalkInMemory ==
  tpc \in {"judge", "seq", "empty", "take"} => dsppf_current \in 0..(MemSize - 1)

\* The size of a snapshot was compared with one region and the copy may
\* start at another, yet it stays in the log memory, unless
\* dsp_init_logbuf stores the size before the base and has not come to the base.
SnapshotInMemory ==
  max_size # -1 /\ power # "base" => dsppf_base + max_size <= MemSize

\* Once suspend has set its flag, at most the record in progress is taken.
SuspendStops == dsp_suspended = 1 => late <= 1

\* The instance still has its own region and nothing else.
OwnRegion == dsppf_base = own * Slots /\ dsplog_buf_size = Slots

\* In every life of the DSP the records come from the first one on, none is
\* skipped or repeated, and none is another core's, unless suspend fell into
\* the handling of a record, the DSP overran the walk or filled the slot
\* just after its number was noted as 0, or suspend has given the instance
\* the other cores' memory.
FromTheFirst ==
  [][tpc = "take" /\ tpc' = "load" /\ OwnRegion /\ torn = FALSE /\ collided = FALSE
       => Here = <<own, last + 1>>]_powerVars

\* Once started, the walk catches up with the DSP, also after a resume or a
\* hang recovery, which leaves the timer as it was, unless suspend has torn a
\* record or given the instance all the memory.
CatchesUpAgain ==
  <>[](timer_initialized = 1 /\ power = "on" /\ torn = FALSE /\ OwnRegion => last = written[own])

(* What a comment of the repository says, and TLC refutes.                 *)

\* dsplog_drv.h:46, "size of this core's log region", whenever the ioctl may
\* be made.
InfoIsRegion == power = "on" /\ MutexFree => GetMemoryInfo = Slots
=============================================================================
