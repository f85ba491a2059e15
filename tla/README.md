# Verification of the DSP log driver (`dsplog.ko`)

TLA+ models of the Linux driver in `src/dsplog_drv.c` and
`src/dsplog_timer.c`, their model-checking configurations, and proofs.
Line numbers without a file are those of `src/dsplog_timer.c`; `drv.c` is
`src/dsplog_drv.c`.

## 1. The system

DSP cores write log records of 32 bytes into circular buffers in reserved
memory. A kernel timer (every 6 ms, softirq context) copies new records into
one ring buffer of 2 MB per core, and user threads take them out with
`read()` on `/dev/dsplog`. `ioctl` chooses a core (SET_DSP_CORE), starts and
stops its capture.

| Component | State | Operations | Code | Model |
|---|---|---|---|---|
| Capture instance | ring pointers, `full`, `num_reader`, `fill_compl`, `dsplog_state`, `dsplog_read_finish` | store a record, read, START, STOP | 206-388, 615-677 | DsplogCapture, DsplogStream |
| Registry | instance queue (`dsp_id`, `active`, `filp`), contexts of open files, the timer on or off | open, SET_DSP_CORE, START, STOP, release, load, unload | 478-613, 632-677, drv.c 113-216 | DsplogRegistry |
| One core among its files | both of the above | all of the above | the same | DsplogSystem |
| Module | device, list head, registered operations | init, exit | drv.c 250-347 | DsplogModule |
| Timer scan | `dsppf_current`, `curr_seq_num`, `seq_num_wrapped` per core, the callback's array of cores | one callback | 144-156, 390-476 | DsplogScan |
| Power management | regions, `dsp_suspended` | suspend, resume, hang recovery | 717-783 | DsplogPower |
| Snapshot and information | `dump_mem_snapshot` | read of the raw memory, GET_MEMORY_INFO | 227-246, 694-714 | DsplogPower |

How they interact:

- The timer's callback takes **no lock**. Threads hold `amba_dsplog_mutex`
  in ioctl and read, except around `wait_for_completion_interruptible`
  (266-268). The ring pointers and `full` are plain shared variables,
  `num_reader` is atomic.
- `del_timer_sync` makes STOP, SET_DSP_CORE and hang recovery wait for a
  running callback. START and `suspend` do not.
- **One timer serves all cores.** SET_DSP_CORE (531) and STOP (666) of any
  core take it away; START brings it back once every core has an instance.
- `release()` (drv.c 211) changes instances without the mutex.
- `suspend`, `resume` and `reset_capture` are called by the `iav` driver.
- The device can be opened from `cdev_add` (drv.c 265) on, before
  `dsplog_init` has made the queue a list (drv.c 323).

What is hard: the timer against readers and START on the ring; wake-ups that
are counted, reset, interrupted or left over; ownership that outlives STOP;
`release()` between other files' ioctls; 32-bit sequence numbers that tell
old slots from new ones; suspend under a running callback. `PROJECT.json`
lists each hazard with its line and the properties that would catch it.

What makes each component correct:

- *Capture*: records come out in the order stored, none lost or repeated
  while the ring is not full; the ring is never overrun; a blocked reader
  is woken; STOP flushes everything stored before it.
- *Registry*: one instance per core; a core is occupied only by a file that
  can give it up; an owner keeps its core; the timer runs only with all cores.
- *One core among its files*: only the owner takes records out, and gets its
  own.
- *Module*: whatever is refused, everything is given back; nobody uses it
  before it is ready or after it is gone.
- *Scan*: each record once, in order, none passed over unless overwritten;
  the callback ends.
- *Power management*: a core's walk stays in the log memory, stops, and
  starts again at the first record.

## 2. The modules

    BoundedLog <-refines- DsplogStream --extends--> DsplogCapture <--extends-- DsplogSystem
                                                                                  | instance
    DsplogScan        DsplogPower        DsplogModule --extends, refines--> DsplogRegistry

The proofs about `M` are in `MProofs`, which extends it; `SlotArithmetic` has
the lemmas on places modulo a number of slots that those of the scan and of
power management share.

Definitions marked *Faulty* stand next to a definition and are the same with
a plausible mistake; no specification uses them. Each property is violated
when one of them takes the place of the right one, which shows that the
property depends on the code.

### DsplogCapture

One core's instance. Every access to state shared by the timer and the
threads is a step; `tpc` is the timer's place in
`dsp_log_add_to_ring_buffer`, `pc[t]` each thread's place in its system call,
`lock` the holder of the mutex. Pointers are entry positions, `0` for
`ringbuf.start` and `N` for `ringbuf.end`: the pointer really rests on
`end` between 355 and 357, and the model keeps that state.

| Action | Code |
|---|---|
| `TimerRecord`, `TimerStore`, `TimerWrap`, `TimerTestFull`, `TimerMarkFull` | 352, 353-355, 356-358, 361-363, 367 |
| `TimerNotify`, `TimerDec`, `TimerComplete` | 371-377, 378/383, 379/384 |
| `ReadStopped`, `ReadStarted`, `ReadWake`, `ReadSignalled`, `ReadRelock` | 256-270 |
| `ReadSnapshot`, `ReadCopy`, `ReadFault`, `ReadMove`, `ReadClear` | 272-328 |
| `StartEnter` ... `StartArm` | 632-655 |
| `Stop` | 657-677 |
| `OtherCoreStops`, `OtherCoreStarts` | 531 and 666; 649-651, by another core's ioctl |

The two branches of the notification (371-387) are one disjunction in
`NotifyDue`. A completion is a counter; `wait_for_completion_interruptible`
consumes one or returns on a signal (only while there is none, as in the
kernel). Two history variables name the two defects of this component, and
the invariants say what holds until they strike: `lost` is set when `full` is
cleared on a full ring at a moment when the timer will not test again;
`stranded` when a wait begins next to another one ("reader"), or START resets
the count under a waiter or under the timer's decrement ("start"). It goes back
to "no" once that wait is over. `StopReturns` excepts only "reader": STOP
completes whatever START has done to the count.

### DsplogStream and BoundedLog

`DsplogStream` is where the safety of the ring is checked. It adds the contents: `slots`, the bytes copied out (`out`), and
the numbers of records stored, taken out and stored at STOP. Each of its
actions is an action of `DsplogCapture` conjoined with what happens to the
data, so the control is written once. `BoundedLog` is the abstract promise: a
queue of at most `N - 1` records, appended to when there is room, of which a
consumer takes a prefix. `Unread` maps the ring to that queue.

### DsplogRegistry

The queue of instances, the files, their contexts (a place in the queue) and
the timer flag. ioctls hold the mutex throughout and are one step each;
`release()` is stepped access by access, since it is what the mutex does not
exclude.

| Action | Code |
|---|---|
| `OpenFile`, `SetDspCore` | drv.c 195-209; drv.c 113-138 with 520-556 |
| `Start` (`StartCap`, `StartOldChip`), `StopCap` | 615-655, the compatible case 620-628, 657-677 |
| `ReleaseFile`, `ReleaseTest`, `ReleaseFilp`, `ReleaseActive`, `ReleaseDone` | drv.c 211-216; 573-585 |
| `Reload` | exit and init of a module without users |

`Register` gives every outcome of `dsplog_register_log_cap`, including a
failed allocation. `shared` is set when two open files have one instance in
their contexts, which the code allows after a STOP (the context keeps its
pointer, 672). `RegistryFairSpec` adds that `release()`, once begun, goes on.

### DsplogSystem

`DsplogCapture` for one core's ring and an instance of `DsplogRegistry` for
the files, one thread each. An ioctl on the core is a step of both
(`StartOwn`, `StopOwn`), one on another core reaches the ring through the
timer (`StartOther`, `StopOther`, `SetCore`); `Consume` is a read or a START
that moves `read_ptr`. Three history variables: `lost_core`, the open files
that a STOP or a late `release()` took the core from and whose contexts still
point to it; `began`, the owner once it has begun with START; `foreign`, how
many unread records are from before the owner. The specification takes every
step of its two parts; what `DsplogCapture` promises only until a `full` flag is
lost, `NoForeignRecords` does as well. For TLC, `MCSystem` adds bounds (section
3), of which the theorems know nothing.

### DsplogModule

`amba_dsplog_init` takes a region, a cdev, a class and a device
(`AllocRegion`, `AddCdev`, `CreateClass`, `CreateDevice`; `CreateDev` is any of
them, drv.c 250-301), makes the queue a list (`InitQueue`) and registers the
operations (`RegisterOps`). Each of them but `InitQueue` may be refused
(`Refused`), and the error path it takes is a list `todo` of the calls its own
lines make, of which `GiveBack` performs one after the other. For the operations
that is `amba_dsplog_remove_dev` (`RemoveDev`), which `amba_dsplog_exit` calls
too, after `dsplog_deinit` (`DeinitQueue`). `NothingLeft` compares what the
lists give back with what init has taken: at every moment the resources held
are the first few of `Resources`, and none when the module is gone.

`Vanish` is the moment the module's memory goes: instances left are `leaked`, a
running timer or an open file is an `oops`, after which the kernel stops. Users
act as in `DsplogRegistry` (`UseDevice`), or before the queue is a list
(`UseTooEarly`); the device can be opened as long as the cdev is there, on the
error paths too.

### DsplogScan

`dsp_printk_timer` with its array of cores (`cap_info`), the place `i` in it,
and the removal of a core without new records. The three outcomes for a slot
are three disjuncts: `SkipStale` (409-418), `SkipJumped` (419-429),
`TakeOrEmpty` (430-459). Sequence numbers are modulo `SeqSpan` = 2^8 instead
of 2^32, and the two gaps of lines 411 and 421 are scaled with it
(`0xF0000000` to 240, `0xF000000` to 15). The DSP is external: it writes
records with consecutive numbers round robin, and a record's `format_addr` is
not 0. The memory is cleared when the module loads (`clean_dsplog_memory`).
One slot is served in one step, so a START falls between slots; in the code it
may also fall between reading and writing `curr_seq_num`, in which case the
callback's write wins and START loses its reset, which a START before the
slot does as well.

The properties compare the records themselves. `CaughtUpAtWrap` is the one
state in which the code cannot tell old from new: the walk has taken all
records, the last of them has the last sequence number or one of the first
after a wrap, and the slot ahead is from before. `TakenInOrder` and
`TakenWithoutGap` hold everywhere else, through any number of wraps.
`IdleAtWrap` is the part of it in which all slots ahead count as new and the
callback goes round until the DSP writes again; `CallbackEndsUnlessWrapped` and
`CatchesUp` except it by name and assume nothing of the DSP, which may fall
silent after any record.

### DsplogPower

One instance, its callback access by access (`Tick` ... `Rewind`, 403-463),
and `dsplog_suspend` store by store (`SuspendFlag`, `SuspendRegion`,
`SuspendPlace`, `SuspendSeqNum`, `SuspendClear`, 722-733) with no order
between them. The increment of `dsppf_current` is a load and a store
(`next_ptr` is the register). `dsp_init_logbuf`, external, stores base and
size in either order. `Resume` (738-748) finds no callback from before, since
the processors were down. `Reset` (752-783) holds the mutex; it stops the timer,
and arms it again only if the capture was started: `timer_initialized`, which
this module leaves as it is, against `timer_armed`. `SnapshotCheck` and
`SnapshotCopy` are lines 228 and 236; `DumpMemorySnapshot` keeps the lowest bit
of its argument, the field being one bit wide (dsplog_priv.h 38).
`GetMemoryInfo` is a query, lines 694-714. START and STOP in the middle of a
walk are in `DsplogScan` and `DsplogCapture`.

## 3. Runs

| Run | Instance | Shows |
|---|---|---|
| `capture` | 2 threads, N = 3, threshold 0, counts up to 2 | `ReaderWoken`, `StopReturns` |
| `stream` | the same, and 4 records | types, `StoreHasRoom`, `ReadWithinLog`, `WakeupDue` and the inductive invariant `CaptureInv` of DsplogCapture; `ReadsInOrder`, `CopyUndisturbed`, `FlushComplete`, refinement of `BoundedLog` |
| `registry` | 2 files, 2 cores | one instance for each core, ownership, no dangling context, `CloseFrees` for a file that owns both cores |
| `module` | 3 files, 1 core | `NothingLeft`, `GoesCleanly`, refinement of the registry, START that registers by itself |
| `scan` | 2 cores of 3 slots, 8 records each, 2 STARTs, numbering from 0, 253 or 254 | order and gaps over the wrap of the numbers too, `RecordsOnly` before it, end of the callback, catching up after overrun and wrap |
| `power` | 1 and 2 cores of 2 slots, 3 records in each of the DSP's lives, 2 suspends or recoveries, capture started or not | the walk and the snapshot stay in the memory, suspend stops the walk, it begins again at the first record |
| `system` | 2 files, 2 cores, N = 2, threshold 0, bounds of `MCNext` | `OnlyOwnerConsumes`, `NoForeignRecords`, `CallbackHasInstances` |
| `never_catches`, `discard` | 2 threads, N = 4, threshold 1, counts up to 3 | section 4 |
| `timer_off` | 3 files, 2 cores | section 4 |
| `region` | 2 cores of 2 slots, 1 record, 1 suspend | section 4 |
| `idle_at_wrap` | 2 cores of 3 slots, 5 records each, 1 START, numbering from 253 | section 4 |

The bounds. Two threads are one reader and one that starts or stops or is a
second reader; a third adds only another waiter. A ring of three entries has
wrapped, unwrapped, full and nearly full logs and the pointer on `end`; a reader
waits at an empty ring and is notified at one entry, while the ring is full only
at two, so that the notification by the threshold (378) and the one by the full
ring (383) are different branches. Four records wrap it. `MaxPending` caps the
counts that the code lets run away: a negative `num_reader` silences the timer,
further reads or STOPs are not made.

Two files are the least for a stale context next to an owner, and for a
`release()` next to another file's ioctls; the safety properties of `registry`
are theorems for any number. A third, a closing file next to a stale context
and an owner, is in `module`, which refines the registry, and in `timer_off`.
In `system` two files contend. `MCNext` adds to each step that at most one reader
is counted and one completion posted, that neither `lost` nor `stranded` is set,
after which the parts promise little, and that the core registers before the
other one, whose order the ring does not see and `registry` varies. Without these
bounds the run would take too long. They are TLC's alone: the theorems are about
`SystemSpec`.

Three slots and eight records let a core lap the walk twice and complete a lap
after a wrap; numbers from 253 and 254 wrap after three and two records, so that
a walk meets the wrap at different slots. Two slots and three records wrap the
walk; two suspends or recoveries let one begin where another left off.

Deadlock is checked except where the model may stop: `module`, where the
kernel stops after an oops, and `system`, where a step beyond the bounds is not
taken. `capture` compares states by `CaptureView`, all but `lost`, which no step
and neither property reads. `system` compares states by `SystemView`, which
leaves out what no later step depends on (the registry's own history, contexts
of closed files, a snapshot that is no longer used).

Fairness. An armed timer expires and re-arms itself (155) and softirqs run, so
the timer's steps, the scan and the callback of `power` are weakly fair; so are
the steps of a thread inside a call, in `registry` those of `release()`. Taking
the mutex back after a wait is strongly fair: the kernel's mutex hands over to a
waiter that was passed over. The DSP is fair in one place: `TimerRecord`, the
arrival of a record, belongs to the timer's steps in `capture`, so `ReaderWoken`
assumes that the DSP goes on logging while the timer runs. `scan` and `power`
assume nothing of the DSP. Nobody has to issue a call, send a signal, suspend or
resume.

## 4. What was found

Five runs expect a violation; their counterexamples are real interleavings or
call sequences, against what the repository says.

- `never_catches` (360): the timer fills the ring after a reader moved
  `read_ptr`, sets `full`, and the reader clears it. The next record puts
  `write_ptr` on `read_ptr`: a full ring reads as empty.
- `discard` (351, `README.md` "Lossless"): the opposite order leaves `full`
  set on an empty ring and the timer discards until the next read.
- `timer_off` (531; 648 promises the timer once all cores are registered): a
  SET_DSP_CORE that is refused has already stopped the timer, and with it the
  captures of all cores.
- `region` (724, 743 against `dsplog_drv.h:46`): suspend and resume replace a
  core's region by the whole log memory on builds with several cores.
- `idle_at_wrap` (410, 419, 430 against 465, "Remove the no data cap_info"): a
  core stops logging after the record with the last sequence number, or the
  first after the wrap. The slot ahead, an old one, counts as new; its number is
  behind those of the slots ahead of it, which are taken in turn until the walk
  is at the wrap again. The core is never removed, and the softirq callback
  does not end until it logs.

Others the repository says nothing about. The properties name them as
exceptions, and hold without them:

- START, or a second reader, takes away a waiter's wake-up (`stranded`).
- A context keeps its instance after STOP (672). A file with such a context
  can STOP the core's next owner, and reads on with it (`shared`,
  `lost_core`).
- `release()` has cleared `filp` and not yet `active` (579-580) when such a
  file stops the instance and registers it again: `release()` then takes the
  core from its new owner (`lost_core`).
- The DSP fills a slot between the timer's two looks at it (434, 445): the
  record is taken with number 0 (`collided`).
- Suspend falls into the handling of a record, which writes the old number or
  place over the reset ones (`torn`).
- The size of a snapshot is compared with one region, and the copy starts at
  another (228, 236): if `dsp_init_logbuf` stores the size first, the copy
  may run past the memory (`SnapshotInMemory`).
- The device is opened before the module has loaded (`early`), and used
  before the queue is a list or left behind when init fails.
- `amba_dsplog_exit` does not unregister the operations (drv.c 345;
  `NothingLeft`, `exited`).
- From the last sequence number on and for a lap, the slot ahead of a walk that
  has caught up counts as new, an old record or none (`CaughtUpAtWrap`), and is
  taken. At two of those numbers this has no end (`IdleAtWrap`, the run
  `idle_at_wrap`); at the others the callback ends.
  A walk that lags behind the DSP crosses the wrap without a mistake, and a lap
  later the order is restored for good, which the proof showed first.
- In a log buffer with one slot the callback would find the record it has just
  taken ahead of itself, whose number is not smaller than `curr_seq_num`
  (409), and take it for ever. The models ask for two slots, which every chip
  has; the proof of `FromTheFirst` fails without.

## 5. Proofs

All for every value of the constants, under the assumption named in each
module (`CaptureAssumption`, `StreamAssumption`, `RegistryAssumption`,
`ScanAssumption`, `PowerAssumption`, `SystemAssumption`). None of the proved
properties is inductive alone; each rests on an invariant made of named parts,
preserved action by action.

**DsplogCaptureProofs**: `TypeOK`, `StoreHasRoom`, `ReadWithinLog`,
`WakeupDue`. `CaptureInv` adds

- `EndInv`: the pointer rests on `end` only between store and wrap. Without it
  the types are not inductive, since a store there would pass `end`.
- `MutexInv`: a thread holds the mutex where its code does, so the snapshot a
  thread uses is its own.
- `SnapshotInv`: a snapshot lies between `read_ptr` and `write_ptr`; a
  pointer on `end` never meets one on `start`, which the code's subtraction
  would take for `N` unread entries.
- `FullInv`: outside the timer's window between store and mark, a full ring
  is marked full. Hence the record after an unmarked test has room.
- `WakeInv`: the count is never negative, positive before the decrement, and
  belongs to one waiter.

The arithmetic is in four lemmas: the code's test for a full ring is exact
also with `read_ptr` on `end`; a store lengthens the log by one; moving
`read_ptr` to a place between the pointers shortens it by what was taken; the
length is in `0..N-1`.

**DsplogStreamProofs**: `StreamTypeOK`, `ReadsInOrder`, `FlushComplete`,
`CopyUndisturbed`, and `StreamSpec => RefinesBoundedLog`. `DataInv`: the entry
`k` places behind `read_ptr` is record `fetched + k`, up to `stored`, and a
snapshot of the pointer is one of `stored`. `FlushInv`: what a STOP found
stored is behind every later snapshot. `ViewInv` turns this into sequences: a
store appends to `Unread`, a move drops a prefix.

**DsplogRegistryProofs**: `RegistryTypeOK`, `TimerServesAll`,
`NoDanglingContext`, `OwnerCanRelease`, `OwnershipKept`. `QueueInv`, one
instance for a core, bounds the queue by `UCODE_CORE_NUM` and makes a queue of
that length hold every core (an injection between finite sets of one size).
`ContextInv` and `WalkInv` say where contexts and walks of `release()` point;
`HoldInv`, that without a shared context an instance has one holder, the owner
or the `release()` that is giving it up.

**DsplogSystemProofs**: the composition implements both its parts
(`SystemIsCapture`, `SystemIsRegistry`), so the theorems about them hold in
it; and `SystemTypeOK`, `CallbackHasInstances`, `OnlyOwnerConsumes` and
`NoForeignRecords`. `FileInv`: contexts of open files point into the queue.
`UserInv`: an open file that points to the instance owns it or has lost it,
and only such a file is in a system call. `ForeignInv`: the foreign records
are among the unread and among those that a snapshot covers, so START's move
flushes them all. `ServeInv`: while the timer runs, or its callback has not
ended, every core has its instance; it needs `OneEach`, the counting argument
of the registry, for a queue as long as there are cores holds them all only if
no core is there twice. `PlaceInv`: contexts and walks of `release()` stay
within the queue.

**DsplogModuleProofs**: `NothingLeft`, `GoesCleanly`, and the refinement of
`DsplogRegistry`, by which `TimerServesAll` and `OwnerCanRelease` are carried
over to every load and unload. `HeldInv`: on the way in the resources up to the
one `mod` names are held; on the way out those that `todo` lists, which are
always the first few of `Resources`, in reverse.
`ListInv`: no instances before the list. `CleanInv`: without an early open
nobody uses a module that is not live.

**DsplogScanProofs**: `ScanTypeOK`, `TakenInOrder`, `TakenWithoutGap`,
`RecordsOnly`. `MemInv`: a core's buffer holds its last records, each in its
slot. `WalkInv`: the slot ahead comes after the last record taken, whatever the
sequence numbers say; when the walk has caught up, the number compared is that
record's, or the slot ahead is clear. `NumberInv`: before the numbers wrap the
timer does not believe they have. So the slot ahead holds the next record or
one whole laps newer (`AheadIsNew`), or, when the walk has caught up, one a lap
older, whose number is smaller by `Slots - 1` unless there is a wrap between
(`AheadIsStale`).

**DsplogPowerProofs**: `PowerTypeOK`, `WalkInMemory`, `SnapshotInMemory`,
`SuspendStops`, `FromTheFirst`. `RegionInv`: the region ends in the memory
except between the two stores of `dsp_init_logbuf`, size first. `WalkInv`: the
place is in the memory wherever the callback may begin with a record.
`LateInv` and `FlagInv`: one record at most was in progress when the flag was
set. `FromTheFirst` rests on `FirstInv`: `LogInv` and `WholeInv`, which records
the log memory holds of the DSP's present life; `AtRecord`, where place,
register, number compared and last record stand to each other at each access
of the callback; `Emptied` and `RestartInv`, that suspend and recovery leave a
walk that begins at record 1. All of it `Undisturbed` only, that is where no
record was torn or overrun and the instance has its own region.

Only model-checked is liveness, since fairness is out of the prover's reach:
`ReaderWoken`, `StopReturns`, `CloseFrees`, `CallbackEndsUnlessWrapped`,
`CatchesUp`, `CatchesUpAgain`. Every other property of the passing runs is a theorem.

## 6. Not modelled

- The vendored headers under `src/include` other than `dsplog_drv.h` and
  `dsplog_api.h`: they declare interfaces of other drivers and hold no
  behaviour of this one. The driver's two source files are about a seventh of
  the lines under `src`, and nearly all of their state changes are modelled.
- Weak memory ordering: `write_ptr` is published without a barrier (355); the
  models are sequentially consistent. A record torn inside, while the DSP
  writes it: in the models a record appears in one step.
- A START between the callback's reading and writing of `curr_seq_num` (see
  DsplogScan); numbers that wrap within one life of the DSP in DsplogPower.
- `SET_LOG_LEVEL`, `GET_LOG_LEVEL` and `PARSE_LOG` are empty functions.
  Messages, and the sequence number check that only prints (436-443).

## 7. Plan

All components of the driver have a model, and every safety and action
property of the runs is proved. Left:

1. The scan with its accesses one by one against START, as in DsplogPower
   against suspend.
2. A record's whole way, from the DSP's slot through the ring to the user, as
   one composition of DsplogScan and DsplogStream.
