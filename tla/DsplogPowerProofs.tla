-------------------------- MODULE DsplogPowerProofs --------------------------
(***************************************************************************)
(* Suspend against the running callback, for every number of cores, size   *)
(* of a region, number of records and number of suspends.                  *)
(***************************************************************************)
EXTENDS DsplogPower, SlotArithmetic, TLAPS

----------------------------------------------------------------------------
(* The inductive invariant.                                                *)

\* The region ends in the log memory, except between the two stores of
\* dsp_init_logbuf that give the whole memory, size first.
RegionInv ==
  /\ power # "base" => dsppf_base + dsplog_buf_size <= MemSize
  /\ power = "size" => dsppf_base = 0

\* dsp_suspended is set from its store in dsplog_suspend to dsplog_resume.
FlagInv == dsp_suspended = 1 <=> power \notin {"on", "other first", "flag"}

\* The place is in the log memory when the callback is with a record, and
\* whenever it may begin with one.
WalkInv ==
  /\ tpc \in {"judge", "seq", "empty", "take", "load"} => dsppf_current < MemSize
  /\ tpc = "rewind" => next_ptr < MemSize
  /\ tpc \in {"idle", "test"}
       /\ (dsp_suspended = 0 \/ power \in {"seq", "clear", "other last", "off"})
     => dsppf_current < MemSize

LateInv ==
  /\ late \in {0, 1}
  /\ dsp_suspended = 0 => late = 0
  /\ tpc \in {"judge", "seq", "empty", "take"} => late = 0

PowerInv ==
  PowerTypeOK /\ RegionInv /\ FlagInv /\ WalkInv /\ LateInv /\ SnapshotInMemory

(* What the callback knows of its core's records.                          *)

\* The slot of a core's record n + 1, and what curr_seq_num is after record n.
Place(c, n) == c * Slots + (n % Slots)
NumAfter(n) == IF n = 0 THEN 0 ELSE n - 1

\* The core's own part of the memory holds its last records, each in its
\* slot, and is clear ahead of them in the first lap.
LogMem ==
  /\ \A k \in 1..written[own] : written[own] < k + Slots => mem[Place(own, k - 1)] = <<own, k>>
  /\ \A s \in written[own]..(Slots - 1) : mem[Place(own, s)] = Cleared

LogInv ==
  /\ power \in {"on", "off", "other first", "other last"} => LogMem
  /\ power = "other last" => written[own] = 0

\* From the two stores of dsp_init_logbuf on, the region is the whole memory.
WholeInv ==
  /\ power \in {"place", "seq", "clear", "other last", "off"} => dsppf_base = 0
  /\ power \in {"base", "place", "seq", "clear", "other last", "off"} => dsplog_buf_size = MemSize

\* Unless suspend tore a record, the callback is with none until resume, and
\* suspend's stores stand.
RestartInv ==
  torn = FALSE =>
    /\ power \notin {"on", "other first", "flag"} => tpc \in {"idle", "test"}
    /\ power \in {"seq", "clear", "other last"} => dsppf_current = dsppf_base /\ last = 0
    /\ power \in {"clear", "other last"} => curr_seq_num = 0

Undisturbed == OwnRegion /\ torn = FALSE /\ collided = FALSE

\* The place is that of the record after the last one taken, or on the way
\* to it; the number is that of the last one taken, and from the callback's
\* noting it on that of the record ahead.
AtRecord ==
  /\ last <= written[own] /\ written[own] <= last + Slots
  /\ tpc \in {"idle", "test", "judge", "seq", "empty", "take"} => dsppf_current = Place(own, last)
  /\ tpc \in {"load", "store", "wrap", "rewind"} => last > 0
  /\ tpc \in {"load", "store"} => dsppf_current = Place(own, last - 1)
  /\ tpc = "store" => next_ptr = Place(own, last - 1) + 1
  /\ tpc = "wrap" => dsppf_current = Place(own, last - 1) + 1
  /\ tpc = "rewind" => next_ptr = Place(own, last)
  /\ tpc \notin {"empty", "take"} => curr_seq_num = NumAfter(last)
  /\ tpc = "seq" => written[own] > last \/ (Here = Cleared /\ NumAfter(last) = 0)
  /\ tpc = "empty" =>
       \/ written[own] > last /\ curr_seq_num = last
       \/ Here = Cleared /\ curr_seq_num = 0 /\ NumAfter(last) = 0
  /\ tpc = "take" => written[own] > last /\ curr_seq_num = last

\* Another instance has cleared the memory before suspend came to this one:
\* the callback finds nothing.
Emptied ==
  /\ mem = ClearedMem
  /\ tpc \in {"idle", "test", "judge", "seq", "empty"}
  /\ tpc \in {"seq", "empty"} => curr_seq_num = 0

FirstInv ==
  /\ LogInv /\ WholeInv /\ RestartInv
  /\ Undisturbed =>
       /\ power \in {"on", "off", "other first"} => AtRecord
       /\ power = "flag" => (LogMem /\ AtRecord) \/ Emptied

----------------------------------------------------------------------------
(* The log memory.                                                         *)

\* A core's region lies in the log memory of all cores.
LEMMA RegionInMemory ==
  ASSUME cores \in CoreNums, own \in CoreSet
  PROVE  /\ cores \in Nat /\ Slots \in Nat /\ Slots > 0 /\ MaxRecords \in Nat
         /\ own * Slots \in Nat /\ MemSize \in Nat
         /\ own * Slots + Slots <= MemSize /\ Slots <= MemSize
<1>1. cores \in Nat \ {0} /\ Slots \in Nat \ {0} /\ MaxRecords \in Nat /\ own \in 0..(cores - 1)
  BY PowerAssumption DEF CoreSet
<1>2. PICK k \in Nat : cores = own + 1 + k
  <2>1. cores - own - 1 \in Nat /\ cores = own + 1 + (cores - own - 1)
    BY <1>1
  <2> QED
    BY <2>1
<1>3. cores * Slots = own * Slots + Slots + k * Slots
  BY <1>1, <1>2
<1>4. \A n \in Nat : n * Slots \in Nat
  BY <1>1
<1>5. own * Slots \in Nat /\ k * Slots \in Nat /\ cores * Slots \in Nat
  BY <1>1, <1>2, <1>4
<1>6. own * Slots + Slots <= cores * Slots
  BY <1>1, <1>3, <1>5
<1> QED
  BY <1>1, <1>5, <1>6 DEF MemSize

\* The configuration never changes.
LEMMA MemoryStays ==
  ASSUME UNCHANGED configVars
  PROVE  /\ cores' = cores /\ own' = own
         /\ MemSize' = MemSize /\ CoreSet' = CoreSet /\ (own * Slots)' = own * Slots
  BY DEF configVars, MemSize, CoreSet

\* The cleared memory is a memory.
LEMMA ClearedIsMemory ==
  ClearedMem \in [0..(MemSize - 1) -> {Cleared} \union (CoreSet \X (1..MaxRecords))]
  BY DEF ClearedMem

\* What the callback reads from a slot of the memory.
LEMMA RecordRead ==
  ASSUME PowerTypeOK, dsppf_current < MemSize
  PROVE  SeqNumOf(Here) \in 0..MaxRecords /\ Here[2] \in 0..MaxRecords
<1>1. MemSize \in Nat /\ MaxRecords \in Nat
  BY RegionInMemory DEF PowerTypeOK
<1>2. mem[dsppf_current] \in {Cleared} \union (CoreSet \X (1..MaxRecords))
  <2>1. mem \in [0..(MemSize - 1) -> {Cleared} \union (CoreSet \X (1..MaxRecords))]
    BY DEF PowerTypeOK
  <2>2. dsppf_current \in 0..MemSize
    BY DEF PowerTypeOK
  <2>3. dsppf_current \in 0..(MemSize - 1)
    BY <1>1, <2>2
  <2> QED
    BY <2>1, <2>3
<1> QED
  BY <1>1, <1>2 DEF Here, SeqNumOf, Cleared

\* The types of what the callback works with.
PlacesInv ==
  /\ MemSize \in Nat /\ dsppf_base \in 0..(MemSize - 1) /\ dsplog_buf_size \in Nat
  /\ dsppf_current \in 0..MemSize /\ next_ptr \in 0..MemSize
  /\ curr_seq_num \in 0..MaxRecords /\ last \in 0..MaxRecords /\ dsp_suspended \in {0, 1}

LEMMA WalkTypes == PowerTypeOK => PlacesInv
<1> SUFFICES ASSUME PowerTypeOK PROVE PlacesInv
  OBVIOUS
<1>1. /\ MemSize \in Nat /\ Slots \in Nat /\ Slots > 0
      /\ own * Slots \in Nat /\ own * Slots + Slots <= MemSize
  BY RegionInMemory DEF PowerTypeOK
<1>2. dsppf_base \in {0, own * Slots} /\ dsplog_buf_size \in {Slots, MemSize}
  BY DEF PowerTypeOK
<1>3. dsppf_base \in 0..(MemSize - 1) /\ dsplog_buf_size \in Nat
  BY <1>1, <1>2
<1> QED
  BY <1>1, <1>3 DEF PowerTypeOK, PlacesInv

----------------------------------------------------------------------------
(* The steps.                                                              *)

\* The callback with one record.
LEMMA TimerStep == PowerInv /\ Timer => PowerInv'
<1> SUFFICES ASSUME PowerInv, Timer PROVE PowerInv'
  OBVIOUS
<1> USE DEF PowerInv
<1>1. UNCHANGED <<configVars, dspVars, regionVars, dsp_suspended, timer_armed, power, lives, userVars,
                  torn>>
  BY DEF Timer, Callback, Tick, TestSuspended, Judge, NoteSeqNum, TestEmpty, TakeRecord, LoadPlace,
         StorePlace, TestWrap, Rewind
<1>2. /\ cores' = cores /\ own' = own
      /\ MemSize' = MemSize /\ CoreSet' = CoreSet /\ (own * Slots)' = own * Slots
  BY <1>1, MemoryStays DEF configVars
<1>3. /\ MemSize \in Nat /\ MaxRecords \in Nat /\ Slots \in Nat /\ Slots > 0
      /\ own * Slots \in Nat /\ own * Slots + Slots <= MemSize
  BY RegionInMemory DEF PowerTypeOK
<1>4. RegionInv' /\ FlagInv' /\ SnapshotInMemory'
  BY <1>1, <1>2 DEF RegionInv, FlagInv, SnapshotInMemory, regionVars, userVars
<1>5. PlacesInv
  BY WalkTypes DEF PlacesInv
<1>6. /\ tpc' \in {"idle", "test", "judge", "seq", "empty", "take", "load", "store", "wrap", "rewind"}
      /\ dsppf_current' \in 0..MemSize /\ next_ptr' \in 0..MemSize
      /\ curr_seq_num' \in 0..MaxRecords /\ last' \in 0..MaxRecords
      /\ WalkInv' /\ LateInv'
  <2> USE DEF Callback, Keep, walkVars
  <2>0. dsp_suspended' = dsp_suspended /\ power' = power
    BY <1>1
  <2>1. CASE Tick \/ TestSuspended
    BY <1>2, <1>5, <2>0, <2>1 DEF Tick, TestSuspended, WalkInv, LateInv, PlacesInv
  <2>2. CASE Judge \/ TestEmpty
    BY <1>2, <1>5, <2>0, <2>2 DEF Judge, TestEmpty, WalkInv, LateInv, PlacesInv
  <2>3. CASE NoteSeqNum
    <3>1. SeqNumOf(Here) \in 0..MaxRecords
      BY <2>3, RecordRead DEF NoteSeqNum, WalkInv
    <3> QED
      BY <1>2, <1>5, <2>0, <2>3, <3>1 DEF NoteSeqNum, WalkInv, LateInv, PlacesInv
  <2>4. CASE TakeRecord
    <3>1. Here[2] \in 0..MaxRecords
      BY <2>4, RecordRead DEF TakeRecord, WalkInv
    <3> QED
      BY <1>2, <1>5, <2>0, <2>4, <3>1 DEF TakeRecord, WalkInv, LateInv, PlacesInv
  <2>5. CASE LoadPlace
    BY <1>2, <1>5, <2>0, <2>5 DEF LoadPlace, WalkInv, LateInv, PlacesInv
  <2>6. CASE StorePlace
    BY <1>2, <1>5, <2>0, <2>6 DEF StorePlace, WalkInv, LateInv, PlacesInv
  <2>7. CASE TestWrap
    <3>1. ~ PastEnd /\ power # "base" => dsppf_current < MemSize
      BY <1>5 DEF PastEnd, RegionInv, PlacesInv
    <3>2. power = "base" => dsp_suspended = 1
      BY DEF FlagInv
    <3>3. next_ptr' \in 0..MemSize /\ (tpc' = "rewind" => next_ptr' < MemSize)
      BY <1>5, <2>7 DEF TestWrap, PlacesInv
    <3>4. tpc' \in {"test", "rewind"} /\ (tpc' = "test" => ~ PastEnd)
          /\ UNCHANGED <<dsppf_current, curr_seq_num, last, late>>
      BY <2>7 DEF TestWrap
    <3>5. WalkInv'
      <4>1. CASE tpc' = "rewind"
        BY <1>2, <3>3, <4>1 DEF WalkInv
      <4>2. CASE tpc' = "test"
        <5>1. dsp_suspended = 0 => dsppf_current < MemSize
          BY <1>5, <3>1, <3>2, <3>4, <4>2 DEF PlacesInv
        <5>2. power \in {"seq", "clear", "other last", "off"} => dsppf_current < MemSize
          BY <3>1, <3>4, <4>2
        <5> QED
          BY <1>2, <2>0, <3>4, <4>2, <5>1, <5>2 DEF WalkInv
      <4> QED
        BY <3>4, <4>1, <4>2
    <3>6. LateInv'
      BY <2>0, <3>4 DEF LateInv
    <3> QED
      BY <1>5, <3>3, <3>4, <3>5, <3>6 DEF PlacesInv
  <2>8. CASE Rewind
    <3>1. /\ tpc = "rewind" /\ tpc' = "test" /\ dsppf_current' = next_ptr /\ next_ptr' = 0
          /\ UNCHANGED <<curr_seq_num, last, late>>
      BY <2>8 DEF Rewind
    <3>2. next_ptr < MemSize
      BY <3>1 DEF WalkInv
    <3>3. WalkInv' /\ LateInv'
      BY <1>2, <1>5, <2>0, <3>1, <3>2 DEF WalkInv, LateInv, PlacesInv
    <3> QED
      BY <1>5, <3>1, <3>3 DEF PlacesInv
  <2> QED
    BY <2>1, <2>2, <2>3, <2>4, <2>5, <2>6, <2>7, <2>8 DEF Timer
<1>7. PowerTypeOK'
  <2>1. late' \in Nat
    BY <1>6 DEF LateInv
  <2> QED
    <3>1. UNCHANGED <<mem, written, collided, dsppf_base, dsplog_buf_size, dsp_suspended, power,
                     lives, dump_mem_snapshot, max_size, torn, timer_initialized,
                     timer_armed>>
      BY <1>1 DEF configVars, dspVars, regionVars, userVars
    <3>2. /\ cores' \in CoreNums /\ own' \in CoreSet'
          /\ mem' \in [0..(MemSize' - 1) -> {Cleared} \union (CoreSet' \X (1..MaxRecords))]
          /\ written' \in [CoreSet' -> 0..MaxRecords]
          /\ dsppf_base' \in {0, (own * Slots)'} /\ dsplog_buf_size' \in {Slots, MemSize'}
      BY <1>2, <3>1 DEF PowerTypeOK
    <3>3. /\ power' \in {"on", "off", "other first", "flag", "region", "size", "base", "place",
                         "seq", "clear", "other last"}
          /\ dsp_suspended' \in {0, 1} /\ lives' \in 0..MaxLives
          /\ dump_mem_snapshot' \in {0, 1} /\ max_size' \in {-1, Slots, MemSize'}
          /\ collided' \in BOOLEAN /\ torn' \in BOOLEAN
          /\ timer_initialized' \in {0, 1} /\ timer_armed' \in BOOLEAN
      BY <1>2, <3>1 DEF PowerTypeOK
    <3> QED
      BY <1>2, <1>6, <2>1, <3>2, <3>3 DEF PowerTypeOK
<1> QED
  BY <1>4, <1>6, <1>7

\* The parts of the invariant a step keeps when it leaves the walk alone.
LEMMA WalkStays ==
  ASSUME PowerInv,
         UNCHANGED <<configVars, walkVars, timerVars, dsp_suspended, power, late>>
  PROVE  /\ FlagInv' /\ WalkInv' /\ LateInv'
         /\ UNCHANGED regionVars => RegionInv'
<1>1. MemSize' = MemSize
  BY MemoryStays DEF configVars
<1> QED
  BY <1>1 DEF PowerInv, FlagInv, WalkInv, LateInv, RegionInv, walkVars, timerVars, regionVars

\* The types of what a step leaves alone.
LEMMA TypesStay ==
  ASSUME PowerTypeOK, UNCHANGED configVars
  PROVE  /\ cores' \in CoreNums /\ own' \in CoreSet'
         /\ UNCHANGED mem =>
              mem' \in [0..(MemSize' - 1) -> {Cleared} \union (CoreSet' \X (1..MaxRecords))]
         /\ UNCHANGED written => written' \in [CoreSet' -> 0..MaxRecords]
         /\ UNCHANGED dsppf_base => dsppf_base' \in {0, (own * Slots)'}
         /\ UNCHANGED dsplog_buf_size => dsplog_buf_size' \in {Slots, MemSize'}
         /\ UNCHANGED dsppf_current => dsppf_current' \in 0..MemSize'
         /\ UNCHANGED next_ptr => next_ptr' \in 0..MemSize'
         /\ UNCHANGED max_size => max_size' \in {-1, Slots, MemSize'}
         /\ timer_initialized' \in {0, 1}
         /\ UNCHANGED timer_armed => timer_armed' \in BOOLEAN
<1>1. /\ cores' = cores /\ own' = own
      /\ MemSize' = MemSize /\ CoreSet' = CoreSet /\ (own * Slots)' = own * Slots
  BY MemoryStays
<1> QED
  BY <1>1 DEF PowerTypeOK, configVars

\* A record of the DSP.
LEMMA WriteStep ==
  ASSUME PowerInv, NEW c \in CoreSet, DspWrite(c)
  PROVE  PowerInv'
<1> USE DEF PowerInv
<1>1. PICK slot : mem' = [mem EXCEPT ![slot] = <<c, written[c] + 1>>]
  BY DEF DspWrite
<1>2. /\ written[c] < MaxRecords /\ written' = [written EXCEPT ![c] = @ + 1]
      /\ collided' \in BOOLEAN
      /\ UNCHANGED <<configVars, regionVars, walkVars, dsp_suspended, timer_armed, timerVars, power,
                     lives, userVars, last, late, torn>>
  BY DEF DspWrite, PowerTypeOK
<1>3. CoreSet' = CoreSet /\ MemSize' = MemSize
  BY <1>2, MemoryStays
<1>4. written \in [CoreSet -> 0..MaxRecords] /\ MaxRecords \in Nat
  BY PowerAssumption DEF PowerTypeOK
<1>5. written[c] + 1 \in 1..MaxRecords
  BY <1>2, <1>4
<1>6. mem \in [0..(MemSize - 1) -> {Cleared} \union (CoreSet \X (1..MaxRecords))]
  BY DEF PowerTypeOK
<1>7. mem' \in [0..(MemSize' - 1) -> {Cleared} \union (CoreSet' \X (1..MaxRecords))]
  BY <1>1, <1>3, <1>5, <1>6
<1>8. written' \in [CoreSet' -> 0..MaxRecords]
  BY <1>2, <1>3, <1>4, <1>5
<1>9. PowerTypeOK'
  <2>1. UNCHANGED <<dsppf_base, dsplog_buf_size, dsppf_current, next_ptr, max_size>>
    BY <1>2 DEF regionVars, walkVars, timerVars, userVars
  <2>2. UNCHANGED <<curr_seq_num, dsp_suspended, tpc, power, lives, dump_mem_snapshot, last, late,
                    torn>>
    BY <1>2 DEF walkVars, timerVars, userVars
  <2>3. /\ cores' \in CoreNums /\ own' \in CoreSet'
        /\ dsppf_base' \in {0, (own * Slots)'} /\ dsplog_buf_size' \in {Slots, MemSize'}
        /\ dsppf_current' \in 0..MemSize' /\ next_ptr' \in 0..MemSize'
        /\ max_size' \in {-1, Slots, MemSize'}
        /\ timer_initialized' \in {0, 1} /\ timer_armed' \in BOOLEAN
    BY <1>2, <2>1, TypesStay
  <2> QED
    BY <1>2, <1>7, <1>8, <2>2, <2>3 DEF PowerTypeOK
<1>10. FlagInv' /\ WalkInv' /\ LateInv' /\ RegionInv'
  BY <1>2, WalkStays
<1>11. SnapshotInMemory'
  BY <1>2, <1>3 DEF SnapshotInMemory, regionVars, userVars
<1> QED
  BY <1>9, <1>10, <1>11

\* The ioctls and the read() of a snapshot.
LEMMA UserStep ==
  ASSUME PowerInv, DumpMemorySnapshot \/ SnapshotCheck \/ SnapshotCopy
  PROVE  PowerInv'
<1> USE DEF PowerInv
<1>1. User
  BY DEF DumpMemorySnapshot, SnapshotCheck, SnapshotCopy
<1>2. FlagInv' /\ WalkInv' /\ LateInv' /\ RegionInv'
  BY <1>1, WalkStays DEF User
<1>3. MemSize' = MemSize /\ UNCHANGED <<dsppf_base, dsplog_buf_size, power>>
  BY <1>1, MemoryStays DEF User, regionVars
<1>4. dsplog_buf_size \in {Slots, MemSize}
      /\ max_size \in {-1, Slots, MemSize} /\ dump_mem_snapshot \in {0, 1}
  BY DEF PowerTypeOK
<1>5. dump_mem_snapshot' \in {0, 1}
  BY <1>3, <1>4 DEF DumpMemorySnapshot, SnapshotCheck, SnapshotCopy, User
<1>6. max_size' \in {max_size, -1, dsplog_buf_size}
  BY DEF DumpMemorySnapshot, SnapshotCheck, SnapshotCopy, Fits
<1>7. max_size' \in {-1, Slots, MemSize'}
  BY <1>3, <1>4, <1>6
<1>8. PowerTypeOK'
  <2>1. UNCHANGED <<configVars, mem, written, dsppf_base, dsplog_buf_size, dsppf_current, next_ptr,
                  timer_armed>>
    BY <1>1 DEF User, dspVars, regionVars, walkVars, timerVars
  <2>2. UNCHANGED <<collided, curr_seq_num, dsp_suspended, tpc, power, lives, last, late, torn>>
    BY <1>1 DEF User, dspVars, walkVars, timerVars
  <2>3. /\ cores' \in CoreNums /\ own' \in CoreSet'
        /\ mem' \in [0..(MemSize' - 1) -> {Cleared} \union (CoreSet' \X (1..MaxRecords))]
        /\ written' \in [CoreSet' -> 0..MaxRecords]
        /\ dsppf_base' \in {0, (own * Slots)'} /\ dsplog_buf_size' \in {Slots, MemSize'}
        /\ dsppf_current' \in 0..MemSize' /\ next_ptr' \in 0..MemSize'
        /\ timer_initialized' \in {0, 1} /\ timer_armed' \in BOOLEAN
    BY <2>1, TypesStay
  <2> QED
    BY <1>5, <1>7, <2>2, <2>3 DEF PowerTypeOK
<1>9. SnapshotInMemory'
  BY <1>3, <1>6 DEF SnapshotInMemory, RegionInv
<1> QED
  BY <1>2, <1>8, <1>9

\* Suspend sets its flag, stores the place, the sequence number or cleared
\* memory, or goes on; the region stays.
LEMMA SuspendStepOne ==
  ASSUME PowerInv,
         SuspendOther \/ SuspendBegin \/ SuspendFlag \/ SuspendPlace \/ SuspendSeqNum \/ SuspendClear
  PROVE  PowerInv'
<1> USE DEF PowerInv
<1>1. /\ UNCHANGED <<configVars, regionVars, timer_armed, timerVars, userVars>>
      /\ lives' = lives \/ (lives < MaxLives /\ lives' = lives + 1)
  BY DEF SuspendOther, SuspendBegin, SuspendFlag, SuspendPlace, SuspendSeqNum, SuspendClear, Suspend
<1>2. /\ cores' = cores /\ own' = own
      /\ MemSize' = MemSize /\ CoreSet' = CoreSet /\ (own * Slots)' = own * Slots
  BY <1>1, MemoryStays
<1>3. PlacesInv /\ MaxRecords \in Nat
  BY WalkTypes, PowerAssumption
<1>4. /\ mem' \in [0..(MemSize' - 1) -> {Cleared} \union (CoreSet' \X (1..MaxRecords))]
      /\ written' \in [CoreSet' -> 0..MaxRecords]
      /\ collided' \in BOOLEAN /\ torn' \in BOOLEAN /\ lives' \in 0..MaxLives
  <2>1. mem' \in {mem, ClearedMem} /\ written' \in {written, [c \in CoreSet |-> 0]}
        /\ collided' \in {collided, FALSE} /\ torn' \in {torn, InRecord, torn \/ InRecord}
    BY DEF SuspendOther, SuspendBegin, SuspendFlag, SuspendPlace, SuspendSeqNum, SuspendClear, dspVars
  <2>2. /\ mem \in [0..(MemSize - 1) -> {Cleared} \union (CoreSet \X (1..MaxRecords))]
        /\ written \in [CoreSet -> 0..MaxRecords]
        /\ collided \in BOOLEAN /\ torn \in BOOLEAN
        /\ lives \in 0..MaxLives /\ MaxLives \in Nat
    BY PowerAssumption DEF PowerTypeOK
  <2>3. [c \in CoreSet |-> 0] \in [CoreSet -> 0..MaxRecords] /\ InRecord \in BOOLEAN
    BY <1>3 DEF InRecord
  <2>4. lives' \in 0..MaxLives
    BY <1>1, <2>2
  <2>5. collided' \in BOOLEAN /\ torn' \in BOOLEAN
    BY <2>1, <2>2, <2>3
  <2>6. mem' \in [0..(MemSize' - 1) -> {Cleared} \union (CoreSet' \X (1..MaxRecords))]
    BY <1>2, <2>1, <2>2, ClearedIsMemory
  <2> QED
    BY <1>2, <2>1, <2>2, <2>3, <2>4, <2>5, <2>6
<1>5. /\ power' \in {"on", "off", "other first", "flag", "region", "size", "base", "place", "seq",
                     "clear", "other last"}
      /\ power' \notin {"base", "size"}
      /\ power # "base"
      /\ dsp_suspended' \in {0, 1}
  BY <1>3 DEF SuspendOther, SuspendBegin, SuspendFlag, SuspendPlace, SuspendSeqNum, SuspendClear,
     Suspend, PlacesInv
<1>6. /\ dsppf_current' \in {dsppf_current, dsppf_base} /\ curr_seq_num' \in {curr_seq_num, 0}
      /\ last' \in {last, 0} /\ late' = late
  BY DEF SuspendOther, SuspendBegin, SuspendFlag, SuspendPlace, SuspendSeqNum, SuspendClear, walkVars
<1>7. PowerTypeOK'
  <2>1. /\ dsppf_current' \in 0..MemSize' /\ curr_seq_num' \in 0..MaxRecords
        /\ last' \in 0..MaxRecords /\ late' \in Nat
    BY <1>2, <1>3, <1>6 DEF PlacesInv, LateInv
  <2>2. UNCHANGED <<dsppf_base, dsplog_buf_size, tpc, next_ptr, dump_mem_snapshot, max_size>>
    BY <1>1 DEF regionVars, timerVars, userVars
  <2> QED
    BY <1>1, <1>4, <1>5, <2>1, <2>2, TypesStay DEF PowerTypeOK
<1>8. RegionInv' /\ SnapshotInMemory'
  BY <1>1, <1>2, <1>5 DEF RegionInv, SnapshotInMemory, regionVars, userVars
<1>9. FlagInv'
  BY <1>3 DEF FlagInv, SuspendOther, SuspendBegin, SuspendFlag, SuspendPlace, SuspendSeqNum,
     SuspendClear, Suspend, PlacesInv
<1>10. LateInv'
  <2>1. dsp_suspended' = 0 => dsp_suspended = 0
    BY <1>3 DEF SuspendOther, SuspendBegin, SuspendFlag, SuspendPlace, SuspendSeqNum, SuspendClear,
       PlacesInv
  <2> QED
    BY <1>1, <1>6, <2>1 DEF LateInv, timerVars
<1>11. WalkInv'
  <2> USE <1>1, <1>2, <1>3 DEF PlacesInv, timerVars
  <2>1. CASE SuspendBegin \/ SuspendFlag
    BY <2>1 DEF WalkInv, FlagInv, SuspendBegin, SuspendFlag, Suspend, walkVars
  <2>2. CASE SuspendPlace
    BY <2>2 DEF WalkInv, SuspendPlace, Suspend
  <2>3. CASE SuspendSeqNum
    BY <2>3 DEF WalkInv, SuspendSeqNum, Suspend
  <2>4. CASE SuspendClear
    BY <2>4 DEF WalkInv, SuspendClear, Suspend, walkVars
  <2>5. CASE SuspendOther
    BY <2>5 DEF WalkInv, SuspendOther, Suspend, walkVars
  <2> QED
    BY <2>1, <2>2, <2>3, <2>4, <2>5
<1> QED
  BY <1>7, <1>8, <1>9, <1>10, <1>11

\* dsp_init_logbuf gives the instance the whole memory.
LEMMA RegionStep ==
  ASSUME PowerInv, SuspendRegion
  PROVE  PowerInv'
<1> USE DEF PowerInv
<1>1. UNCHANGED <<configVars, timer_armed, timerVars, userVars, lives, dspVars, walkVars,
                  dsp_suspended, last, late, torn>>
  BY DEF SuspendRegion, Suspend
<1>2. MemSize' = MemSize /\ (own * Slots)' = own * Slots
  BY <1>1, MemoryStays
<1>3. PlacesInv /\ MemSize \in Nat /\ Slots \in Nat /\ Slots <= MemSize
  BY WalkTypes, RegionInMemory DEF PowerTypeOK
<1>4. /\ power \in {"region", "size", "base"} /\ power' \in {"size", "place", "base"}
      /\ dsppf_base' \in {dsppf_base, 0} /\ dsplog_buf_size' \in {dsplog_buf_size, MemSize}
      /\ power' # "base" => dsppf_base' = 0
      /\ power' = "base" => power = "region"
  BY DEF SuspendRegion, Suspend, WholeBase, WholeSize, RegionInv
<1>5. dsppf_base \in {0, own * Slots} /\ dsplog_buf_size \in {Slots, MemSize}
      /\ max_size \in {-1, Slots, MemSize}
  BY DEF PowerTypeOK
<1>6. dsppf_base' \in {0, (own * Slots)'} /\ dsplog_buf_size' \in {Slots, MemSize'}
  BY <1>2, <1>4, <1>5
<1>7. PowerTypeOK'
  BY <1>1, <1>4, <1>6, TypesStay DEF PowerTypeOK, timerVars, userVars, dspVars, walkVars
<1>8. RegionInv' /\ SnapshotInMemory'
  <2>1. MemSize \in Int /\ Slots \in Int /\ Slots <= MemSize /\ max_size' = max_size
    BY <1>1, <1>3 DEF userVars
  <2>2. dsplog_buf_size' <= MemSize' /\ dsplog_buf_size' \in Int /\ (max_size # -1 => max_size <= MemSize)
    BY <1>2, <1>4, <1>5, <2>1
  <2>3. max_size \in Int
    BY <1>5, <2>1
  <2> QED
    BY <1>2, <1>4, <2>1, <2>2, <2>3 DEF RegionInv, SnapshotInMemory
<1>9. FlagInv'
  BY <1>1, <1>4 DEF FlagInv
<1>10. WalkInv' /\ LateInv'
  BY <1>1, <1>2, <1>4 DEF WalkInv, LateInv, timerVars, walkVars
<1> QED
  BY <1>7, <1>8, <1>9, <1>10

\* dsplog_resume, and the reset of a hung DSP.
LEMMA RestartStep ==
  ASSUME PowerInv, Resume \/ Reset
  PROVE  PowerInv'
<1> USE DEF PowerInv
<1>1. UNCHANGED <<configVars, timerVars, userVars>> /\ tpc = "idle" /\ tpc' = "idle"
  BY DEF Resume, Reset, timerVars, TimerQuiet
<1>2. /\ MemSize' = MemSize /\ CoreSet' = CoreSet /\ (own * Slots)' = own * Slots
  BY <1>1, MemoryStays
<1>3. PlacesInv /\ MaxRecords \in Nat /\ MaxLives \in Nat
  BY WalkTypes, PowerAssumption
<1>4. MemSize \in Nat /\ max_size \in {-1, Slots, MemSize} /\ Slots \in Nat /\ Slots <= MemSize
  BY RegionInMemory DEF PowerTypeOK
<1>5. CASE Resume
  <2>1. power' = "on" /\ dsp_suspended' = 0 /\ late' = 0 /\ dsppf_base' = 0
        /\ dsplog_buf_size' = MemSize /\ power = "off"
        /\ UNCHANGED <<dspVars, walkVars, timer_armed, lives, last, torn>>
    BY <1>5 DEF Resume
  <2>2. PowerTypeOK'
    BY <1>1, <1>2, <2>1, TypesStay DEF PowerTypeOK, timerVars, userVars, dspVars, walkVars
  <2>3. RegionInv' /\ FlagInv' /\ WalkInv' /\ LateInv'
    BY <1>1, <1>2, <1>3, <1>4, <2>1 DEF RegionInv, FlagInv, WalkInv, LateInv, walkVars
  <2>4. SnapshotInMemory'
    BY <1>1, <1>2, <1>4, <2>1 DEF SnapshotInMemory, userVars
  <2> QED
    BY <2>2, <2>3, <2>4
<1>6. CASE Reset
  <2>1. power = "on" /\ dsppf_current' = dsppf_base /\ curr_seq_num' = 0 /\ mem' = ClearedMem
        /\ written' = [c \in CoreSet |-> 0] /\ collided' = FALSE /\ last' = 0 /\ torn' = FALSE
        /\ lives < MaxLives /\ lives' = lives + 1
        /\ UNCHANGED <<regionVars, dsp_suspended, power, late>>
        /\ timer_armed' \in BOOLEAN
    BY <1>6 DEF Reset, Rearm
  <2>2. /\ mem' \in [0..(MemSize' - 1) -> {Cleared} \union (CoreSet' \X (1..MaxRecords))]
        /\ written' \in [CoreSet' -> 0..MaxRecords]
        /\ dsppf_current' \in 0..MemSize' /\ lives' \in 0..MaxLives
    BY <1>2, <1>3, <2>1, ClearedIsMemory DEF PlacesInv, PowerTypeOK
  <2>3. PowerTypeOK'
    BY <1>1, <1>3, <2>1, <2>2, TypesStay DEF PowerTypeOK, timerVars, userVars, regionVars
  <2>4. RegionInv' /\ FlagInv' /\ WalkInv' /\ LateInv' /\ SnapshotInMemory'
    BY <1>1, <1>2, <1>3, <2>1
       DEF RegionInv, FlagInv, WalkInv, LateInv, SnapshotInMemory, PlacesInv, regionVars, userVars
  <2> QED
    BY <2>3, <2>4
<1> QED
  BY <1>5, <1>6

----------------------------------------------------------------------------
(* Places and records of the core.                                         *)

\* The numbers the places are computed with.
LEMMA PlaceTypes ==
  ASSUME PowerTypeOK
  PROVE  /\ Slots \in Nat \ {0} /\ Slots > 1 /\ own \in Nat /\ MemSize \in Nat
         /\ own * Slots \in Nat /\ own * Slots + Slots <= MemSize
         /\ last \in Nat /\ written[own] \in Nat /\ own \in CoreSet
<1>1. Slots \in Nat \ {0} /\ Slots > 1 /\ MaxRecords \in Nat
  BY PowerAssumption
<1>2. cores \in CoreNums /\ own \in CoreSet
  BY DEF PowerTypeOK
<1>3. own \in Nat
  BY <1>2 DEF CoreSet
<1>4. written \in [CoreSet -> 0..MaxRecords] /\ last \in 0..MaxRecords
  BY DEF PowerTypeOK
<1>5. written[own] \in 0..MaxRecords
  BY <1>2, <1>4
<1>6. own * Slots \in Nat /\ MemSize \in Nat /\ own * Slots + Slots <= MemSize
  BY <1>2, RegionInMemory
<1> QED
  BY <1>1, <1>2, <1>3, <1>4, <1>5, <1>6

\* The places of a core are the slots of its part of the memory.
LEMMA OwnPlaces ==
  ASSUME PowerTypeOK, NEW n \in Nat
  PROVE  /\ Place(own, n) \in 0..(MemSize - 1)
         /\ Place(own, n) = own * Slots + (n % Slots) /\ n % Slots \in 0..(Slots - 1)
<1>1. own * Slots \in Nat /\ own * Slots + Slots <= MemSize /\ Slots \in Nat \ {0} /\ MemSize \in Nat
  BY PlaceTypes
<1>2. n % Slots \in 0..(Slots - 1)
  BY <1>1, ModRange
<1> QED
  BY <1>1, <1>2 DEF Place

\* Two records of a core less than a lap apart are in different slots.
LEMMA PlacesDiffer ==
  ASSUME PowerTypeOK, NEW a \in Nat, NEW b \in Nat, a < b, b < a + Slots
  PROVE  Place(own, a) # Place(own, b)
<1>1. own * Slots \in Nat /\ Slots \in Nat \ {0}
  BY PlaceTypes
<1>2. a % Slots \in 0..(Slots - 1) /\ b % Slots \in 0..(Slots - 1)
  BY <1>1, ModRange
<1>3. a % Slots # b % Slots
  <2>1. a <= b /\ a # b
    OBVIOUS
  <2> QED
    BY <1>1, <2>1, ModSame
<1> QED
  BY <1>1, <1>2, <1>3 DEF Place

\* Records a lap apart are in one slot.
LEMMA PlacesAgain ==
  ASSUME PowerTypeOK, NEW n \in Nat
  PROVE  Place(own, n + Slots) = Place(own, n)
<1>1. Slots \in Nat \ {0}
  BY PowerAssumption
<1> QED
  BY <1>1, ModLap DEF Place

\* The slot after a record's is the next one's, or past the end of the part.
LEMMA PlaceNext ==
  ASSUME PowerTypeOK, NEW n \in Nat
  PROVE  Place(own, n + 1) = IF Place(own, n) + 1 >= own * Slots + Slots
                             THEN own * Slots ELSE Place(own, n) + 1
<1>1. own * Slots \in Nat /\ Slots \in Nat \ {0}
  BY PlaceTypes
<1>2. n % Slots \in 0..(Slots - 1)
  BY <1>1, ModRange
<1>3. (n + 1) % Slots = IF (n % Slots) + 1 >= Slots THEN 0 ELSE (n % Slots) + 1
  BY <1>1, ModNext
<1> QED
  BY <1>1, <1>2, <1>3 DEF Place

\* Another core's records are in other slots.
LEMMA OthersApart ==
  ASSUME PowerTypeOK, NEW c \in CoreSet, c # own, NEW m \in Nat, NEW n \in Nat
  PROVE  Place(c, m) # Place(own, n)
<1>1. Slots \in Nat \ {0} /\ own \in Nat /\ c \in Nat
  BY PlaceTypes DEF CoreSet
<1>2. m % Slots \in 0..(Slots - 1) /\ n % Slots \in 0..(Slots - 1)
  BY <1>1, ModRange
<1> QED
  BY <1>1, <1>2, SlotsApart DEF Place

\* What is under the place of the record after the last one taken.
LEMMA RecordAhead ==
  ASSUME PowerTypeOK, LogMem, dsppf_current = Place(own, last),
         last <= written[own], written[own] <= last + Slots
  PROVE  /\ written[own] > last => Here = <<own, last + 1>>
         /\ written[own] = last =>
              Here = Cleared \/ (last >= Slots /\ Here = <<own, last + 1 - Slots>>)
<1>1. last \in Nat /\ written[own] \in Nat /\ Slots \in Nat \ {0}
  BY PlaceTypes
<1>2. ASSUME written[own] > last PROVE Here = <<own, last + 1>>
  <2> DEFINE k == last + 1
  <2>1. k \in 1..written[own] /\ written[own] < k + Slots /\ k - 1 = last
    BY <1>1, <1>2
  <2> HIDE DEF k
  <2>2. mem[Place(own, k - 1)] = <<own, k>>
    BY <2>1 DEF LogMem
  <2> QED
    BY <2>1, <2>2 DEF Here, k
<1>3. ASSUME written[own] = last, last < Slots PROVE Here = Cleared
  <2>1. last \in written[own]..(Slots - 1)
    BY <1>1, <1>3
  <2> QED
    BY <2>1 DEF LogMem, Here
<1>4. ASSUME written[own] = last, last >= Slots PROVE Here = <<own, last + 1 - Slots>>
  <2> DEFINE k == last + 1 - Slots
  <2>1. k \in 1..written[own] /\ written[own] < k + Slots /\ k - 1 \in Nat /\ k - 1 + Slots = last
    BY <1>1, <1>4
  <2>2. mem[Place(own, k - 1)] = <<own, k>>
    BY <2>1 DEF LogMem
  <2>3. Place(own, k - 1) = Place(own, last)
    BY <2>1, PlacesAgain
  <2> QED
    BY <2>2, <2>3 DEF Here
<1> QED
  BY <1>1, <1>2, <1>3, <1>4

----------------------------------------------------------------------------
(* The steps, and the records of the core.                                 *)

\* The memory stays with the core's records in it.
LEMMA LogStays ==
  ASSUME UNCHANGED <<configVars, mem, written>>
  PROVE  LogMem' <=> LogMem
  BY DEF LogMem, configVars

\* Where nothing of a life of the DSP or of the walk changes.
LEMMA FirstStays ==
  ASSUME FirstInv,
         UNCHANGED <<configVars, dspVars, regionVars, walkVars, timerVars, power, last, torn>>
  PROVE  FirstInv'
<1>1. /\ UNCHANGED <<cores, own, mem, written, collided, dsppf_base, dsplog_buf_size, dsppf_current,
                    curr_seq_num, tpc, next_ptr, power, last, torn>>
      /\ MemSize' = MemSize /\ ClearedMem' = ClearedMem
  BY DEF configVars, dspVars, regionVars, walkVars, timerVars, MemSize, ClearedMem
<1>2. LogMem' <=> LogMem
  BY <1>1, LogStays DEF configVars
<1>3. LogInv' /\ WholeInv' /\ RestartInv'
  BY <1>1, <1>2 DEF FirstInv, LogInv, WholeInv, RestartInv
<1>4. Undisturbed' <=> Undisturbed
  BY <1>1 DEF Undisturbed, OwnRegion
<1>5. AtRecord' <=> AtRecord
  BY <1>1 DEF AtRecord, Here
<1>6. Emptied' <=> Emptied
  BY <1>1 DEF Emptied
<1> QED
  BY <1>1, <1>2, <1>3, <1>4, <1>5, <1>6 DEF FirstInv

\* Between idle and test nothing moves; with dsp_suspended set the callback
\* goes no further.
LEMMA TimerRestart ==
  ASSUME PowerInv, RestartInv, Timer
  PROVE  RestartInv'
<1>1. torn' = torn /\ power' = power /\ dsppf_base' = dsppf_base
  BY DEF Timer, Callback, Tick, TestSuspended, Judge, NoteSeqNum, TestEmpty, TakeRecord, LoadPlace,
         StorePlace, TestWrap, Rewind, regionVars
<1>2. power \notin {"on", "other first", "flag"} => dsp_suspended = 1
  BY DEF PowerInv, FlagInv
<1>3. ASSUME torn = FALSE, power \notin {"on", "other first", "flag"}
      PROVE  tpc' \in {"idle", "test"} /\ UNCHANGED <<dsppf_current, curr_seq_num, last>>
  <2>1. tpc \in {"idle", "test"} /\ dsp_suspended = 1
    BY <1>2, <1>3 DEF RestartInv
  <2>2. Tick \/ TestSuspended
    BY <2>1 DEF Timer, Callback, Judge, NoteSeqNum, TestEmpty, TakeRecord, LoadPlace, StorePlace,
                TestWrap, Rewind
  <2> QED
    BY <2>1, <2>2 DEF Tick, TestSuspended, Callback, Keep, walkVars
<1> QED
  BY <1>1, <1>3 DEF RestartInv

\* In a cleared memory the callback finds nothing.
LEMMA TimerEmptied ==
  ASSUME PowerInv, Emptied, Timer
  PROVE  Emptied'
<1>1. mem' = mem /\ ClearedMem' = ClearedMem
  BY DEF Timer, Callback, Tick, TestSuspended, Judge, NoteSeqNum, TestEmpty, TakeRecord, LoadPlace,
         StorePlace, TestWrap, Rewind, dspVars, configVars, ClearedMem, MemSize
<1>2. MemSize \in Nat /\ dsppf_current \in 0..MemSize /\ curr_seq_num \in Nat
  BY WalkTypes, PowerAssumption DEF PowerInv, PlacesInv
<1>3. tpc \in {"judge", "seq", "empty"} => Here = Cleared
  <2>1. ASSUME tpc \in {"judge", "seq", "empty"} PROVE dsppf_current \in 0..(MemSize - 1)
    <3>1. dsppf_current < MemSize
      BY <2>1 DEF PowerInv, WalkInv
    <3> QED
      BY <1>2, <3>1
  <2> QED
    BY <2>1 DEF Emptied, ClearedMem, Here
<1>4. tpc \in {"judge", "seq", "empty"} => SeqNumOf(Here) = 0
  BY <1>3 DEF SeqNumOf
<1>5. tpc' \in {"idle", "test", "judge", "seq", "empty"} /\ (tpc' \in {"seq", "empty"} => curr_seq_num' = 0)
  <2> USE DEF Callback, Keep, walkVars
  <2>1. CASE Tick \/ TestSuspended
    BY <2>1 DEF Tick, TestSuspended
  <2>2. CASE Judge
    BY <1>2, <1>4, <2>2 DEF Judge, Stale
  <2>3. CASE NoteSeqNum
    BY <1>4, <2>3 DEF NoteSeqNum
  <2>4. CASE TestEmpty
    BY <1>3, <2>4 DEF TestEmpty, Emptied
  <2>5. CASE TakeRecord \/ LoadPlace \/ StorePlace \/ TestWrap \/ Rewind
    BY <2>5 DEF TakeRecord, LoadPlace, StorePlace, TestWrap, Rewind, Emptied
  <2> QED
    BY <2>1, <2>2, <2>3, <2>4, <2>5 DEF Timer
<1> QED
  BY <1>1, <1>5 DEF Emptied

\* The record the callback takes is the one after the last one taken.
LEMMA TakesTheNext ==
  ASSUME PowerInv, LogMem, AtRecord, tpc = "take"
  PROVE  Here = <<own, last + 1>> /\ Here[2] = last + 1
<1>1. PowerTypeOK
  BY DEF PowerInv
<1>2. /\ dsppf_current = Place(own, last) /\ written[own] > last
      /\ last <= written[own] /\ written[own] <= last + Slots
  BY DEF AtRecord
<1>3. Here = <<own, last + 1>>
  BY <1>1, <1>2, RecordAhead
<1> QED
  BY <1>3

\* The callback goes from one record of its core to the next.
LEMMA TimerAtRecord ==
  ASSUME PowerInv, OwnRegion, LogMem, AtRecord, Timer
  PROVE  AtRecord'
<1>1. PowerTypeOK
  BY DEF PowerInv
<1>2. /\ Slots \in Nat /\ Slots > 1 /\ own * Slots \in Nat /\ own \in Nat
      /\ last \in Nat /\ written[own] \in Nat
  BY <1>1, PlaceTypes
<1>3. UNCHANGED <<own, mem, written>> /\ Slots' = Slots
  BY DEF Timer, Callback, Tick, TestSuspended, Judge, NoteSeqNum, TestEmpty, TakeRecord, LoadPlace,
         StorePlace, TestWrap, Rewind, configVars, dspVars
<1>4. curr_seq_num \in Nat /\ dsppf_current \in Nat /\ next_ptr \in Nat
  BY <1>1, <1>2, PlaceTypes, WalkTypes, PowerAssumption DEF PlacesInv
<1>5. last <= written[own] /\ written[own] <= last + Slots
  BY DEF AtRecord
<1>6. ASSUME tpc \in {"judge", "seq", "empty"}
      PROVE  /\ dsppf_current = Place(own, last)
             /\ written[own] > last => Here = <<own, last + 1>> /\ SeqNumOf(Here) = last /\ Here # Cleared
             /\ written[own] = last =>
                  \/ Here = Cleared /\ SeqNumOf(Here) = 0
                  \/ SeqNumOf(Here) < NumAfter(last)
  <2>1. dsppf_current = Place(own, last)
    BY <1>6 DEF AtRecord
  <2>2. /\ written[own] > last => Here = <<own, last + 1>>
        /\ written[own] = last =>
              Here = Cleared \/ (last >= Slots /\ Here = <<own, last + 1 - Slots>>)
    BY <1>1, <1>5, <2>1, RecordAhead
  <2>3. ASSUME NEW n \in Nat PROVE <<own, n + 1>> # Cleared /\ SeqNumOf(<<own, n + 1>>) = n
    <3>1. <<own, n + 1>> # Cleared /\ <<own, n + 1>>[2] = n + 1
      BY DEF Cleared
    <3> QED
      BY <3>1 DEF SeqNumOf
  <2>4. ASSUME last >= Slots PROVE SeqNumOf(<<own, last + 1 - Slots>>) < NumAfter(last)
    <3>1. last - Slots \in Nat /\ last - Slots + 1 = last + 1 - Slots
      BY <1>2, <2>4
    <3>2. SeqNumOf(<<own, last + 1 - Slots>>) = last - Slots
      BY <2>3, <3>1
    <3> QED
      BY <1>2, <2>4, <3>2 DEF NumAfter
  <2>5. SeqNumOf(Cleared) = 0
    BY DEF SeqNumOf
  <2>6. written[own] > last => SeqNumOf(Here) = last /\ Here # Cleared
    BY <1>2, <2>2, <2>3
  <2> QED
    BY <2>1, <2>2, <2>4, <2>5, <2>6
<1>7. Here' = mem[dsppf_current']
  BY <1>3 DEF Here
<1> USE DEF Callback, Keep, walkVars
<1>8. CASE Tick \/ TestSuspended
  <2>1. UNCHANGED <<dsppf_current, curr_seq_num, next_ptr, last>>
        /\ tpc \in {"idle", "test"} /\ tpc' \in {"idle", "test", "judge"}
    BY <1>8 DEF Tick, TestSuspended
  <2> QED
    BY <1>3, <2>1 DEF AtRecord
<1>9. CASE Judge
  <2>1. UNCHANGED <<dsppf_current, curr_seq_num, next_ptr, last>> /\ tpc = "judge"
        /\ tpc' \in {"idle", "seq"} /\ (tpc' = "seq" => ~ Stale)
    BY <1>9 DEF Judge
  <2>2. Here' = Here
    BY <1>7, <2>1 DEF Here
  <2>3. curr_seq_num = NumAfter(last) /\ dsppf_current = Place(own, last)
    BY <2>1 DEF AtRecord
  <2>4. NumAfter(last) \in Nat
    BY <1>2 DEF NumAfter
  <2>5. tpc' = "seq" => written[own] > last \/ (Here = Cleared /\ NumAfter(last) = 0)
    BY <1>2, <1>5, <1>6, <2>1, <2>3, <2>4 DEF Stale
  <2> QED
    BY <1>3, <1>5, <2>1, <2>2, <2>3, <2>5 DEF AtRecord
<1>10. CASE NoteSeqNum
  <2>1. UNCHANGED <<dsppf_current, next_ptr, last>> /\ tpc = "seq" /\ tpc' = "empty"
        /\ curr_seq_num' = SeqNumOf(Here)
    BY <1>10 DEF NoteSeqNum
  <2>2. Here' = Here
    BY <1>7, <2>1 DEF Here
  <2>3. written[own] > last \/ (Here = Cleared /\ NumAfter(last) = 0)
    BY <2>1 DEF AtRecord
  <2>4. SeqNumOf(Cleared) = 0
    BY DEF SeqNumOf
  <2> QED
    BY <1>3, <1>5, <1>6, <2>1, <2>2, <2>3, <2>4 DEF AtRecord
<1>11. CASE TestEmpty
  <2>1. UNCHANGED <<dsppf_current, curr_seq_num, next_ptr, last>> /\ tpc = "empty"
        /\ tpc' = IF curr_seq_num = 0 /\ Here = Cleared THEN "idle" ELSE "take"
    BY <1>11 DEF TestEmpty
  <2>2. \/ written[own] > last /\ curr_seq_num = last
        \/ Here = Cleared /\ curr_seq_num = 0 /\ NumAfter(last) = 0
    BY <2>1 DEF AtRecord
  <2>3. \/ tpc' = "take" /\ written[own] > last /\ curr_seq_num = last
        \/ tpc' = "idle" /\ curr_seq_num = NumAfter(last)
    BY <1>6, <2>1, <2>2
  <2> QED
    BY <1>3, <1>5, <1>6, <2>1, <2>3 DEF AtRecord
<1>12. CASE TakeRecord
  <2>1. UNCHANGED <<dsppf_current, curr_seq_num, next_ptr>> /\ tpc = "take" /\ tpc' = "load"
        /\ last' = Here[2]
    BY <1>12 DEF TakeRecord
  <2>2. last' = last + 1
    BY <2>1, TakesTheNext
  <2>3. written[own] > last /\ curr_seq_num = last /\ dsppf_current = Place(own, last)
    BY <2>1 DEF AtRecord
  <2>4. last' - 1 = last /\ last' > 0 /\ last' <= written[own] /\ written[own] <= last' + Slots
        /\ curr_seq_num = NumAfter(last')
    BY <1>2, <1>5, <2>2, <2>3 DEF NumAfter
  <2> QED
    BY <1>3, <2>1, <2>3, <2>4 DEF AtRecord
<1>13. CASE LoadPlace
  <2>1. UNCHANGED <<dsppf_current, curr_seq_num, last>> /\ tpc = "load" /\ tpc' = "store"
        /\ next_ptr' = dsppf_current + 1
    BY <1>13 DEF LoadPlace
  <2> QED
    BY <1>3, <2>1 DEF AtRecord
<1>14. CASE StorePlace
  <2>1. UNCHANGED <<curr_seq_num, last>> /\ tpc = "store" /\ tpc' = "wrap"
        /\ dsppf_current' = next_ptr
    BY <1>14 DEF StorePlace
  <2> QED
    BY <1>3, <2>1 DEF AtRecord
<1>15. CASE TestWrap
  <2>1. UNCHANGED <<dsppf_current, curr_seq_num, last>> /\ tpc = "wrap"
    BY <1>15 DEF TestWrap
  <2>2. PastEnd => tpc' = "rewind" /\ next_ptr' = dsppf_base
    BY <1>15 DEF TestWrap
  <2>3. ~ PastEnd => tpc' = "test"
    BY <1>15 DEF TestWrap
  <2>4. last > 0 /\ dsppf_current = Place(own, last - 1) + 1 /\ curr_seq_num = NumAfter(last)
    BY <2>1 DEF AtRecord
  <2>5. last - 1 \in Nat /\ last - 1 + 1 = last
    BY <1>2, <2>4
  <2>6. Place(own, last - 1 + 1) = IF Place(own, last - 1) + 1 >= own * Slots + Slots
                                   THEN own * Slots ELSE Place(own, last - 1) + 1
    BY <1>1, <2>5, PlaceNext
  <2>7. PastEnd <=> Place(own, last - 1) + 1 >= own * Slots + Slots
    BY <2>4 DEF PastEnd, OwnRegion
  <2>8. CASE PastEnd
    <3>1. Place(own, last) = dsppf_base
      BY <2>5, <2>6, <2>7, <2>8 DEF OwnRegion
    <3>2. tpc' = "rewind" /\ next_ptr' = Place(own, last)
      BY <2>8, <2>2, <3>1
    <3> QED
      BY <1>3, <1>5, <2>1, <2>4, <3>2 DEF AtRecord
  <2>9. CASE ~ PastEnd
    <3>1. Place(own, last) = dsppf_current
      BY <2>4, <2>5, <2>6, <2>7, <2>9
    <3>2. tpc' = "test"
      BY <2>9, <2>3
    <3> QED
      BY <1>3, <1>5, <2>1, <2>4, <3>1, <3>2 DEF AtRecord
  <2> QED
    BY <2>8, <2>9
<1>16. CASE Rewind
  <2>1. UNCHANGED <<curr_seq_num, last>> /\ tpc = "rewind" /\ tpc' = "test"
        /\ dsppf_current' = next_ptr
    BY <1>16 DEF Rewind
  <2> QED
    BY <1>3, <2>1 DEF AtRecord
<1> QED
  BY <1>8, <1>9, <1>10, <1>11, <1>12, <1>13, <1>14, <1>15, <1>16 DEF Timer

LEMMA TimerFirst ==
  ASSUME PowerInv, FirstInv, Timer
  PROVE  FirstInv'
<1>1. UNCHANGED <<configVars, dspVars, regionVars, power, torn>>
  BY DEF Timer, Callback, Tick, TestSuspended, Judge, NoteSeqNum, TestEmpty, TakeRecord, LoadPlace,
         StorePlace, TestWrap, Rewind
<1>2. UNCHANGED <<cores, own, mem, written, collided, dsppf_base, dsplog_buf_size, power, torn>>
      /\ MemSize' = MemSize
  BY <1>1, MemoryStays DEF configVars, dspVars, regionVars
<1>3. LogMem' <=> LogMem
  BY <1>1, LogStays DEF dspVars
<1>4. LogInv' /\ WholeInv' /\ (Undisturbed' <=> Undisturbed)
  BY <1>2, <1>3 DEF FirstInv, LogInv, WholeInv, Undisturbed, OwnRegion
<1>5. RestartInv'
  BY TimerRestart DEF FirstInv
<1>6. ASSUME Undisturbed, power \in {"on", "off", "other first"} PROVE AtRecord'
  BY <1>6, TimerAtRecord DEF FirstInv, LogInv, Undisturbed
<1>7. ASSUME Undisturbed, power = "flag" PROVE (LogMem' /\ AtRecord') \/ Emptied'
  BY <1>3, <1>7, TimerAtRecord, TimerEmptied DEF FirstInv, Undisturbed
<1> QED
  BY <1>2, <1>4, <1>5, <1>6, <1>7 DEF FirstInv

\* A record of the core goes into the slot after its last one.
LEMMA LogWrite ==
  ASSUME PowerTypeOK, LogMem, DspWrite(own)
  PROVE  LogMem'
<1> DEFINE w == written[own]
           slot == Place(own, w)
<1>1. w \in Nat /\ Slots \in Nat /\ Slots > 1 /\ own \in CoreSet
  BY PlaceTypes
<1>2. /\ mem \in [0..(MemSize - 1) -> {Cleared} \union (CoreSet \X (1..MaxRecords))]
      /\ written \in [CoreSet -> 0..MaxRecords]
  BY DEF PowerTypeOK
<1>3. /\ mem' = [mem EXCEPT ![slot] = <<own, w + 1>>] /\ own' = own
      /\ written' = [written EXCEPT ![own] = w + 1]
  BY DEF DspWrite, Place, configVars
<1>4. slot \in 0..(MemSize - 1)
  BY <1>1, OwnPlaces
<1>5. mem'[slot] = <<own, w + 1>> /\ written'[own'] = w + 1
  BY <1>1, <1>2, <1>3, <1>4
<1>6. ASSUME NEW n \in Nat, Place(own, n) # slot
      PROVE  mem'[Place(own, n)] = mem[Place(own, n)]
  <2>1. Place(own, n) \in 0..(MemSize - 1)
    BY OwnPlaces
  <2> QED
    BY <1>2, <1>3, <1>6, <2>1
<1> HIDE DEF slot
<1>7. ASSUME NEW k \in 1..(w + 1), w + 1 < k + Slots
      PROVE  mem'[Place(own, k - 1)] = <<own, k>>
  <2>1. CASE k = w + 1
    <3>1. k - 1 = w
      BY <1>1, <2>1
    <3> QED
      BY <1>5, <2>1, <3>1 DEF slot
  <2>2. CASE k # w + 1
    <3>1. k \in 1..w /\ w < k + Slots /\ k - 1 \in Nat /\ k - 1 < w /\ w < k - 1 + Slots
      BY <1>1, <1>7, <2>2
    <3>2. mem[Place(own, k - 1)] = <<own, k>>
      BY <3>1 DEF LogMem
    <3>3. Place(own, k - 1) # slot
      BY <1>1, <3>1, PlacesDiffer DEF slot
    <3> QED
      BY <1>6, <3>1, <3>2, <3>3
  <2> QED
    BY <2>1, <2>2
<1>8. ASSUME NEW s \in (w + 1)..(Slots - 1)
      PROVE  mem'[Place(own, s)] = Cleared
  <2>1. s \in w..(Slots - 1) /\ s \in Nat /\ w < s /\ s < w + Slots
    BY <1>1
  <2>2. Place(own, s) # slot
    BY <1>1, <2>1, PlacesDiffer DEF slot
  <2>3. mem[Place(own, s)] = Cleared
    BY <2>1 DEF LogMem
  <2> QED
    BY <1>6, <2>1, <2>2, <2>3
<1> QED
  BY <1>3, <1>5, <1>7, <1>8 DEF LogMem

\* Another core's record leaves this core's slots alone.
LEMMA OtherWrite ==
  ASSUME PowerTypeOK, NEW c \in CoreSet, c # own, DspWrite(c)
  PROVE  /\ written'[own'] = written[own] /\ own' = own
         /\ \A n \in Nat : mem'[Place(own, n)] = mem[Place(own, n)]
<1> DEFINE slot == Place(c, written[c])
<1>1. /\ mem \in [0..(MemSize - 1) -> {Cleared} \union (CoreSet \X (1..MaxRecords))]
      /\ written \in [CoreSet -> 0..MaxRecords] /\ own \in CoreSet
  BY DEF PowerTypeOK
<1>2. /\ mem' = [mem EXCEPT ![slot] = <<c, written[c] + 1>>] /\ own' = own
      /\ written' = [written EXCEPT ![c] = @ + 1]
  BY DEF DspWrite, Place, configVars
<1>3. written[c] \in Nat
  BY <1>1, PowerAssumption
<1>4. \A n \in Nat : slot # Place(own, n)
  BY <1>3, OthersApart
<1>5. ASSUME NEW n \in Nat PROVE mem'[Place(own, n)] = mem[Place(own, n)]
  <2>1. Place(own, n) \in 0..(MemSize - 1)
    BY OwnPlaces
  <2> HIDE DEF slot
  <2> QED
    BY <1>1, <1>2, <1>4, <2>1
<1> QED
  BY <1>1, <1>2, <1>5

\* A record written while the callback is at its place, or has noted the
\* place's number, is either ahead of it or sets collided.
LEMMA WriteAtRecord ==
  ASSUME PowerTypeOK, LogMem, AtRecord, NEW c \in CoreSet, DspWrite(c), collided' = FALSE
  PROVE  AtRecord'
<1> DEFINE w == written[own]
<1>1. /\ w \in Nat /\ last \in Nat /\ Slots \in Nat /\ Slots > 1 /\ own \in CoreSet
  BY PlaceTypes
<1>2. /\ UNCHANGED <<own, dsppf_current, curr_seq_num, tpc, next_ptr, last>>
  BY DEF DspWrite, configVars, walkVars, timerVars
<1>3. last <= w /\ w <= last + Slots
  BY DEF AtRecord
<1>4. CASE c # own
  <2>1. written'[own'] = w /\ \A n \in Nat : mem'[Place(own, n)] = mem[Place(own, n)]
    BY <1>4, OtherWrite
  <2>2. tpc \in {"seq", "empty"} => Here' = Here
    <3>1. tpc \in {"seq", "empty"} => dsppf_current = Place(own, last)
      BY DEF AtRecord
    <3> QED
      BY <1>1, <1>2, <2>1, <3>1 DEF Here
  <2> QED
    BY <1>2, <2>1, <2>2 DEF AtRecord
<1>5. CASE c = own
  <2> DEFINE slot == Place(own, w)
  <2>1. /\ mem \in [0..(MemSize - 1) -> {Cleared} \union (CoreSet \X (1..MaxRecords))]
        /\ written \in [CoreSet -> 0..MaxRecords]
    BY DEF PowerTypeOK
  <2>2. /\ mem' = [mem EXCEPT ![slot] = <<own, w + 1>>]
        /\ written' = [written EXCEPT ![own] = w + 1]
        /\ ~ (mem[slot][2] > last) /\ ~ (slot = dsppf_current /\ tpc = "empty")
    BY <1>5 DEF DspWrite, Place
  <2>3. written'[own'] = w + 1
    BY <1>1, <1>2, <2>1, <2>2
  <2>4. w # last + Slots
    <3>1. ASSUME w = last + Slots PROVE mem[slot] = <<own, last + 1>>
      <4> DEFINE k == last + 1
      <4>1. k \in 1..w /\ w < k + Slots /\ k - 1 = last
        BY <1>1, <3>1
      <4> HIDE DEF k
      <4>2. mem[Place(own, k - 1)] = <<own, k>>
        BY <4>1 DEF LogMem
      <4>3. Place(own, last + Slots) = Place(own, last)
        BY <1>1, PlacesAgain
      <4> QED
        BY <3>1, <4>1, <4>2, <4>3 DEF k
    <3> HIDE DEF slot
    <3> QED
      BY <1>1, <2>2, <3>1
  <2>5. tpc = "empty" => Here' = Here
    <3>1. ASSUME tpc = "empty" PROVE dsppf_current \in 0..(MemSize - 1)
      <4>1. dsppf_current = Place(own, last)
        BY <3>1 DEF AtRecord
      <4> QED
        BY <1>1, <4>1, OwnPlaces
    <3> HIDE DEF slot
    <3> QED
      BY <1>2, <2>1, <2>2, <3>1 DEF Here
  <2>6. last <= w + 1 /\ w + 1 <= last + Slots /\ w + 1 > last
    BY <1>1, <1>3, <2>4
  <2> HIDE DEF w, slot
  <2> QED
    BY <1>2, <2>3, <2>5, <2>6 DEF AtRecord
<1> QED
  BY <1>4, <1>5

LEMMA WriteFirst ==
  ASSUME PowerInv, FirstInv, NEW c \in CoreSet, DspWrite(c)
  PROVE  FirstInv'
<1>1. PowerTypeOK
  BY DEF PowerInv
<1>2. /\ power \in {"on", "off"} /\ (collided => collided')
      /\ UNCHANGED <<configVars, regionVars, walkVars, timerVars, power, last, torn>>
  BY DEF DspWrite
<1>3. UNCHANGED <<cores, own, dsppf_base, dsplog_buf_size, dsppf_current, curr_seq_num, tpc, power,
                  last, torn>> /\ MemSize' = MemSize
  BY <1>2, MemoryStays DEF configVars, regionVars, walkVars, timerVars
<1>4. LogMem
  BY <1>2 DEF FirstInv, LogInv
<1>5. LogMem'
  <2>1. CASE c = own
    BY <1>1, <1>4, <2>1, LogWrite
  <2>2. CASE c # own
    <3>1. written'[own'] = written[own] /\ own' = own
          /\ \A n \in Nat : mem'[Place(own, n)] = mem[Place(own, n)]
      BY <1>1, <2>2, OtherWrite
    <3>2. written[own] \in Nat
      BY <1>1, PlaceTypes
    <3>3. \A k \in 1..written[own] : k - 1 \in Nat
      BY <3>2
    <3>4. \A s \in written[own]..(Slots - 1) : s \in Nat
      BY <3>2, PowerAssumption
    <3> QED
      BY <1>4, <3>1, <3>3, <3>4 DEF LogMem
  <2> QED
    BY <2>1, <2>2
<1>6. LogInv' /\ WholeInv' /\ RestartInv'
  BY <1>2, <1>3, <1>5 DEF FirstInv, LogInv, WholeInv, RestartInv
<1>7. ASSUME Undisturbed' PROVE AtRecord'
  <2>1. collided' = FALSE /\ collided = FALSE
    BY <1>1, <1>2, <1>7 DEF Undisturbed, PowerTypeOK
  <2>2. Undisturbed
    BY <1>3, <1>7, <2>1 DEF Undisturbed, OwnRegion
  <2>3. AtRecord
    BY <1>2, <2>2 DEF FirstInv
  <2> QED
    BY <1>1, <1>4, <2>1, <2>3, WriteAtRecord
<1> QED
  BY <1>2, <1>3, <1>6, <1>7 DEF FirstInv

\* The start of a life of the DSP, and of the walk in the core's own part.
LifeStart == mem = ClearedMem /\ written[own] = 0
WalkStart ==
  dsppf_current = own * Slots /\ last = 0 /\ curr_seq_num = 0 /\ tpc \in {"idle", "test"}

LEMMA LifeStarts == PowerTypeOK /\ LifeStart => LogMem /\ (WalkStart => AtRecord)
<1> SUFFICES ASSUME PowerTypeOK, LifeStart PROVE LogMem /\ (WalkStart => AtRecord)
  OBVIOUS
<1>1. Slots \in Nat \ {0} /\ own * Slots \in Nat
  BY PlaceTypes
<1>2. ASSUME NEW s \in 0..(Slots - 1) PROVE mem[Place(own, s)] = Cleared
  <2>1. s \in Nat
    BY <1>1
  <2>2. Place(own, s) \in 0..(MemSize - 1)
    BY <2>1, OwnPlaces
  <2> QED
    BY <2>2 DEF LifeStart, ClearedMem
<1>3. LogMem
  BY <1>2 DEF LogMem, LifeStart
<1>4. Place(own, 0) = own * Slots
  <2>1. 0 % Slots = 0
    BY <1>1
  <2> QED
    BY <1>1, <2>1 DEF Place
<1> QED
  BY <1>1, <1>3, <1>4 DEF AtRecord, NumAfter, LifeStart, WalkStart

LEMMA LifeBegins == PowerTypeOK' /\ LifeStart' => LogMem' /\ (WalkStart' => AtRecord')
  BY LifeStarts, PTL

\* dsplog_suspend, but for the two stores of dsp_init_logbuf.
LEMMA SuspendFirst ==
  ASSUME PowerInv, FirstInv,
         SuspendOther \/ SuspendBegin \/ SuspendFlag \/ SuspendPlace \/ SuspendSeqNum \/ SuspendClear
  PROVE  FirstInv'
<1>1. own \in CoreSet /\ PowerTypeOK'
  BY SuspendStepOne DEF PowerInv, PowerTypeOK
<1>2. UNCHANGED <<configVars, regionVars, timerVars>>
  BY DEF SuspendOther, SuspendBegin, SuspendFlag, SuspendPlace, SuspendSeqNum, SuspendClear, Suspend
<1>3. /\ UNCHANGED <<cores, own, dsppf_base, dsplog_buf_size, tpc, next_ptr>>
      /\ MemSize' = MemSize /\ ClearedMem' = ClearedMem
  BY <1>2, MemoryStays DEF configVars, regionVars, timerVars, ClearedMem
<1>4. torn \in BOOLEAN /\ InRecord \in BOOLEAN /\ (~ InRecord => tpc \in {"idle", "test"})
  BY DEF PowerTypeOK, InRecord, PowerInv
<1>5. CASE SuspendOther
  <2>1. /\ mem' = ClearedMem /\ torn' = (torn \/ InRecord)
        /\ UNCHANGED <<written, collided, dsppf_current, curr_seq_num, last>>
        /\ (power = "other first" /\ power' = "flag") \/ (power = "other last" /\ power' = "off")
    BY <1>5 DEF SuspendOther, Suspend, walkVars
  <2>2. torn' = FALSE => torn = FALSE /\ tpc \in {"idle", "test"}
    BY <1>4, <2>1
  <2>3. WholeInv' /\ RestartInv'
    BY <1>3, <2>1, <2>2 DEF FirstInv, WholeInv, RestartInv
  <2>4. CASE power = "other first"
    <3>1. torn' = FALSE => Emptied'
      BY <1>3, <2>1, <2>2 DEF Emptied
    <3> QED
      BY <2>1, <2>3, <2>4, <3>1 DEF FirstInv, LogInv, Undisturbed
  <2>5. CASE power = "other last"
    <3>1. written[own] = 0 /\ LogMem
      BY <2>5 DEF FirstInv, LogInv
    <3>2. LifeStart'
      BY <1>3, <2>1, <3>1 DEF LifeStart
    <3>3. LogMem'
      BY <1>1, <3>2, LifeBegins
    <3>4. ASSUME Undisturbed' PROVE AtRecord'
      <4>1. torn = FALSE /\ tpc \in {"idle", "test"} /\ dsppf_base = own * Slots
        BY <1>3, <2>2, <3>4 DEF Undisturbed, OwnRegion
      <4>2. WalkStart'
        BY <1>3, <2>1, <2>5, <4>1 DEF FirstInv, RestartInv, WalkStart
      <4> QED
        BY <1>1, <3>2, <4>2, LifeBegins
    <3> QED
      BY <2>1, <2>3, <2>5, <3>1, <3>3, <3>4 DEF FirstInv, LogInv
  <2> QED
    BY <2>1, <2>4, <2>5
<1>6. CASE SuspendBegin
  <2>1. /\ UNCHANGED <<mem, written, collided, dsppf_current, curr_seq_num, last, torn>>
        /\ power = "on" /\ power' \in {"flag", "other first"}
    BY <1>6 DEF SuspendBegin, dspVars, walkVars
  <2>2. LogMem /\ LogMem'
    BY <1>2, <2>1, LogStays DEF FirstInv, LogInv
  <2>3. WholeInv' /\ RestartInv'
    BY <1>3, <2>1 DEF FirstInv, WholeInv, RestartInv
  <2>4. Undisturbed' <=> Undisturbed
    BY <1>3, <2>1 DEF Undisturbed, OwnRegion
  <2>5. AtRecord' <=> AtRecord
    BY <1>3, <2>1 DEF AtRecord, Here
  <2> QED
    BY <2>1, <2>2, <2>3, <2>4, <2>5 DEF FirstInv, LogInv
<1>7. CASE SuspendFlag
  <2>1. power' = "region" /\ torn' = InRecord
    BY <1>7 DEF SuspendFlag, Suspend
  <2>2. torn' = FALSE => tpc' \in {"idle", "test"}
    BY <1>3, <1>4, <2>1
  <2> QED
    BY <2>1, <2>2 DEF FirstInv, LogInv, WholeInv, RestartInv
<1>8. CASE SuspendPlace \/ SuspendSeqNum
  <2>1. /\ UNCHANGED torn /\ power \in {"place", "seq"} /\ power' \in {"seq", "clear"}
        /\ power' = "seq" => dsppf_current' = dsppf_base /\ last' = 0
        /\ power' = "clear" => UNCHANGED <<dsppf_current, last>> /\ curr_seq_num' = 0
                               /\ power = "seq"
    BY <1>8 DEF SuspendPlace, SuspendSeqNum, Suspend
  <2> QED
    BY <1>3, <2>1 DEF FirstInv, LogInv, WholeInv, RestartInv
<1>9. CASE SuspendClear
  <2>1. /\ mem' = ClearedMem /\ written' = [c \in CoreSet |-> 0]
        /\ UNCHANGED <<dsppf_current, curr_seq_num, last, torn>>
        /\ power = "clear" /\ power' \in {"off", "other last"}
    BY <1>9 DEF SuspendClear, Suspend, walkVars
  <2>2. LifeStart'
    BY <1>1, <1>3, <2>1 DEF LifeStart
  <2>3. LogMem' /\ written'[own'] = 0
    BY <1>1, <2>2, LifeBegins DEF LifeStart
  <2>4. WholeInv' /\ RestartInv'
    BY <1>3, <2>1 DEF FirstInv, WholeInv, RestartInv
  <2>5. ASSUME Undisturbed', power' = "off" PROVE AtRecord'
    <3>1. torn = FALSE /\ dsppf_base = own * Slots
      BY <1>3, <2>1, <2>5 DEF Undisturbed, OwnRegion
    <3>2. dsppf_current = dsppf_base /\ last = 0 /\ curr_seq_num = 0 /\ tpc \in {"idle", "test"}
      BY <2>1, <3>1 DEF FirstInv, RestartInv
    <3>3. WalkStart'
      BY <1>3, <2>1, <3>1, <3>2 DEF WalkStart
    <3> QED
      BY <1>1, <2>2, <3>3, LifeBegins
  <2> QED
    BY <2>1, <2>3, <2>4, <2>5 DEF FirstInv, LogInv
<1> QED
  BY <1>5, <1>6, <1>7, <1>8, <1>9

\* The two stores of dsp_init_logbuf.
LEMMA RegionFirst ==
  ASSUME PowerInv, FirstInv, SuspendRegion
  PROVE  FirstInv'
<1>1. UNCHANGED <<configVars, timerVars, torn>>
  BY DEF SuspendRegion, Suspend
<1>2. MemSize' = MemSize /\ tpc' = tpc
  BY <1>1, MemoryStays DEF timerVars
<1>3. /\ power \in {"region", "size", "base"} /\ power' \in {"size", "place", "base"}
      /\ power' = "place" => dsppf_base' = 0 /\ dsplog_buf_size' = MemSize
      /\ power' = "base" => dsplog_buf_size' = MemSize
  BY DEF SuspendRegion, Suspend, WholeBase, WholeSize, FirstInv, WholeInv, PowerInv, RegionInv
<1> QED
  BY <1>1, <1>2, <1>3 DEF FirstInv, LogInv, WholeInv, RestartInv

\* dsplog_resume leaves the walk where suspend put it; a reset of the DSP
\* puts it at the start.
LEMMA RestartFirst ==
  ASSUME PowerInv, FirstInv, Resume \/ Reset
  PROVE  FirstInv'
<1>1. own \in CoreSet /\ PowerTypeOK'
  BY RestartStep DEF PowerInv, PowerTypeOK
<1>2. UNCHANGED <<configVars, timerVars>> /\ tpc = "idle" /\ power' = "on"
  BY DEF Resume, Reset, TimerQuiet
<1>3. UNCHANGED <<cores, own, tpc, next_ptr>> /\ MemSize' = MemSize
  BY <1>2, MemoryStays DEF configVars, timerVars
<1>4. CASE Resume
  <2>1. /\ UNCHANGED <<mem, written, collided, dsppf_current, curr_seq_num, last, torn>>
        /\ power = "off" /\ dsppf_base' = 0 /\ dsplog_buf_size' = MemSize
    BY <1>4 DEF Resume, dspVars, walkVars
  <2>2. UNCHANGED <<dsppf_base, dsplog_buf_size>>
    BY <2>1 DEF FirstInv, WholeInv
  <2>3. LogMem /\ LogMem'
    BY <1>2, <2>1, LogStays DEF FirstInv, LogInv
  <2>4. WholeInv' /\ RestartInv'
    BY <1>2 DEF WholeInv, RestartInv
  <2>5. Undisturbed' <=> Undisturbed
    BY <1>3, <2>1, <2>2 DEF Undisturbed, OwnRegion
  <2>6. AtRecord' <=> AtRecord
    BY <1>3, <2>1 DEF AtRecord, Here
  <2> QED
    BY <1>2, <2>1, <2>3, <2>4, <2>5, <2>6 DEF FirstInv, LogInv
<1>5. CASE Reset
  <2>1. /\ mem' = ClearedMem /\ written' = [c \in CoreSet |-> 0]
        /\ dsppf_current' = dsppf_base /\ curr_seq_num' = 0 /\ last' = 0
        /\ UNCHANGED <<dsppf_base, dsplog_buf_size>>
    BY <1>5 DEF Reset, regionVars
  <2>2. LifeStart'
    BY <1>1, <1>3, <2>1, MemoryStays DEF LifeStart, ClearedMem
  <2>3. LogMem'
    BY <1>1, <2>2, LifeBegins
  <2>4. WholeInv' /\ RestartInv'
    BY <1>2 DEF WholeInv, RestartInv
  <2>5. ASSUME Undisturbed' PROVE AtRecord'
    <3>1. WalkStart'
      BY <1>2, <1>3, <2>1, <2>5 DEF Undisturbed, OwnRegion, WalkStart
    <3> QED
      BY <1>1, <2>2, <3>1, LifeBegins
  <2> QED
    BY <1>2, <2>3, <2>4, <2>5 DEF FirstInv, LogInv
<1> QED
  BY <1>4, <1>5

----------------------------------------------------------------------------
(* The theorems.                                                           *)

LEMMA PowerStarts == PowerInit => PowerInv
<1> SUFFICES ASSUME PowerInit PROVE PowerInv
  OBVIOUS
<1>1. cores \in CoreNums /\ own \in CoreSet
  BY DEF PowerInit
<1>2. /\ MaxRecords \in Nat /\ MaxLives \in Nat /\ Slots \in Nat /\ MemSize \in Nat
      /\ own * Slots \in Nat /\ own * Slots + Slots <= MemSize /\ Slots > 0
  BY <1>1, RegionInMemory, PowerAssumption
<1>3. /\ mem = ClearedMem /\ written = [c \in CoreSet |-> 0]
      /\ dsppf_base = own * Slots /\ dsplog_buf_size = Slots /\ dsppf_current = own * Slots
      /\ curr_seq_num = 0 /\ dsp_suspended = 0 /\ tpc = "idle" /\ next_ptr = 0
      /\ power = "on" /\ lives = 0 /\ dump_mem_snapshot = 0 /\ max_size = -1
      /\ last = 0 /\ late = 0 /\ collided = FALSE /\ torn = FALSE
      /\ timer_initialized \in {0, 1} /\ timer_armed \in BOOLEAN
  BY DEF PowerInit
<1>4. PowerTypeOK
  <2>1. dsppf_current \in 0..MemSize
    BY <1>2, <1>3
  <2>2. written \in [CoreSet -> 0..MaxRecords]
    BY <1>2, <1>3
  <2>3. mem \in [0..(MemSize - 1) -> {Cleared} \union (CoreSet \X (1..MaxRecords))]
    BY <1>3, ClearedIsMemory
  <2>4. next_ptr \in 0..MemSize /\ curr_seq_num \in 0..MaxRecords /\ lives \in 0..MaxLives
        /\ last \in 0..MaxRecords
    BY <1>2, <1>3
  <2>6. late \in Nat /\ dump_mem_snapshot \in {0, 1} /\ dsp_suspended \in {0, 1}
    BY <1>3
  <2>7. collided \in BOOLEAN /\ torn \in BOOLEAN
        /\ timer_initialized \in {0, 1} /\ timer_armed \in BOOLEAN
    BY <1>3
  <2>5. dsppf_base \in {0, own * Slots} /\ dsplog_buf_size \in {Slots, MemSize}
        /\ max_size \in {-1, Slots, MemSize}
    BY <1>3
  <2> QED
    BY <1>1, <1>3, <2>1, <2>2, <2>3, <2>4, <2>5, <2>6, <2>7 DEF PowerTypeOK
<1>5. RegionInv /\ FlagInv /\ WalkInv /\ LateInv /\ SnapshotInMemory
  BY <1>2, <1>3 DEF RegionInv, FlagInv, WalkInv, LateInv, SnapshotInMemory
<1> QED
  BY <1>4, <1>5 DEF PowerInv

LEMMA PowerStep == PowerInv /\ [PowerNext]_powerVars => PowerInv'
<1> SUFFICES ASSUME PowerInv, [PowerNext]_powerVars PROVE PowerInv'
  OBVIOUS
<1>1. CASE UNCHANGED powerVars
  <2>1. UNCHANGED <<configVars, dspVars, regionVars, walkVars, dsp_suspended, timer_armed, timerVars,
                    power, lives, userVars, last, late, torn>>
    BY <1>1 DEF powerVars
  <2>2. FlagInv' /\ WalkInv' /\ LateInv' /\ RegionInv'
    BY <2>1, WalkStays
  <2>3. PowerTypeOK'
    <3>1. UNCHANGED <<mem, written, dsppf_base, dsplog_buf_size, dsppf_current, next_ptr, max_size>>
      BY <2>1 DEF dspVars, regionVars, walkVars, timerVars, userVars
    <3>2. UNCHANGED <<collided, curr_seq_num, dsp_suspended, tpc, power, lives, dump_mem_snapshot,
                      last, late, torn>>
      BY <2>1 DEF dspVars, walkVars, timerVars, userVars
    <3>3. PowerTypeOK
      BY DEF PowerInv
    <3>4. /\ cores' \in CoreNums /\ own' \in CoreSet'
          /\ mem' \in [0..(MemSize' - 1) -> {Cleared} \union (CoreSet' \X (1..MaxRecords))]
          /\ written' \in [CoreSet' -> 0..MaxRecords]
          /\ dsppf_base' \in {0, (own * Slots)'} /\ dsplog_buf_size' \in {Slots, MemSize'}
          /\ dsppf_current' \in 0..MemSize' /\ next_ptr' \in 0..MemSize'
          /\ max_size' \in {-1, Slots, MemSize'}
          /\ timer_initialized' \in {0, 1} /\ timer_armed' \in BOOLEAN
      BY <2>1, <3>1, <3>3, TypesStay
    <3> QED
      BY <3>2, <3>3, <3>4 DEF PowerTypeOK
  <2>4. SnapshotInMemory'
    BY <2>1, MemoryStays DEF PowerInv, SnapshotInMemory, regionVars, userVars
  <2> QED
    BY <2>2, <2>3, <2>4 DEF PowerInv
<1>2. CASE PowerNext
  BY <1>2, WriteStep, TimerStep, SuspendStepOne, RegionStep, RestartStep, UserStep
     DEF PowerNext, SuspendStep
<1> QED
  BY <1>1, <1>2

THEOREM PowerInvariant == PowerSpec => []PowerInv
  BY PowerStarts, PowerStep, PTL DEF PowerSpec

\* The types of the state, for every build, region and number of records.
THEOREM PowerTypes == PowerSpec => []PowerTypeOK
<1>1. PowerInv => PowerTypeOK
  BY DEF PowerInv
<1> QED
  BY <1>1, PowerInvariant, PTL

\* Whatever suspend stores under the callback, and in whatever order
\* dsp_init_logbuf stores the region, the callback reads slots of the log
\* memory only: a place past the region is tested, or replaced, before the
\* next record is looked at.
THEOREM WalkStaysInMemory == PowerSpec => []WalkInMemory
<1>1. PowerInv => WalkInMemory
  <2> SUFFICES ASSUME PowerInv PROVE WalkInMemory
    OBVIOUS
  <2>1. MemSize \in Nat /\ dsppf_current \in 0..MemSize
    BY WalkTypes DEF PowerInv, PlacesInv
  <2>2. tpc \in {"judge", "seq", "empty", "take"} => dsppf_current < MemSize
    BY DEF PowerInv, WalkInv
  <2>3. dsppf_current < MemSize => dsppf_current \in 0..(MemSize - 1)
    BY <2>1
  <2> QED
    BY <2>2, <2>3 DEF WalkInMemory
<1> QED
  BY <1>1, PowerInvariant, PTL

\* A snapshot whose size was checked against one region and whose copy
\* starts at another stays in the log memory, unless dsp_init_logbuf stores
\* the size before the base and has not come to the base.
THEOREM SnapshotStaysInMemory == PowerSpec => []SnapshotInMemory
<1>1. PowerInv => SnapshotInMemory
  BY DEF PowerInv
<1> QED
  BY <1>1, PowerInvariant, PTL

\* Once suspend has set its flag, at most the record in progress is taken.
THEOREM SuspendStopsTheWalk == PowerSpec => []SuspendStops
<1>1. PowerInv => SuspendStops
  BY DEF PowerInv, LateInv, SuspendStops
<1> QED
  BY <1>1, PowerInvariant, PTL

LEMMA FirstStarts == PowerInit => FirstInv
<1> SUFFICES ASSUME PowerInit PROVE FirstInv
  OBVIOUS
<1>1. PowerTypeOK /\ own \in CoreSet
  BY PowerStarts DEF PowerInv, PowerTypeOK
<1>2. /\ mem = ClearedMem /\ written = [c \in CoreSet |-> 0]
      /\ dsppf_current = own * Slots /\ last = 0 /\ curr_seq_num = 0 /\ tpc = "idle" /\ power = "on"
  BY DEF PowerInit
<1>3. LogMem /\ AtRecord
  BY <1>1, <1>2, LifeStarts DEF LifeStart, WalkStart
<1> QED
  BY <1>2, <1>3 DEF FirstInv, LogInv, WholeInv, RestartInv

LEMMA FirstStep == PowerInv /\ FirstInv /\ [PowerNext]_powerVars => FirstInv'
<1> SUFFICES ASSUME PowerInv, FirstInv, [PowerNext]_powerVars PROVE FirstInv'
  OBVIOUS
<1>1. CASE UNCHANGED powerVars
  BY <1>1, FirstStays DEF powerVars
<1>2. CASE DumpMemorySnapshot \/ SnapshotCheck \/ SnapshotCopy
  BY <1>2, FirstStays DEF DumpMemorySnapshot, SnapshotCheck, SnapshotCopy, User
<1> QED
  BY <1>1, <1>2, WriteFirst, TimerFirst, SuspendFirst, RegionFirst, RestartFirst
     DEF PowerNext, SuspendStep

THEOREM FirstInvariant == PowerSpec => []FirstInv
  BY PowerInvariant, FirstStarts, FirstStep, PTL DEF PowerSpec

\* In every life of the DSP the records come from the first one on, none is
\* skipped or repeated and none is another core's, whatever suspend, resume
\* and reset store under the callback, unless they fell into the handling of
\* a record or gave the instance the other cores' memory, or the DSP overran
\* the walk: the records are in their slots, the place is the next one's,
\* and a slot the DSP has not come to again has a number below the last one's.
THEOREM TakesFromTheFirst == PowerSpec => FromTheFirst
<1>1. ASSUME PowerInv, FirstInv, tpc = "take", tpc' = "load", OwnRegion, torn = FALSE,
             collided = FALSE, [PowerNext]_powerVars
      PROVE  Here = <<own, last + 1>>
  <2>1. Undisturbed
    BY <1>1 DEF Undisturbed
  <2>2. power \in {"on", "other first", "flag"}
    BY <1>1 DEF FirstInv, RestartInv
  <2>3. LogMem /\ AtRecord
    BY <1>1, <2>1, <2>2 DEF FirstInv, LogInv, Emptied
  <2> QED
    BY <1>1, <2>3, TakesTheNext
<1>2. PowerInv /\ FirstInv /\ [PowerNext]_powerVars
        => [tpc = "take" /\ tpc' = "load" /\ OwnRegion /\ torn = FALSE /\ collided = FALSE
              => Here = <<own, last + 1>>]_powerVars
  BY <1>1
<1> QED
  BY <1>2, PowerInvariant, FirstInvariant, PTL DEF PowerSpec, FromTheFirst
=============================================================================
