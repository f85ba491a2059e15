----------------------------- MODULE DsplogScan -----------------------------
(***************************************************************************)
(* The timer's walk over the circular log buffers that the DSP cores fill: *)
(* dsp_printk_timer, which tells new records from old ones by their        *)
(* sequence numbers.  What becomes of a record once it is found to be new  *)
(* (dsp_log_add_to_ring_buffer) is DsplogCapture.                          *)
(*                                                                         *)
(* A slot holds the number of the record in it, 1, 2, 3 ... in the order   *)
(* the core wrote them, or 0 where the buffer was cleared.  Sequence       *)
(* numbers are 32 bits wide in the code and scaled down here together with *)
(* the two gaps it compares them by.                                       *)
(***************************************************************************)
EXTENDS Integers, Sequences, SequencesExt

CONSTANTS
  Cores,       \* the registered cores, in the order of the queue (a sequence)
  Slots,       \* dsplog_buf_size / DSPLOG_ENTRY_SIZE
  SeqSpan,      \* sequence numbers are taken modulo this: 2^32
  WrapGap,     \* 0xF0000000
  JumpGap,     \* 0xF000000
  FirstSeqs,   \* sequence numbers the DSP may have come to before record 1
  MaxRecords,  \* bound: records a core writes
  MaxStarts    \* bound: START ioctls

CoreSet == ToSet(Cores)

\* A core has at least two slots, and far fewer than the gap that tells a
\* wrap of the numbers from an old record.
ASSUME ScanAssumption ==
  /\ Cores \in Seq(CoreSet) /\ Cores # <<>>
  /\ Slots \in Nat \ {0, 1} /\ SeqSpan \in Nat
  /\ WrapGap \in Slots..(SeqSpan - 1) /\ JumpGap \in Nat
  /\ FirstSeqs \subseteq 0..(SeqSpan - 1)
  /\ MaxRecords \in Nat /\ MaxStarts \in Nat

VARIABLES
  first_seq,        \* the sequence number of record 1
  mem,              \* the DSP's log buffer, by core and slot
  written,          \* how many records each core has written
  dsppf_current,    \* the slot the timer looks at next
  curr_seq_num,     \* the last sequence number it took
  seq_num_wrapped,
  cap_info,         \* the cores the running callback still serves; << >> between callbacks
  i,                \* the place in cap_info it serves next
  starts,           \* how many STARTs there were
  stored,           \* history: the last record taken since START, 0 for none
  overrun           \* history: a core overwrote a record not yet taken since START

scanVars == <<first_seq, mem, written, dsppf_current, curr_seq_num, seq_num_wrapped, cap_info, i,
              starts, stored, overrun>>

\* A cleared slot reads as sequence number 0 and format_addr 0; a record's
\* format_addr is taken to be non-zero.
SeqNumOf(record) == IF record = 0 THEN 0 ELSE (first_seq + record - 1) % SeqSpan

----------------------------------------------------------------------------
(* The DSP writes the next record into the next slot.                      *)

DspWrite(c) ==
  /\ written[c] < MaxRecords
  /\ LET slot == written[c] % Slots IN
       /\ mem' = [mem EXCEPT ![c][slot] = written[c] + 1]
       /\ overrun' = [overrun EXCEPT ![c] = @ \/ (stored[c] # 0 /\ mem[c][slot] > stored[c])]
  /\ written' = [written EXCEPT ![c] = @ + 1]
  /\ UNCHANGED <<first_seq, dsppf_current, curr_seq_num, seq_num_wrapped, cap_info, i, starts,
                 stored>>

----------------------------------------------------------------------------
(* dsp_printk_timer.                                                       *)

\* Faulty: the gap is compared the wrong way round, or left out.
StaleInverted(seq, curr) == seq < curr /\ curr # SeqSpan - 1 /\ curr - seq > WrapGap
StaleWithoutGap(seq, curr) == seq < curr /\ curr # SeqSpan - 1

\* The record is older than the last one taken, and not by so much that
\* the sequence numbers must have wrapped.
Stale(seq, curr) == seq < curr /\ curr # SeqSpan - 1 /\ curr - seq < WrapGap

\* The record is so far ahead that it must be from before a wrap.
Jumped(seq, curr) == curr > 0 /\ seq > curr /\ seq - curr > JumpGap

\* Faulty: the test for the wrap is the wrong way round.
EmptyInverted(record, seq, wrapped) == seq = 0 /\ wrapped = 1 /\ record = 0

\* The slot was never written.
Empty(record, seq, wrapped) == seq = 0 /\ wrapped = 0 /\ record = 0

TimerTick ==
  /\ cap_info = <<>>
  /\ cap_info' = Cores /\ i' = 1
  /\ UNCHANGED <<first_seq, mem, written, dsppf_current, curr_seq_num, seq_num_wrapped, starts,
                 stored, overrun>>

\* Serve the next core: take its next record, or drop the core from this
\* callback and begin another round.
RemoveCore == cap_info' = RemoveAt(cap_info, i) /\ i' = 1

NextCore == cap_info' = cap_info /\ i' = IF i = Len(cap_info) THEN 1 ELSE i + 1

\* Faulty: the place wraps one slot too late.
NextSlotLate(slot) == IF slot + 1 > Slots THEN 0 ELSE slot + 1

NextSlot(slot) == IF slot + 1 >= Slots THEN 0 ELSE slot + 1

\* Faulty: an old record is stepped over, or the core stays in the round.
SkipStaleAdvances(c, seq) ==
  /\ Stale(seq, curr_seq_num[c])
  /\ RemoveCore
  /\ dsppf_current' = [dsppf_current EXCEPT ![c] = NextSlot(@)]
  /\ UNCHANGED <<curr_seq_num, seq_num_wrapped, stored>>

SkipStaleStays(c, seq) ==
  /\ Stale(seq, curr_seq_num[c])
  /\ NextCore
  /\ UNCHANGED <<dsppf_current, curr_seq_num, seq_num_wrapped, stored>>

SkipStale(c, seq) ==
  /\ Stale(seq, curr_seq_num[c])
  /\ RemoveCore
  /\ UNCHANGED <<dsppf_current, curr_seq_num, seq_num_wrapped, stored>>

SkipJumped(c, seq) ==
  /\ ~ Stale(seq, curr_seq_num[c]) /\ Jumped(seq, curr_seq_num[c])
  /\ curr_seq_num' = [curr_seq_num EXCEPT ![c] = seq]
  /\ RemoveCore
  /\ UNCHANGED <<dsppf_current, seq_num_wrapped, stored>>

TakeOrEmpty(c, seq) ==
  /\ ~ Stale(seq, curr_seq_num[c]) /\ ~ Jumped(seq, curr_seq_num[c])
  /\ seq_num_wrapped' =
       [seq_num_wrapped EXCEPT ![c] = IF curr_seq_num[c] = SeqSpan - 1 THEN 1 ELSE @]
  /\ curr_seq_num' = [curr_seq_num EXCEPT ![c] = seq]
  /\ LET record == mem[c][dsppf_current[c]] IN
       IF Empty(record, seq, seq_num_wrapped'[c])
         THEN RemoveCore /\ UNCHANGED <<dsppf_current, stored>>
         ELSE /\ stored' = [stored EXCEPT ![c] = record]
              /\ dsppf_current' = [dsppf_current EXCEPT ![c] = NextSlot(@)]
              /\ NextCore

TimerServe ==
  /\ cap_info # <<>>
  /\ LET c == cap_info[i]
         seq == SeqNumOf(mem[c][dsppf_current[c]])
     IN  SkipStale(c, seq) \/ SkipJumped(c, seq) \/ TakeOrEmpty(c, seq)
  /\ UNCHANGED <<first_seq, mem, written, starts, overrun>>

\* START forgets the sequence number and not the place, also in the middle
\* of a callback.
StartCap(c) ==
  /\ starts < MaxStarts /\ starts' = starts + 1
  /\ curr_seq_num' = [curr_seq_num EXCEPT ![c] = 0]
  /\ stored' = [stored EXCEPT ![c] = 0] /\ overrun' = [overrun EXCEPT ![c] = FALSE]
  /\ UNCHANGED <<first_seq, mem, written, dsppf_current, seq_num_wrapped, cap_info, i>>

----------------------------------------------------------------------------

\* dsplog_init cleared the DSP's memory; the instances are new.
ScanInit ==
  /\ first_seq \in FirstSeqs
  /\ mem = [c \in CoreSet |-> [s \in 0..(Slots - 1) |-> 0]]
  /\ written = [c \in CoreSet |-> 0]
  /\ dsppf_current = [c \in CoreSet |-> 0]
  /\ curr_seq_num = [c \in CoreSet |-> 0]
  /\ seq_num_wrapped = [c \in CoreSet |-> 0]
  /\ cap_info = <<>> /\ i = 1
  /\ starts = 0
  /\ stored = [c \in CoreSet |-> 0]
  /\ overrun = [c \in CoreSet |-> FALSE]

ScanNext ==
  \/ \E c \in CoreSet : DspWrite(c) \/ StartCap(c)
  \/ TimerTick \/ TimerServe

ScanSpec == ScanInit /\ [][ScanNext]_scanVars

\* The timer re-arms itself, and its callback is not preempted for ever.  A
\* core may fall silent after any record: nothing is assumed of the DSP.
ScanFairSpec == ScanSpec /\ WF_scanVars(TimerTick) /\ WF_scanVars(TimerServe)

----------------------------------------------------------------------------
(* Properties.                                                             *)

ScanTypeOK ==
  /\ first_seq \in FirstSeqs
  /\ mem \in [CoreSet -> [0..(Slots - 1) -> 0..MaxRecords]]
  /\ written \in [CoreSet -> 0..MaxRecords]
  /\ dsppf_current \in [CoreSet -> 0..(Slots - 1)]
  /\ curr_seq_num \in [CoreSet -> 0..(SeqSpan - 1)]
  /\ seq_num_wrapped \in [CoreSet -> {0, 1}]
  /\ cap_info \in Seq(CoreSet) /\ Len(cap_info) <= Len(Cores)
  /\ i \in 1..Len(Cores)
  /\ starts \in 0..MaxStarts
  /\ stored \in [CoreSet -> 0..MaxRecords]
  /\ overrun \in [CoreSet -> BOOLEAN]

\* The core has not come to the last sequence number before a wrap.
BeforeWrap(c) == first_seq + written[c] < SeqSpan

\* The walk has taken all there is, and the numbers have wrapped less than a
\* lap ago or come to their end: the slot ahead, an old one, counts as new.
CaughtUpAtWrap(c) ==
  /\ stored[c] = written[c]
  /\ first_seq + written[c] >= SeqSpan /\ (first_seq + written[c]) % SeqSpan < Slots

\* Records are taken in the order they were written and none twice since
\* START, although the walk meets old records in the slots ahead, through
\* every wrap of the sequence numbers, unless it has caught up there.
TakenInOrder ==
  [][\A c \in CoreSet :
       ~ CaughtUpAtWrap(c) /\ stored'[c] # stored[c] /\ stored'[c] # 0
         => stored'[c] > stored[c]]_scanVars

\* No record is passed over unless the core overwrote one that was not yet
\* taken.
TakenWithoutGap ==
  [][\A c \in CoreSet :
       (/\ ~ CaughtUpAtWrap(c) /\ overrun[c] = FALSE
        /\ stored'[c] # stored[c] /\ stored[c] # 0 /\ stored'[c] # 0)
         => stored'[c] = stored[c] + 1]_scanVars

\* Until the numbers wrap, the walk does not step over a slot that was never
\* written as if there were a record in it.
RecordsOnly ==
  [][\A c \in CoreSet :
       BeforeWrap(c) /\ dsppf_current'[c] # dsppf_current[c]
         => mem[c][dsppf_current[c]] # 0]_scanVars

\* The last record has the last sequence number before a wrap, or the first
\* after it, and the walk has taken it: none of the slots ahead, all of them
\* old, is told from a new one.
IdleAtWrap(c) == stored[c] = written[c] /\ first_seq + written[c] \in {SeqSpan, SeqSpan + 1}

\* A callback comes to its end, wherever the cores stop writing and START
\* comes in between, except while one of them is idle at a wrap.
CallbackEndsUnlessWrapped ==
  []<>(cap_info = <<>> \/ \E c \in CoreSet : IdleAtWrap(c))

\* The walk catches up with a core in the end, wherever the core stops, and
\* the last record it took is then the last one written, unless a START has
\* intervened and nothing was written since.  This fails for a core that
\* stopped less than a lap after a wrap, and for every core once the walk
\* goes round for ever on one that is idle at a wrap.
CatchesUp ==
  \A c \in CoreSet :
    \/ <>[](dsppf_current[c] = written[c] % Slots /\ stored[c] \in {0, written[c]})
    \/ []<>CaughtUpAtWrap(c)
    \/ \E d \in CoreSet : []<>IdleAtWrap(d)

(* What a comment of the code says of it, and TLC refutes.                 *)

\* dsplog_timer.c:465, "Remove the no data cap_info": a core with nothing
\* new is dropped from the callback, so that the callback comes to its end.
CallbackEnds == []<>(cap_info = <<>>)
=============================================================================
