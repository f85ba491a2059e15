-------------------------- MODULE DsplogScanProofs --------------------------
(***************************************************************************)
(* The timer's walk takes every record once and in order, for every number *)
(* of cores and slots and every first sequence number, and through every   *)
(* wrap of the numbers unless it catches up with the DSP there.            *)
(***************************************************************************)
EXTENDS DsplogScan, SlotArithmetic, TLAPS

----------------------------------------------------------------------------
(* The inductive invariant.                                                *)

\* The timer serves a core that is still in this callback's array.
PlaceInv == cap_info # <<>> => i \in 1..Len(cap_info)

\* A core's buffer holds its last records and nothing else, each in its slot.
MemInv(c) ==
  /\ \A s \in 0..(Slots - 1) :
       mem[c][s] # 0 =>
         /\ (mem[c][s] - 1) % Slots = s
         /\ mem[c][s] <= written[c] /\ written[c] < mem[c][s] + Slots
  /\ \A r \in 1..written[c] : written[c] < r + Slots => mem[c][(r - 1) % Slots] = r

\* What the timer knows of a core.  The slot it looks at is the one after
\* the last record taken.  When that was the last one written, the number it
\* compares with is that record's, which tells the old record in the slot
\* from a new one; or the slot is cleared.
WalkInv(c) ==
  /\ stored[c] <= written[c]
  /\ stored[c] # 0 =>
       /\ dsppf_current[c] = stored[c] % Slots
       /\ overrun[c] = FALSE => written[c] <= stored[c] + Slots
       /\ stored[c] = written[c] /\ ~ CaughtUpAtWrap(c) =>
            \/ curr_seq_num[c] = SeqNumOf(stored[c])
            \/ mem[c][dsppf_current[c]] = 0

\* Until the numbers wrap, the timer does not believe they have.
NumberInv(c) ==
  BeforeWrap(c) =>
    seq_num_wrapped[c] = 0 /\ (curr_seq_num[c] = 0 \/ curr_seq_num[c] < first_seq + written[c])

CoreInv(c) == MemInv(c) /\ WalkInv(c) /\ NumberInv(c)

ScanInv == ScanTypeOK /\ PlaceInv /\ \A c \in CoreSet : CoreInv(c)

----------------------------------------------------------------------------
(* Types.                                                                  *)

LEMMA CoresType == Len(Cores) \in Nat \ {0} /\ \A j \in 1..Len(Cores) : Cores[j] \in CoreSet
BY ScanAssumption

LEMMA SeqNumType ==
  ASSUME ScanTypeOK, NEW r \in 0..MaxRecords
  PROVE  SeqNumOf(r) \in 0..(SeqSpan - 1)
<1>1. SeqSpan \in Nat \ {0} /\ first_seq \in Nat /\ r \in Nat
  BY ScanAssumption DEF ScanTypeOK
<1>2. CASE r = 0
  BY <1>1, <1>2 DEF SeqNumOf
<1>3. CASE r # 0
  <2>1. first_seq + r - 1 \in Nat
    BY <1>1, <1>3
  <2>2. (first_seq + r - 1) % SeqSpan \in 0..(SeqSpan - 1)
    BY <1>1, <2>1, ModRange
  <2> QED
    BY <2>2, <1>3 DEF SeqNumOf
<1> QED
  BY <1>2, <1>3

LEMMA NextSlotType ==
  ASSUME NEW s \in 0..(Slots - 1)
  PROVE  NextSlot(s) \in 0..(Slots - 1)
BY ScanAssumption DEF NextSlot

\* Removing a core leaves a shorter array of the other cores.
LEMMA RemoveType ==
  ASSUME NEW s \in Seq(CoreSet), NEW j \in 1..Len(s)
  PROVE  RemoveAt(s, j) \in Seq(CoreSet) /\ Len(RemoveAt(s, j)) = Len(s) - 1
<1>1. SubSeq(s, 1, j - 1) \in Seq(CoreSet) /\ Len(SubSeq(s, 1, j - 1)) = j - 1
  OBVIOUS
<1>2. SubSeq(s, j + 1, Len(s)) \in Seq(CoreSet) /\ Len(SubSeq(s, j + 1, Len(s))) = Len(s) - j
  OBVIOUS
<1> DEFINE front == SubSeq(s, 1, j - 1)
           back == SubSeq(s, j + 1, Len(s))
<1>3. RemoveAt(s, j) = front \o back
  BY DEF RemoveAt
<1> HIDE DEF front, back
<1>4. front \o back \in Seq(CoreSet) /\ Len(front \o back) = Len(front) + Len(back)
  BY <1>1, <1>2 DEF front, back
<1>5. Len(front) = j - 1 /\ Len(back) = Len(s) - j /\ Len(s) \in Nat
  BY <1>1, <1>2 DEF front, back
<1> QED
  BY <1>3, <1>4, <1>5

\* The next core, or one core less: the callback's array and place.
LEMMA RoundType ==
  ASSUME ScanTypeOK, PlaceInv, cap_info # <<>>, RemoveCore \/ NextCore
  PROVE  /\ cap_info' \in Seq(CoreSet) /\ Len(cap_info') <= Len(Cores)
         /\ i' \in 1..Len(Cores) /\ PlaceInv'
<1>1. cap_info \in Seq(CoreSet) /\ Len(cap_info) <= Len(Cores) /\ i \in 1..Len(cap_info)
  BY DEF ScanTypeOK, PlaceInv
<1>2. CASE RemoveCore
  <2>1. /\ cap_info' \in Seq(CoreSet) /\ Len(cap_info') = Len(cap_info) - 1 /\ i' = 1
    BY <1>1, <1>2, RemoveType DEF RemoveCore
  <2>2. cap_info' # <<>> => Len(cap_info') >= 1
    BY <2>1
  <2> QED
    BY <1>1, <2>1, <2>2, CoresType DEF PlaceInv
<1>3. CASE NextCore
  BY <1>1, <1>3, CoresType DEF NextCore, PlaceInv
<1> QED
  BY <1>2, <1>3

----------------------------------------------------------------------------
(* The DSP and START.                                                      *)

\* A core nobody touches.
LEMMA CoreFrame ==
  ASSUME NEW c \in CoreSet, CoreInv(c), first_seq' = first_seq, mem'[c] = mem[c],
         written'[c] = written[c], dsppf_current'[c] = dsppf_current[c],
         curr_seq_num'[c] = curr_seq_num[c], seq_num_wrapped'[c] = seq_num_wrapped[c],
         stored'[c] = stored[c], overrun'[c] = overrun[c]
  PROVE  CoreInv(c)'
BY DEF CoreInv, MemInv, WalkInv, NumberInv, BeforeWrap, CaughtUpAtWrap, SeqNumOf

LEMMA DspWriteType ==
  ASSUME ScanTypeOK, NEW c \in CoreSet, DspWrite(c)
  PROVE  ScanTypeOK'
<1>1. written[c] \in Nat /\ written[c] + 1 \in 0..MaxRecords /\ Slots \in Nat \ {0}
  <2>1. written[c] \in 0..MaxRecords /\ MaxRecords \in Nat /\ Slots \in Nat \ {0}
    BY ScanAssumption DEF ScanTypeOK
  <2>2. written[c] < MaxRecords
    BY DEF DspWrite
  <2> QED
    BY <2>1, <2>2
<1>2. written[c] % Slots \in 0..(Slots - 1)
  BY <1>1, ModRange
<1>3. mem' \in [CoreSet -> [0..(Slots - 1) -> 0..MaxRecords]]
  BY <1>1, <1>2 DEF ScanTypeOK, DspWrite
<1>4. overrun' \in [CoreSet -> BOOLEAN]
  BY Zenon DEF ScanTypeOK, DspWrite
<1>5. written' \in [CoreSet -> 0..MaxRecords]
  BY <1>1 DEF ScanTypeOK, DspWrite
<1> QED
  BY <1>3, <1>4, <1>5 DEF ScanTypeOK, DspWrite

\* A record more in the buffer takes the place of the oldest.
LEMMA DspWriteMem ==
  ASSUME ScanTypeOK, NEW c \in CoreSet, DspWrite(c), MemInv(c)
  PROVE  MemInv(c)'
<1> DEFINE w == written[c]
           slot == w % Slots
<1>1. /\ w \in Nat /\ Slots \in Nat \ {0, 1} /\ written'[c] = w + 1
      /\ mem[c] \in [0..(Slots - 1) -> Nat]
  <2>1. w \in Nat /\ Slots \in Nat \ {0, 1}
    BY ScanAssumption DEF ScanTypeOK
  <2>2. mem[c] \in [0..(Slots - 1) -> 0..MaxRecords]
    BY DEF ScanTypeOK
  <2>3. written'[c] = w + 1
    BY DEF ScanTypeOK, DspWrite
  <2> QED
    BY <2>1, <2>2, <2>3
<1>2. slot \in 0..(Slots - 1)
  BY <1>1, ModRange
<1>3. \A s \in 0..(Slots - 1) : mem'[c][s] = IF s = slot THEN w + 1 ELSE mem[c][s]
  BY <1>2 DEF ScanTypeOK, DspWrite
<1> HIDE DEF slot
<1>4. ASSUME NEW s \in 0..(Slots - 1), mem'[c][s] # 0
      PROVE  /\ (mem'[c][s] - 1) % Slots = s
             /\ mem'[c][s] <= written'[c] /\ written'[c] < mem'[c][s] + Slots
  <2>1. CASE s = slot
    <3>1. mem'[c][s] = w + 1 /\ (w + 1) - 1 = w
      BY <2>1, <1>1, <1>3
    <3> QED
      BY <2>1, <3>1, <1>1 DEF slot
  <2>2. CASE s # slot
    <3> DEFINE r == mem[c][s]
    <3>1. mem'[c][s] = r /\ r \in Nat \ {0}
      BY <2>2, <1>1, <1>3, <1>4
    <3>2. (r - 1) % Slots = s /\ r <= w /\ w < r + Slots
      BY <3>1 DEF MemInv
    <3> HIDE DEF r
    <3>3. ASSUME w + 1 = r + Slots
          PROVE  FALSE
      <4>1. r - 1 \in Nat /\ w = (r - 1) + Slots
        BY <3>1, <3>3, <1>1
      <4>2. w % Slots = (r - 1) % Slots
        BY <4>1, <1>1, ModLap
      <4> QED
        BY <4>2, <3>2, <2>2 DEF slot
    <3> QED
      BY <3>1, <3>2, <3>3, <1>1
  <2> QED
    BY <2>1, <2>2
<1>5. ASSUME NEW r \in 1..(w + 1), w + 1 < r + Slots
      PROVE  mem'[c][(r - 1) % Slots] = r
  <2>0. r \in 1..(w + 1) /\ r - 1 \in Nat
    BY <1>1
  <2>1. r - 1 \in Nat /\ (r - 1) % Slots \in 0..(Slots - 1)
    BY <2>0, <1>1, ModRange
  <2>2. CASE r = w + 1
    <3>1. r - 1 = w
      BY <2>2, <1>1
    <3> QED
      BY <3>1, <2>1, <2>2, <1>3 DEF slot
  <2>3. CASE r # w + 1
    <3>1. r \in 1..w /\ w < r + Slots
      BY <1>1, <1>5, <2>3
    <3>2. (r - 1) % Slots # slot
      <4>1. r - 1 <= w /\ w < (r - 1) + Slots /\ r - 1 # w
        BY <1>1, <1>5, <2>3
      <4> QED
        BY <4>1, <2>1, <1>1, ModSame DEF slot
    <3>3. mem[c][(r - 1) % Slots] = r
      BY <3>1 DEF MemInv
    <3> QED
      BY <3>2, <3>3, <2>1, <1>3
  <2> QED
    BY <2>2, <2>3
<1> QED
  BY <1>1, <1>4, <1>5 DEF MemInv

\* The record written is newer than any taken; if it overwrites the one the
\* timer is about to take, this is noted.
LEMMA DspWriteWalk ==
  ASSUME ScanTypeOK, NEW c \in CoreSet, DspWrite(c), CoreInv(c)
  PROVE  WalkInv(c)' /\ NumberInv(c)'
<1> DEFINE w == written[c]
           slot == w % Slots
           st == stored[c]
<1>1. w \in Nat /\ st \in Nat /\ Slots \in Nat \ {0, 1}
  BY ScanAssumption DEF ScanTypeOK
<1>2. first_seq \in Nat /\ SeqSpan \in Nat /\ curr_seq_num[c] \in Nat
  BY ScanAssumption DEF ScanTypeOK
<1>3. /\ first_seq' = first_seq /\ written'[c] = w + 1
      /\ dsppf_current' = dsppf_current /\ curr_seq_num' = curr_seq_num
      /\ seq_num_wrapped' = seq_num_wrapped /\ stored' = stored
  BY DEF ScanTypeOK, DspWrite
<1>4. overrun'[c] = FALSE => overrun[c] = FALSE /\ ~ (st # 0 /\ mem[c][slot] > st)
  BY Zenon DEF ScanTypeOK, DspWrite
<1> HIDE DEF slot
<1>5. st <= w /\ (st # 0 => dsppf_current[c] = st % Slots /\ (overrun[c] = FALSE => w <= st + Slots))
  BY DEF CoreInv, WalkInv
<1>6. ASSUME st # 0, overrun'[c] = FALSE
      PROVE  w + 1 <= st + Slots
  <2>1. w <= st + Slots
    BY <1>4, <1>5, <1>6
  <2>2. ASSUME w = st + Slots
        PROVE  FALSE
    <3>1. slot = st % Slots
      BY <2>2, <1>1, ModLap DEF slot
    <3>2. st + 1 \in 1..w /\ w < (st + 1) + Slots /\ (st + 1) - 1 = st
      BY <2>2, <1>1
    <3>3. mem[c][((st + 1) - 1) % Slots] = st + 1
      BY <3>2 DEF CoreInv, MemInv
    <3>4. mem[c][slot] = st + 1
      BY <3>1, <3>2, <3>3
    <3>5. st + 1 > st
      BY <1>1
    <3> QED
      BY <3>4, <3>5, <1>4, <1>6
  <2> QED
    BY <2>1, <2>2, <1>1
<1>7. st <= w + 1 /\ st # w + 1
  BY <1>1, <1>5
<1>8. WalkInv(c)'
  BY <1>3, <1>5, <1>6, <1>7 DEF WalkInv
<1>9. NumberInv(c)'
  BY <1>1, <1>2, <1>3 DEF CoreInv, NumberInv, BeforeWrap
<1> QED
  BY <1>8, <1>9

LEMMA DspWriteStep ==
  ASSUME ScanInv, NEW d \in CoreSet, DspWrite(d)
  PROVE  ScanInv'
<1>1. ScanTypeOK'
  BY DspWriteType DEF ScanInv
<1>2. PlaceInv'
  BY DEF ScanInv, PlaceInv, DspWrite
<1>3. ASSUME NEW c \in CoreSet
      PROVE  CoreInv(c)'
  <2>1. CASE c = d
    BY <2>1, DspWriteMem, DspWriteWalk DEF ScanInv, CoreInv
  <2>2. CASE c # d
    <3>1. /\ first_seq' = first_seq /\ mem'[c] = mem[c] /\ written'[c] = written[c]
          /\ dsppf_current'[c] = dsppf_current[c] /\ curr_seq_num'[c] = curr_seq_num[c]
          /\ seq_num_wrapped'[c] = seq_num_wrapped[c] /\ stored'[c] = stored[c]
          /\ overrun'[c] = overrun[c]
      BY <2>2 DEF DspWrite, ScanInv, ScanTypeOK
    <3> QED
      BY <3>1, CoreFrame DEF ScanInv
  <2> QED
    BY <2>1, <2>2
<1> QED
  BY <1>1, <1>2, <1>3 DEF ScanInv

\* START forgets what was taken, and with it every promise about it.
LEMMA StartCapStep ==
  ASSUME ScanInv, NEW d \in CoreSet, StartCap(d)
  PROVE  ScanInv'
<1>1. ScanTypeOK'
  <2>1. starts' \in 0..MaxStarts
    BY ScanAssumption DEF ScanInv, ScanTypeOK, StartCap
  <2>2. 0 \in 0..(SeqSpan - 1) /\ 0 \in 0..MaxRecords
    BY ScanAssumption
  <2> QED
    BY <2>1, <2>2 DEF ScanInv, ScanTypeOK, StartCap
<1>2. PlaceInv'
  BY DEF ScanInv, PlaceInv, StartCap
<1>3. ASSUME NEW c \in CoreSet
      PROVE  CoreInv(c)'
  <2>1. /\ UNCHANGED <<first_seq, mem, written, dsppf_current, seq_num_wrapped>>
        /\ c = d => curr_seq_num'[c] = 0 /\ stored'[c] = 0
        /\ c # d => /\ curr_seq_num'[c] = curr_seq_num[c] /\ stored'[c] = stored[c]
                    /\ overrun'[c] = overrun[c]
    BY DEF StartCap, ScanInv, ScanTypeOK
  <2>2. CASE c = d
    <3>1. MemInv(c)'
      BY <2>1 DEF ScanInv, CoreInv, MemInv
    <3>2. written[c] >= 0
      BY DEF ScanInv, ScanTypeOK
    <3>3. WalkInv(c)' /\ NumberInv(c)'
      BY <2>1, <2>2, <3>2 DEF ScanInv, CoreInv, WalkInv, NumberInv, BeforeWrap
    <3> QED
      BY <3>1, <3>3 DEF CoreInv
  <2>3. CASE c # d
    BY <2>1, <2>3, CoreFrame DEF ScanInv
  <2> QED
    BY <2>2, <2>3
<1> QED
  BY <1>1, <1>2, <1>3 DEF ScanInv

----------------------------------------------------------------------------
(* The timer.                                                              *)

\* The record the timer looks at.
Here(c) == mem[c][dsppf_current[c]]

LEMMA HereType ==
  ASSUME ScanInv, NEW c \in CoreSet
  PROVE  /\ dsppf_current[c] \in 0..(Slots - 1)
         /\ Here(c) \in 0..MaxRecords /\ SeqNumOf(Here(c)) \in 0..(SeqSpan - 1)
<1>1. dsppf_current[c] \in 0..(Slots - 1) /\ mem[c] \in [0..(Slots - 1) -> 0..MaxRecords]
  BY DEF ScanInv, ScanTypeOK
<1>2. Here(c) \in 0..MaxRecords
  BY <1>1 DEF Here
<1> QED
  BY <1>1, <1>2, SeqNumType DEF ScanInv

\* A record in the slot is one of the last ones; until the numbers wrap, its
\* number counts from the first one.
LEMMA HereRecord ==
  ASSUME ScanInv, NEW c \in CoreSet, Here(c) # 0
  PROVE  /\ (Here(c) - 1) % Slots = dsppf_current[c]
         /\ Here(c) <= written[c] /\ written[c] < Here(c) + Slots
         /\ first_seq + Here(c) <= SeqSpan => SeqNumOf(Here(c)) = first_seq + Here(c) - 1
<1> DEFINE r == Here(c)
<1>1. r \in 0..MaxRecords /\ dsppf_current[c] \in 0..(Slots - 1)
  BY HereType
<1>2. first_seq \in Nat /\ SeqSpan \in Nat \ {0} /\ r \in Nat /\ r # 0
  BY <1>1, ScanAssumption DEF ScanInv, ScanTypeOK
<1>3. (r - 1) % Slots = dsppf_current[c] /\ r <= written[c] /\ written[c] < r + Slots
  BY <1>1 DEF ScanInv, CoreInv, MemInv, Here
<1> HIDE DEF r
<1>4. ASSUME first_seq + r <= SeqSpan
      PROVE  SeqNumOf(r) = first_seq + r - 1
  <2>1. first_seq + r - 1 \in 0..(SeqSpan - 1)
    BY <1>2, <1>4
  <2>2. (first_seq + r - 1) % SeqSpan = first_seq + r - 1
    BY <2>1, <1>2, ModSmall
  <2> QED
    BY <2>2, <1>2 DEF SeqNumOf
<1> QED
  BY <1>3, <1>4 DEF r

\* Once the core has written on, the slot ahead holds a newer record, and the
\* next one unless the DSP has lapped the walk.
LEMMA AheadIsNew ==
  ASSUME ScanInv, NEW c \in CoreSet, Here(c) # 0, stored[c] # 0, stored[c] < written[c]
  PROVE  /\ Here(c) > stored[c]
         /\ overrun[c] = FALSE => Here(c) = stored[c] + 1
<1> DEFINE r == Here(c)
           st == stored[c]
           w == written[c]
<1>1. r \in Nat /\ st \in Nat /\ w \in Nat /\ Slots \in Nat \ {0, 1}
  <2>1. r \in 0..MaxRecords
    BY HereType
  <2>2. st \in 0..MaxRecords /\ w \in 0..MaxRecords
    BY DEF ScanInv, ScanTypeOK
  <2> QED
    BY <2>1, <2>2, ScanAssumption
<1>2. (r - 1) % Slots = st % Slots /\ r <= w /\ w < r + Slots
  BY HereRecord DEF ScanInv, CoreInv, WalkInv
<1>3. (overrun[c] = FALSE => w <= st + Slots) /\ r # 0 /\ st < w
  BY DEF ScanInv, CoreInv, WalkInv
<1> HIDE DEF r, st, w
<1>4. r > st
  <2>1. ASSUME r <= st
        PROVE  FALSE
    <3>1. r - 1 \in Nat /\ r - 1 <= st /\ st < (r - 1) + Slots /\ r - 1 # st
      BY <2>1, <1>1, <1>2, <1>3
    <3> QED
      BY <3>1, <1>1, <1>2, ModSame
  <2> QED
    BY <2>1, <1>1
<1>5. ASSUME overrun[c] = FALSE
      PROVE  r = st + 1
  <2>1. r - 1 \in Nat /\ st <= r - 1 /\ r - 1 < st + Slots
    BY <1>1, <1>2, <1>3, <1>4, <1>5
  <2>2. st = r - 1
    BY <2>1, <1>1, <1>2, ModSame
  <2> QED
    BY <2>2, <1>1
<1> QED
  BY <1>4, <1>5 DEF r, st

\* When the walk has caught up, the old record in the slot is found to be
\* old: its number is smaller, by less than a lap.
LEMMA AheadIsStale ==
  ASSUME ScanInv, NEW c \in CoreSet, Here(c) # 0, stored[c] # 0, stored[c] = written[c],
         ~ CaughtUpAtWrap(c)
  PROVE  Stale(SeqNumOf(Here(c)), curr_seq_num[c])
<1> DEFINE r == Here(c)
           st == stored[c]
           curr == curr_seq_num[c]
           seq == SeqNumOf(r)
<1>1. /\ r \in Nat /\ st \in Nat /\ first_seq \in Nat /\ SeqSpan \in Nat
      /\ Slots \in Nat \ {0, 1} /\ WrapGap \in Slots..(SeqSpan - 1)
  <2>1. r \in 0..MaxRecords
    BY HereType
  <2>2. st \in 0..MaxRecords
    BY DEF ScanInv, ScanTypeOK
  <2>3. first_seq \in Nat
    BY ScanAssumption DEF ScanInv, ScanTypeOK
  <2> QED
    BY <2>1, <2>2, <2>3, ScanAssumption
<1>2. (r - 1) % Slots = st % Slots /\ r <= st /\ st < r + Slots
  BY HereRecord DEF ScanInv, CoreInv, WalkInv
<1>3. /\ curr = (first_seq + st - 1) % SeqSpan /\ seq = (first_seq + r - 1) % SeqSpan
      /\ first_seq + st < SeqSpan \/ (first_seq + st) % SeqSpan >= Slots
      /\ r # 0 /\ st # 0
  <2>1. curr = SeqNumOf(st) /\ r # 0
    BY DEF ScanInv, CoreInv, WalkInv, Here
  <2>2. first_seq + st < SeqSpan \/ (first_seq + st) % SeqSpan >= Slots
    <3>1. (first_seq + st) % SeqSpan \in Nat
      BY <1>1, ModRange
    <3> QED
      BY <1>1, <3>1 DEF CaughtUpAtWrap
  <2> QED
    BY <2>1, <2>2 DEF SeqNumOf
<1> HIDE DEF r, st, curr, seq
<1>4. r = st + 1 - Slots
  <2>1. (r + Slots - 1) % Slots = st % Slots
    <3>1. r - 1 \in Nat /\ (r - 1) + Slots = r + Slots - 1
      BY <1>1, <1>3
    <3>2. ((r - 1) + Slots) % Slots = (r - 1) % Slots
      BY <1>1, <3>1, ModLap
    <3> QED
      BY <1>2, <3>1, <3>2
  <2>2. r + Slots - 1 \in Nat /\ st <= r + Slots - 1 /\ r + Slots - 1 < st + Slots
    BY <1>1, <1>2
  <2>3. st = r + Slots - 1
    BY <2>1, <2>2, <1>1, ModSame
  <2> QED
    BY <2>3, <1>1
<1> DEFINE q == (first_seq + st) \div SeqSpan
           t == (first_seq + st) % SeqSpan
<1>5. q \in Nat /\ t \in 0..(SeqSpan - 1) /\ first_seq + st = SeqSpan * q + t
  <2>1. first_seq + st \in Nat /\ SeqSpan \in Nat \ {0}
    BY <1>1
  <2> QED
    BY <2>1, <1>1, ModRange
<1>6. t >= Slots
  <2>1. CASE first_seq + st < SeqSpan
    <3>1. t = first_seq + st
      BY <2>1, <1>1, ModSmall
    <3> QED
      BY <3>1, <1>1, <1>3, <1>4
  <2> QED
    BY <1>3, <2>1
<1> HIDE DEF q, t
\* The old record's number, a lap back, is on this side of the wrap.
<1>7. curr = t - 1
  <2>1. first_seq + st - 1 \in Nat /\ first_seq + st - 1 = SeqSpan * q + (t - 1)
    BY <1>1, <1>3, <1>5
  <2>2. t - 1 \in 0..(SeqSpan - 1)
    BY <1>1, <1>5, <1>6
  <2> QED
    BY <2>1, <2>2, <1>1, <1>3, <1>5, ModUnique
<1>8. seq = t - Slots
  <2>1. first_seq + r - 1 \in Nat /\ first_seq + r - 1 = SeqSpan * q + (t - Slots)
    BY <1>1, <1>3, <1>4, <1>5
  <2>2. t - Slots \in 0..(SeqSpan - 1) /\ SeqSpan \in Nat \ {0}
    BY <1>1, <1>5, <1>6
  <2>3. \A m \in Nat : m = SeqSpan * q + (t - Slots) => m % SeqSpan = t - Slots
    BY <2>2, <1>5, ModUnique
  <2> QED
    BY <2>1, <2>3, <1>3
<1>9. seq < curr /\ curr # SeqSpan - 1 /\ curr - seq < WrapGap
  BY <1>1, <1>5, <1>7, <1>8
<1> QED
  BY <1>9 DEF Stale, curr, seq, r

\* What a look at a slot that is not stale comes to: nothing, in a cleared
\* slot, or what is there is taken.
LEMMA TakeCases ==
  ASSUME ScanInv, NEW c \in CoreSet, TakeOrEmpty(c, SeqNumOf(Here(c)))
  PROVE  /\ curr_seq_num'[c] = SeqNumOf(Here(c))
         /\ \/ Here(c) = 0 /\ UNCHANGED <<dsppf_current, stored>>
            \/ /\ dsppf_current'[c] = NextSlot(dsppf_current[c])
               /\ stored'[c] = Here(c)
               /\ Here(c) = 0 => seq_num_wrapped'[c] # 0
<1>1. curr_seq_num'[c] = SeqNumOf(Here(c))
  BY DEF TakeOrEmpty, ScanInv, ScanTypeOK
<1>2. CASE Empty(Here(c), SeqNumOf(Here(c)), seq_num_wrapped'[c])
  BY <1>1, <1>2 DEF TakeOrEmpty, Here, Empty
<1>3. CASE ~ Empty(Here(c), SeqNumOf(Here(c)), seq_num_wrapped'[c])
  <2>1. stored'[c] = Here(c) /\ dsppf_current'[c] = NextSlot(dsppf_current[c])
    BY <1>3 DEF TakeOrEmpty, Here, ScanInv, ScanTypeOK
  <2>2. Here(c) = 0 => seq_num_wrapped'[c] # 0
    BY <1>3 DEF Empty, SeqNumOf
  <2> QED
    BY <1>1, <2>1, <2>2
<1> QED
  BY <1>2, <1>3

\* Until the numbers wrap, the one that would tell the timer so is not met.
LEMMA StaysUnwrapped ==
  ASSUME ScanInv, NEW c \in CoreSet, BeforeWrap(c), TakeOrEmpty(c, SeqNumOf(Here(c)))
  PROVE  seq_num_wrapped'[c] = 0
<1>1. seq_num_wrapped[c] = 0 /\ (curr_seq_num[c] = 0 \/ curr_seq_num[c] < first_seq + written[c])
  BY DEF ScanInv, CoreInv, NumberInv
<1>2. /\ curr_seq_num[c] \in Nat /\ first_seq \in Nat /\ written[c] \in Nat
      /\ SeqSpan \in Nat /\ SeqSpan > 1
  BY ScanAssumption DEF ScanInv, ScanTypeOK
<1>3. curr_seq_num[c] # SeqSpan - 1
  BY <1>1, <1>2 DEF BeforeWrap
<1>4. seq_num_wrapped' =
        [seq_num_wrapped EXCEPT ![c] = IF curr_seq_num[c] = SeqSpan - 1 THEN 1 ELSE @]
  BY DEF TakeOrEmpty
<1>5. seq_num_wrapped \in [CoreSet -> {0, 1}]
  BY DEF ScanInv, ScanTypeOK
<1> QED
  BY <1>1, <1>3, <1>4, <1>5

LEMMA ServeCore == ASSUME ScanInv, cap_info # <<>> PROVE cap_info[i] \in CoreSet
BY DEF ScanInv, ScanTypeOK, PlaceInv

LEMMA TimerServeType ==
  ASSUME ScanInv, TimerServe
  PROVE  ScanTypeOK' /\ PlaceInv'
<1> DEFINE c == cap_info[i]
           seq == SeqNumOf(Here(c))
<1>1. c \in CoreSet /\ cap_info # <<>>
  BY ServeCore DEF TimerServe
<1>2. SkipStale(c, seq) \/ SkipJumped(c, seq) \/ TakeOrEmpty(c, seq)
  BY DEF TimerServe, Here
<1>3. UNCHANGED <<first_seq, mem, written, starts, overrun>>
  BY DEF TimerServe
<1> HIDE DEF c
<1>4. seq \in 0..(SeqSpan - 1) /\ Here(c) \in 0..MaxRecords /\ dsppf_current[c] \in 0..(Slots - 1)
  BY <1>1, HereType
<1>5. NextSlot(dsppf_current[c]) \in 0..(Slots - 1)
  BY <1>4, NextSlotType
<1>6. RemoveCore \/ NextCore
  BY <1>2 DEF SkipStale, SkipJumped, TakeOrEmpty
<1>7. /\ cap_info' \in Seq(CoreSet) /\ Len(cap_info') <= Len(Cores)
      /\ i' \in 1..Len(Cores) /\ PlaceInv'
  BY <1>1, <1>6, RoundType DEF ScanInv
<1>8. /\ dsppf_current \in [CoreSet -> 0..(Slots - 1)]
      /\ curr_seq_num \in [CoreSet -> 0..(SeqSpan - 1)]
      /\ seq_num_wrapped \in [CoreSet -> {0, 1}]
      /\ stored \in [CoreSet -> 0..MaxRecords]
  BY DEF ScanInv, ScanTypeOK
<1> HIDE DEF seq
<1>9. /\ dsppf_current' \in [CoreSet -> 0..(Slots - 1)]
      /\ curr_seq_num' \in [CoreSet -> 0..(SeqSpan - 1)]
      /\ seq_num_wrapped' \in [CoreSet -> {0, 1}]
      /\ stored' \in [CoreSet -> 0..MaxRecords]
  <2>1. CASE SkipStale(c, seq)
    BY <2>1, <1>8 DEF SkipStale
  <2>2. CASE SkipJumped(c, seq)
    BY <2>2, <1>1, <1>4, <1>8 DEF SkipJumped
  <2>3. CASE TakeOrEmpty(c, seq)
    <3>1. /\ curr_seq_num' \in [CoreSet -> 0..(SeqSpan - 1)]
          /\ seq_num_wrapped' \in [CoreSet -> {0, 1}]
      BY <2>3, <1>1, <1>4, <1>8 DEF TakeOrEmpty
    <3>2. \/ UNCHANGED <<dsppf_current, stored>>
          \/ /\ stored' = [stored EXCEPT ![c] = Here(c)]
             /\ dsppf_current' = [dsppf_current EXCEPT ![c] = NextSlot(@)]
      BY <2>3 DEF TakeOrEmpty, Here
    <3>3. /\ dsppf_current' \in [CoreSet -> 0..(Slots - 1)]
          /\ stored' \in [CoreSet -> 0..MaxRecords]
      BY <3>2, <1>1, <1>4, <1>5, <1>8
    <3> QED
      BY <3>1, <3>3
  <2> QED
    BY <1>2, <2>1, <2>2, <2>3
<1> QED
  BY <1>3, <1>7, <1>9 DEF ScanInv, ScanTypeOK

\* A step of the timer at one core keeps what it knows of that core.
LEMMA TimerServeWalk ==
  ASSUME ScanInv, NEW c \in CoreSet, UNCHANGED <<first_seq, mem, written, overrun>>,
         \/ SkipStale(c, SeqNumOf(Here(c)))
         \/ SkipJumped(c, SeqNumOf(Here(c)))
         \/ TakeOrEmpty(c, SeqNumOf(Here(c)))
  PROVE  CoreInv(c)'
<1> DEFINE seq == SeqNumOf(Here(c))
           r == Here(c)
<1>1. MemInv(c)'
  BY DEF ScanInv, CoreInv, MemInv
<1>2. WalkInv(c) /\ NumberInv(c)
  BY DEF ScanInv, CoreInv
<1>3. /\ r \in Nat /\ first_seq \in Nat /\ written[c] \in Nat /\ stored[c] \in Nat
      /\ curr_seq_num[c] \in Nat /\ Slots \in Nat \ {0, 1} /\ SeqSpan \in Nat /\ seq \in Nat
  <2>1. r \in 0..MaxRecords /\ seq \in 0..(SeqSpan - 1)
    BY HereType
  <2>2. written[c] \in 0..MaxRecords /\ stored[c] \in 0..MaxRecords /\ curr_seq_num[c] \in 0..(SeqSpan - 1)
    BY DEF ScanInv, ScanTypeOK
  <2>3. first_seq \in Nat /\ Slots \in Nat \ {0, 1} /\ SeqSpan \in Nat
    BY ScanAssumption DEF ScanInv, ScanTypeOK
  <2> QED
    BY <2>1, <2>2, <2>3
<1>4. SeqNumOf(0) = 0
  BY DEF SeqNumOf
<1>5. BeforeWrap(c) => seq = 0 \/ (seq = first_seq + r - 1 /\ r <= written[c] /\ r # 0)
  <2>1. ASSUME BeforeWrap(c), r # 0 PROVE seq = first_seq + r - 1 /\ r <= written[c]
    <3>1. r <= written[c]
      BY <2>1, HereRecord
    <3>2. first_seq + r <= SeqSpan
      BY <1>3, <2>1, <3>1 DEF BeforeWrap
    <3> QED
      BY <2>1, <3>1, <3>2, HereRecord
  <2> QED
    BY <1>4, <2>1
<1>6. BeforeWrap(c)' <=> BeforeWrap(c)
  BY DEF BeforeWrap
<1>7. CASE SkipStale(c, seq)
  <2>1. UNCHANGED <<dsppf_current, curr_seq_num, seq_num_wrapped, stored>>
    BY <1>7 DEF SkipStale
  <2> QED
    BY <1>1, <1>2, <2>1 DEF CoreInv, WalkInv, NumberInv, BeforeWrap, CaughtUpAtWrap, SeqNumOf
<1>8. CASE SkipJumped(c, seq)
  <2>1. /\ curr_seq_num'[c] = seq /\ seq > curr_seq_num[c] /\ ~ Stale(seq, curr_seq_num[c])
        /\ UNCHANGED <<dsppf_current, seq_num_wrapped, stored>>
    BY <1>8 DEF SkipJumped, Jumped, ScanInv, ScanTypeOK
  <2>2. stored[c] # 0 /\ stored[c] = written[c] /\ ~ CaughtUpAtWrap(c) => r = 0
    BY <2>1, AheadIsStale
  <2>3. WalkInv(c)'
    BY <1>2, <2>1, <2>2 DEF WalkInv, CaughtUpAtWrap, Here, SeqNumOf
  <2>4. BeforeWrap(c) => curr_seq_num'[c] = 0 \/ curr_seq_num'[c] < first_seq + written[c]
    BY <1>3, <1>5, <2>1
  <2> QED
    BY <1>1, <1>2, <1>6, <2>1, <2>3, <2>4 DEF CoreInv, NumberInv
<1>9. CASE TakeOrEmpty(c, seq)
  <2>1. curr_seq_num'[c] = seq
    BY <1>9, TakeCases
  <2>2. WalkInv(c)'
    <3>1. CASE r = 0 /\ UNCHANGED <<dsppf_current, stored>>
      BY <1>2, <3>1 DEF WalkInv, CaughtUpAtWrap, Here, SeqNumOf
    <3>2. CASE dsppf_current'[c] = NextSlot(dsppf_current[c]) /\ stored'[c] = r /\ r = 0
      BY <1>3, <3>2 DEF WalkInv
    <3>3. CASE dsppf_current'[c] = NextSlot(dsppf_current[c]) /\ stored'[c] = r /\ r # 0
      <4>1. /\ (r - 1) % Slots = dsppf_current[c] /\ r <= written[c] /\ written[c] < r + Slots
        BY <3>3, HereRecord
      <4> HIDE DEF r, seq
      <4>2. dsppf_current'[c] = r % Slots
        <5>1. r - 1 \in Nat /\ (r - 1) + 1 = r
          BY <1>3, <3>3
        <5>2. ((r - 1) + 1) % Slots = NextSlot((r - 1) % Slots)
          BY <5>1, <1>3, ModNext DEF NextSlot
        <5> QED
          BY <4>1, <5>1, <5>2, <3>3
      <4>3. written[c] <= r + Slots
        BY <1>3, <4>1
      <4>4. curr_seq_num'[c] = SeqNumOf(stored[c])'
        BY <2>1, <3>3 DEF SeqNumOf, seq, r
      <4> QED
        BY <3>3, <4>1, <4>2, <4>3, <4>4 DEF WalkInv, CaughtUpAtWrap
    <3> QED
      BY <1>9, <3>1, <3>2, <3>3, TakeCases
  <2>3. NumberInv(c)'
    <3>1. ASSUME BeforeWrap(c) PROVE seq_num_wrapped'[c] = 0
      BY <1>9, <3>1, StaysUnwrapped
    <3>2. BeforeWrap(c) => curr_seq_num'[c] = 0 \/ curr_seq_num'[c] < first_seq + written[c]
      BY <1>3, <1>5, <2>1
    <3> QED
      BY <1>6, <3>1, <3>2 DEF NumberInv
  <2> QED
    BY <1>1, <2>2, <2>3 DEF CoreInv
<1> QED
  BY <1>7, <1>8, <1>9

LEMMA TimerServeStep ==
  ASSUME ScanInv, TimerServe
  PROVE  ScanInv'
<1> DEFINE d == cap_info[i]
<1>1. d \in CoreSet
  BY ServeCore DEF TimerServe
<1>2. /\ \/ SkipStale(d, SeqNumOf(Here(d)))
         \/ SkipJumped(d, SeqNumOf(Here(d)))
         \/ TakeOrEmpty(d, SeqNumOf(Here(d)))
      /\ UNCHANGED <<first_seq, mem, written, overrun>>
  BY DEF TimerServe, Here
<1> HIDE DEF d
<1>3. ASSUME NEW c \in CoreSet
      PROVE  CoreInv(c)'
  <2>1. CASE c = d
    BY <2>1, <1>2, TimerServeWalk
  <2>2. CASE c # d
    <3>1. /\ dsppf_current'[c] = dsppf_current[c] /\ curr_seq_num'[c] = curr_seq_num[c]
          /\ seq_num_wrapped'[c] = seq_num_wrapped[c] /\ stored'[c] = stored[c]
      BY <1>2, <2>2 DEF SkipStale, SkipJumped, TakeOrEmpty, ScanInv, ScanTypeOK
    <3>2. first_seq' = first_seq /\ mem' = mem /\ written' = written /\ overrun' = overrun
      BY <1>2
    <3> QED
      BY <3>1, <3>2, CoreFrame DEF ScanInv
  <2> QED
    BY <2>1, <2>2
<1> QED
  BY <1>3, TimerServeType DEF ScanInv

LEMMA TimerTickStep ==
  ASSUME ScanInv, TimerTick
  PROVE  ScanInv'
<1>1. /\ cap_info' = Cores /\ i' = 1
      /\ UNCHANGED <<first_seq, mem, written, dsppf_current, curr_seq_num, seq_num_wrapped, starts,
                     stored, overrun>>
  BY DEF TimerTick
<1>2. ScanTypeOK'
  <2>1. /\ cap_info' \in Seq(CoreSet) /\ Len(cap_info') <= Len(Cores)
        /\ i' \in 1..Len(Cores)
    BY <1>1, CoresType, ScanAssumption
  <2> QED
    BY <1>1, <2>1 DEF ScanInv, ScanTypeOK
<1>3. PlaceInv'
  BY <1>1, CoresType DEF PlaceInv
<1>4. ASSUME NEW c \in CoreSet
      PROVE  CoreInv(c)'
  BY <1>1, CoreFrame DEF ScanInv
<1> QED
  BY <1>2, <1>3, <1>4 DEF ScanInv

----------------------------------------------------------------------------
(* The theorems.                                                           *)

LEMMA ScanStart ==
  ASSUME ScanInit
  PROVE  ScanInv
<1>1. ScanTypeOK
  BY ScanAssumption, CoresType DEF ScanInit, ScanTypeOK
<1>2. ASSUME NEW c \in CoreSet
      PROVE  CoreInv(c)
  BY ScanAssumption DEF ScanInit, CoreInv, MemInv, WalkInv, NumberInv
<1>3. PlaceInv
  BY DEF ScanInit, PlaceInv
<1> QED
  BY <1>1, <1>2, <1>3 DEF ScanInv

LEMMA ScanStep ==
  ASSUME ScanInv, [ScanNext]_scanVars
  PROVE  ScanInv'
<1>1. CASE ScanNext
  BY <1>1, DspWriteStep, StartCapStep, TimerTickStep, TimerServeStep DEF ScanNext
<1>2. CASE UNCHANGED scanVars
  BY <1>2 DEF scanVars, ScanInv, ScanTypeOK, PlaceInv, CoreInv, MemInv, WalkInv, NumberInv, BeforeWrap,
              CaughtUpAtWrap, SeqNumOf
<1> QED
  BY <1>1, <1>2

\* The inductive invariant of the buffers and the walk holds.
THEOREM ScanInvariant == ScanSpec => []ScanInv
<1> QED
  BY ScanStart, ScanStep, PTL DEF ScanSpec

\* The state keeps its types.
THEOREM ScanTypes == ScanSpec => []ScanTypeOK
<1>1. ScanInv => ScanTypeOK
  BY DEF ScanInv
<1> QED
  BY <1>1, ScanInvariant, PTL

\* A place is left, and a record taken, only by the timer, at the slot it
\* looks at.
LEMMA TakenByTimer ==
  ASSUME ScanInv, [ScanNext]_scanVars, NEW c \in CoreSet,
         \/ stored'[c] # stored[c] /\ stored'[c] # 0
         \/ dsppf_current'[c] # dsppf_current[c]
  PROVE  /\ stored'[c] = Here(c) /\ ~ Stale(SeqNumOf(Here(c)), curr_seq_num[c])
         /\ BeforeWrap(c) => Here(c) # 0
<1>1. TimerServe
  BY DEF ScanNext, scanVars, DspWrite, StartCap, TimerTick, ScanInv, ScanTypeOK
<1> DEFINE d == cap_info[i]
<1>2. d \in CoreSet
  BY <1>1, ServeCore DEF TimerServe
<1>3. \/ SkipStale(d, SeqNumOf(Here(d)))
      \/ SkipJumped(d, SeqNumOf(Here(d)))
      \/ TakeOrEmpty(d, SeqNumOf(Here(d)))
  BY <1>1 DEF TimerServe, Here
<1> HIDE DEF d
<1>4. TakeOrEmpty(d, SeqNumOf(Here(d)))
  BY <1>3 DEF SkipStale, SkipJumped
<1>5. c = d
  BY <1>4 DEF TakeOrEmpty, ScanInv, ScanTypeOK
<1>6. stored'[c] = Here(c) /\ (Here(c) = 0 => seq_num_wrapped'[c] # 0)
  BY <1>4, <1>5, TakeCases
<1>7. ~ Stale(SeqNumOf(Here(c)), curr_seq_num[c])
  BY <1>4, <1>5 DEF TakeOrEmpty
<1>8. BeforeWrap(c) => Here(c) # 0
  BY <1>4, <1>5, <1>6, StaysUnwrapped
<1> QED
  BY <1>6, <1>7, <1>8

\* What is taken is newer than what was, whatever the numbers, unless the
\* walk has caught up where they end.
LEMMA TakenIsNew ==
  ASSUME ScanInv, [ScanNext]_scanVars, NEW c \in CoreSet, ~ CaughtUpAtWrap(c),
         stored'[c] # stored[c], stored[c] # 0, stored'[c] # 0
  PROVE  stored'[c] > stored[c] /\ (overrun[c] = FALSE => stored'[c] = stored[c] + 1)
<1>1. stored'[c] = Here(c) /\ Here(c) # 0 /\ ~ Stale(SeqNumOf(Here(c)), curr_seq_num[c])
  BY TakenByTimer
<1>2. stored[c] # written[c]
  BY <1>1, AheadIsStale
<1>3. stored[c] < written[c]
  <2>1. stored[c] \in 0..MaxRecords /\ written[c] \in 0..MaxRecords /\ stored[c] <= written[c]
    BY DEF ScanInv, ScanTypeOK, CoreInv, WalkInv
  <2> QED
    BY <1>2, <2>1, ScanAssumption
<1> QED
  BY <1>1, <1>3, AheadIsNew

\* Records are taken in order and none twice, with any number of cores and
\* slots and from any first sequence number, also when the numbers wrap in
\* between, unless the walk has caught up with the DSP at their end.
THEOREM TakesInOrder == ScanSpec => TakenInOrder
<1>1. ASSUME ScanInv, [ScanNext]_scanVars, NEW c \in CoreSet,
             ~ CaughtUpAtWrap(c), stored'[c] # stored[c], stored'[c] # 0
      PROVE  stored'[c] > stored[c]
  <2>1. CASE stored[c] = 0
    <3>1. stored'[c] = Here(c)
      BY <1>1, TakenByTimer
    <3> QED
      BY <1>1, <2>1, <3>1, HereType
  <2>2. CASE stored[c] # 0
    BY <1>1, <2>2, TakenIsNew
  <2> QED
    BY <2>1, <2>2
<1>2. ScanInv /\ [ScanNext]_scanVars
        => [\A c \in CoreSet :
              ~ CaughtUpAtWrap(c) /\ stored'[c] # stored[c] /\ stored'[c] # 0
                => stored'[c] > stored[c]]_scanVars
  BY <1>1
<1> QED
  BY <1>2, ScanInvariant, PTL DEF ScanSpec, TakenInOrder

\* No record is passed over that the core has not overwritten.
THEOREM TakesWithoutGap == ScanSpec => TakenWithoutGap
<1>1. ScanInv /\ [ScanNext]_scanVars
        => [\A c \in CoreSet :
              (/\ ~ CaughtUpAtWrap(c) /\ overrun[c] = FALSE
               /\ stored'[c] # stored[c] /\ stored[c] # 0 /\ stored'[c] # 0)
                => stored'[c] = stored[c] + 1]_scanVars
  BY TakenIsNew
<1> QED
  BY <1>1, ScanInvariant, PTL DEF ScanSpec, TakenWithoutGap

\* Until the numbers wrap, no slot without a record in it is stepped over.
THEOREM TakesRecordsOnly == ScanSpec => RecordsOnly
<1>1. ScanInv /\ [ScanNext]_scanVars
        => [\A c \in CoreSet :
              BeforeWrap(c) /\ dsppf_current'[c] # dsppf_current[c]
                => mem[c][dsppf_current[c]] # 0]_scanVars
  BY TakenByTimer DEF Here
<1> QED
  BY <1>1, ScanInvariant, PTL DEF ScanSpec, RecordsOnly
=============================================================================
