------------------------ MODULE DsplogRegistryProofs ------------------------
(***************************************************************************)
(* Who owns a core, for every number of files and of cores.                *)
(***************************************************************************)
EXTENDS DsplogRegistry, SequenceTheorems, FiniteSetTheorems, TLAPS

----------------------------------------------------------------------------
(* The inductive invariant.                                                *)

OneEach == \A i, j \in 1..Len(queue) : queue[i].dsp_id = queue[j].dsp_id => i = j

QueueInv == queue \in Seq(Instance) /\ OneEach

ContextInv ==
  /\ open \subseteq Files
  /\ priv \in [Files -> Nat]
  /\ NoDanglingContext
  /\ \A f \in Files \ (open \union Releasing) : priv[f] = 0

TimerInv ==
  /\ timer_initialized \in {0, 1}
  /\ timer_initialized = 1 => Len(queue) = UCODE_CORE_NUM

\* A walk of release() is at an instance or has passed the last one.
WalkInv ==
  /\ rel \in [Files -> [at : Nat, step : {"none", "test", "filp", "active"}]]
  /\ \A f \in Files :
       \/ rel[f] = NotReleasing
       \/ f \notin open /\ rel[f].step = "test" /\ rel[f].at \in 1..(Len(queue) + 1)
       \/ f \notin open /\ rel[f].step \in {"filp", "active"} /\ rel[f].at \in 1..Len(queue)

\* A file holds an instance as its owner, or in the middle of giving it up.
Clearing(f, i) == rel[f].step = "active" /\ rel[f].at = i
Holds(f, i) == queue[i].active = 1 /\ (queue[i].filp = f \/ Clearing(f, i))

\* Without a context left over, an instance has one holder, and no other
\* open file points to it.
HoldInv ==
  /\ shared \in BOOLEAN
  /\ shared = FALSE =>
       /\ \A f \in Files : rel[f].step = "filp" =>
            queue[rel[f].at].active = 1 /\ queue[rel[f].at].filp = f
       /\ \A f \in Files : rel[f].step = "active" =>
            queue[rel[f].at].active = 1 /\ queue[rel[f].at].filp = NoFile
       /\ \A f, g \in Files : \A i \in 1..Len(queue) : Clearing(f, i) /\ Clearing(g, i) => f = g
       /\ \A f \in Files : \A i \in 1..Len(queue) : Holds(f, i) =>
            \A g \in open : priv[g] = i => g = f

RegistryInv == QueueInv /\ ContextInv /\ TimerInv /\ WalkInv /\ HoldInv /\ OwnerCanRelease

----------------------------------------------------------------------------
(* Queues.                                                                 *)

\* With one instance for each core at most, the queue is no longer than
\* there are cores, and one as long has an instance of every core.
LEMMA QueueBound ==
  ASSUME NEW q \in Seq(Instance),
         \A i, j \in 1..Len(q) : q[i].dsp_id = q[j].dsp_id => i = j
  PROVE  /\ Len(q) <= UCODE_CORE_NUM
         /\ Len(q) = UCODE_CORE_NUM => \A c \in Cores : \E i \in 1..Len(q) : q[i].dsp_id = c
<1> DEFINE core == [i \in 1..Len(q) |-> q[i].dsp_id]
<1>1. Len(q) \in Nat /\ \A i \in 1..Len(q) : q[i] \in Instance
  BY ElementOfSeq, LenProperties
<1>2. core \in Injection(1..Len(q), Cores)
  BY <1>1 DEF Instance, Injection, IsInjective
<1>3. Cardinality(1..Len(q)) = Len(q)
  <2>1. 1 \in Int /\ Len(q) \in Int
    BY <1>1
  <2>2. Cardinality(1..Len(q)) = IF 1 > Len(q) THEN 0 ELSE Len(q) - 1 + 1
    BY <2>1, FS_Interval
  <2> QED
    BY <1>1, <2>2
<1>4. /\ Len(q) <= UCODE_CORE_NUM
      /\ Len(q) = UCODE_CORE_NUM => core \in Surjection(1..Len(q), Cores)
  BY <1>2, <1>3, RegistryAssumption, FS_Injection DEF UCODE_CORE_NUM
<1> QED
  BY <1>4 DEF Surjection

\* The queue holds the same instances with the same owners as q.
SameOwners(q) ==
  /\ queue' \in Seq(Instance) /\ Len(queue') = Len(q)
  /\ \A i \in 1..Len(q) :
       /\ queue'[i].dsp_id = q[i].dsp_id
       /\ queue'[i].active = q[i].active /\ queue'[i].filp = q[i].filp

\* What dsplog_register_log_cap returns: nothing, a new instance at the end
\* of the queue, or an instance nobody had.
LEMMA RegisterReturns ==
  ASSUME RegistryInv, NEW f \in open, NEW c \in Cores, NEW r \in Register(f, c)
  PROVE  /\ r[1] \in Seq(Instance) /\ r[2] \in Nat
         /\ \A i, j \in 1..Len(r[1]) : r[1][i].dsp_id = r[1][j].dsp_id => i = j
         /\ \/ r[2] = 0 /\ r[1] = queue
            \/ /\ r[2] = Len(queue) + 1 /\ Len(r[1]) = r[2]
               /\ r[1][r[2]].active = 1 /\ r[1][r[2]].filp = f
               /\ \A i \in 1..Len(queue) : r[1][i] = queue[i]
            \/ /\ r[2] \in 1..Len(queue) /\ Len(r[1]) = Len(queue)
               /\ queue[r[2]].active = 0
               /\ r[1][r[2]].active = 1 /\ r[1][r[2]].filp = f
               /\ \A i \in 1..Len(queue) : i # r[2] => r[1][i] = queue[i]
<1> USE DEF RegistryInv, QueueInv, OneEach
<1>1. f \in Files
  BY DEF ContextInv
<1>2. Len(queue) \in Nat /\ \A i \in 1..Len(queue) : queue[i] \in Instance
  BY ElementOfSeq, LenProperties
<1>3. CASE r = <<queue, 0>>
  BY <1>3
<1>4. CASE PlacesOf(c) = {} /\ r = <<Append(queue, NewInstance(f, c)), Len(queue) + 1>>
  <2>1. NewInstance(f, c) \in Instance
    BY <1>1 DEF NewInstance, Instance
  <2>2. /\ r[1] \in Seq(Instance) /\ Len(r[1]) = Len(queue) + 1
        /\ \A i \in 1..Len(queue) : r[1][i] = queue[i]
        /\ r[1][Len(queue) + 1] = NewInstance(f, c)
    BY <1>4, <2>1, AppendProperties
  <2>3. r[1][Len(queue) + 1].dsp_id = c /\ r[1][Len(queue) + 1].active = 1
        /\ r[1][Len(queue) + 1].filp = f
    BY <2>2 DEF NewInstance
  <2>4. \A i \in 1..Len(queue) : queue[i].dsp_id # c
    BY <1>4 DEF PlacesOf
  <2>5. \A i, j \in 1..Len(r[1]) : r[1][i].dsp_id = r[1][j].dsp_id => i = j
    BY <1>2, <2>2, <2>3, <2>4
  <2> QED
    BY <1>2, <1>4, <2>2, <2>3, <2>5
<1>5. ASSUME NEW i \in PlacesOf(c), ~ Occupied(c),
             r = <<[queue EXCEPT ![i].active = 1, ![i].filp = f], i>>
      PROVE  /\ r[2] \in 1..Len(queue) /\ Len(r[1]) = Len(queue) /\ r[1] \in Seq(Instance)
             /\ queue[r[2]].active = 0
             /\ r[1][r[2]].active = 1 /\ r[1][r[2]].filp = f /\ r[1][r[2]].dsp_id = queue[r[2]].dsp_id
             /\ \A k \in 1..Len(queue) : k # r[2] => r[1][k] = queue[k]
  <2> DEFINE e == [queue[i] EXCEPT !.active = 1, !.filp = f]
  <2>1. i \in 1..Len(queue) /\ queue[i].active = 0
    BY <1>2, <1>5 DEF PlacesOf, Occupied, Instance
  <2>2. e \in Instance /\ e.active = 1 /\ e.filp = f /\ e.dsp_id = queue[i].dsp_id
    BY <1>1, <1>2, <2>1 DEF Instance
  <2>3. r[1] = [queue EXCEPT ![i] = e]
    BY <1>2, <1>5, <2>1
  <2> HIDE DEF e
  <2>4. /\ r[1] \in Seq(Instance) /\ Len(r[1]) = Len(queue)
        /\ \A k \in 1..Len(queue) : r[1][k] = IF k = i THEN e ELSE queue[k]
    BY <2>1, <2>2, <2>3, ExceptSeq
  <2> QED
    BY <1>5, <2>1, <2>2, <2>4
<1>6. ASSUME NEW i \in PlacesOf(c), ~ Occupied(c),
             r = <<[queue EXCEPT ![i].active = 1, ![i].filp = f], i>>
      PROVE  \A j, k \in 1..Len(r[1]) : r[1][j].dsp_id = r[1][k].dsp_id => j = k
  <2>1. \A k \in 1..Len(queue) : r[1][k].dsp_id = queue[k].dsp_id
    BY <1>5, <1>6
  <2>2. Len(r[1]) = Len(queue)
    BY <1>5, <1>6
  <2> QED
    BY <2>1, <2>2
<1>7. \/ r = <<queue, 0>>
      \/ PlacesOf(c) = {} /\ r = <<Append(queue, NewInstance(f, c)), Len(queue) + 1>>
      \/ \E i \in PlacesOf(c) :
           ~ Occupied(c) /\ r = <<[queue EXCEPT ![i].active = 1, ![i].filp = f], i>>
  BY DEF Register
<1>8. CASE \E i \in PlacesOf(c) :
             ~ Occupied(c) /\ r = <<[queue EXCEPT ![i].active = 1, ![i].filp = f], i>>
  <2>1. /\ r[2] \in 1..Len(queue) /\ Len(r[1]) = Len(queue) /\ r[1] \in Seq(Instance)
        /\ queue[r[2]].active = 0
        /\ r[1][r[2]].active = 1 /\ r[1][r[2]].filp = f
        /\ \A k \in 1..Len(queue) : k # r[2] => r[1][k] = queue[k]
    BY <1>5, <1>8
  <2>2. \A j, k \in 1..Len(r[1]) : r[1][j].dsp_id = r[1][k].dsp_id => j = k
    BY <1>6, <1>8
  <2> QED
    BY <1>2, <2>1, <2>2
<1> QED
  BY <1>3, <1>4, <1>7, <1>8

----------------------------------------------------------------------------
(* The steps.                                                              *)

\* Neither owners nor contexts change: START of an instance.
LEMMA OwnersKept ==
  ASSUME RegistryInv, SameOwners(queue), UNCHANGED <<open, priv, rel, shared>>,
         timer_initialized' \in {0, 1},
         timer_initialized' = 1 => Len(queue) = UCODE_CORE_NUM
  PROVE  RegistryInv'
<1> USE DEF RegistryInv, SameOwners
<1>1. QueueInv'
  BY DEF QueueInv, OneEach
<1>2. ContextInv' /\ TimerInv' /\ WalkInv'
  BY DEF ContextInv, TimerInv, WalkInv, NoDanglingContext, Releasing
<1>3. OwnerCanRelease'
  BY DEF OwnerCanRelease, Releasing
<1>4. HoldInv'
  <2>1. \A f \in Files : \A i \in 1..Len(queue) :
          (Holds(f, i)' <=> Holds(f, i)) /\ (Clearing(f, i)' <=> Clearing(f, i))
    BY DEF Holds, Clearing
  <2>2. \A f \in Files : rel[f].step \in {"filp", "active"} => rel[f].at \in 1..Len(queue)
    BY DEF WalkInv, NotReleasing
  <2> QED
    BY <2>1, <2>2 DEF HoldInv
<1> QED
  BY <1>1, <1>2, <1>3, <1>4

\* A file is given a core: SET_DSP_CORE, and START on a chip with one core.
LEMMA CoreGiven ==
  ASSUME RegistryInv, NEW f \in open, NEW c \in Cores, NEW r \in Register(f, c),
         SameOwners(r[1]), PointTo(f, r[2]), UNCHANGED <<open, rel>>,
         timer_initialized' \in {0, 1},
         timer_initialized' = 1 => r[2] # 0 /\ UCODE_CORE_NUM = 1
  PROVE  RegistryInv'
<1> USE DEF RegistryInv
<1> DEFINE Given ==
      /\ r[2] \in 1..Len(queue') /\ Len(queue') >= Len(queue)
      /\ r[2] \in 1..Len(queue) => queue[r[2]].active = 0
      /\ queue'[r[2]].active = 1 /\ queue'[r[2]].filp = f
      /\ \A i \in 1..Len(queue') : i # r[2] =>
           /\ i \in 1..Len(queue)
           /\ queue'[i].active = queue[i].active /\ queue'[i].filp = queue[i].filp
<1>1. Len(queue) \in Nat /\ f \in Files /\ priv \in [Files -> Nat]
  BY LenProperties DEF QueueInv, ContextInv
<1>2. /\ r[1] \in Seq(Instance) /\ r[2] \in Nat /\ Len(r[1]) \in Nat
      /\ \A i, j \in 1..Len(r[1]) : r[1][i].dsp_id = r[1][j].dsp_id => i = j
      /\ queue' \in Seq(Instance) /\ Len(queue') = Len(r[1])
  BY RegisterReturns, LenProperties DEF SameOwners
<1>3. (r[2] = 0 /\ r[1] = queue) \/ Given
  BY <1>1, <1>2, RegisterReturns DEF SameOwners
<1>4. QueueInv'
  BY <1>2 DEF QueueInv, OneEach, SameOwners
<1>5. Len(queue') <= UCODE_CORE_NUM
  BY <1>4, QueueBound DEF QueueInv, OneEach
<1>6. CASE r[2] = 0 /\ r[1] = queue
  <2>1. SameOwners(queue) /\ priv' = priv /\ timer_initialized' = 0
    BY <1>6 DEF PointTo
  <2>2. shared' \in BOOLEAN /\ (shared' = FALSE => shared = FALSE)
    BY DEF PointTo, HoldInv
  <2>3. CASE shared' = shared
    BY <2>1, <2>3, OwnersKept
  <2>4. CASE shared' # shared
    <3>1. ContextInv' /\ TimerInv' /\ WalkInv'
      BY <2>1 DEF SameOwners, ContextInv, TimerInv, WalkInv, NoDanglingContext, Releasing
    <3>2. OwnerCanRelease'
      BY <2>1 DEF SameOwners, OwnerCanRelease, Releasing
    <3>3. HoldInv'
      BY <2>2, <2>4 DEF HoldInv
    <3> QED
      BY <1>4, <3>1, <3>2, <3>3
  <2> QED
    BY <2>3, <2>4
<1>7. CASE Given
  <2>1. priv' = [priv EXCEPT ![f] = r[2]] /\ shared' = (shared \/ Sharing(open, priv'))
    BY <1>1, <1>2, <1>7 DEF PointTo
  <2>2. ContextInv'
    BY <1>1, <1>2, <1>7, <2>1 DEF ContextInv, NoDanglingContext, Releasing
  <2>3. TimerInv'
    BY <1>1, <1>2, <1>5, <1>7 DEF TimerInv
  <2>4. WalkInv'
    BY <1>1, <1>2, <1>7 DEF WalkInv
  <2>5. OwnerCanRelease'
    BY <1>1, <1>2, <1>7 DEF OwnerCanRelease, Releasing
  <2>6. HoldInv'
    <3>1. shared' \in BOOLEAN
      BY <2>1 DEF HoldInv
    <3> SUFFICES ASSUME shared' = FALSE
                 PROVE  HoldInv'
      BY <3>1 DEF HoldInv
    <3>2. shared = FALSE /\ ~ Sharing(open, priv')
      BY <2>1 DEF HoldInv
    <3>3. \A g \in Files : rel[g].step \in {"filp", "active"} =>
             /\ rel[g].at \in 1..Len(queue) /\ queue[rel[g].at].active = 1
             /\ rel[g].at \in 1..Len(queue') /\ rel[g].at # r[2]
             /\ g \notin open
      BY <1>1, <1>2, <1>7, <3>2 DEF WalkInv, NotReleasing, HoldInv
    <3>4. \A g \in Files : rel'[g].step = "filp" =>
             queue'[rel'[g].at].active = 1 /\ queue'[rel'[g].at].filp = g
      BY <1>7, <3>2, <3>3 DEF HoldInv
    <3>5. \A g \in Files : rel'[g].step = "active" =>
             queue'[rel'[g].at].active = 1 /\ queue'[rel'[g].at].filp = NoFile
      BY <1>7, <3>2, <3>3 DEF HoldInv
    <3>6. \A g, h \in Files : \A i \in 1..Len(queue') : (Clearing(g, i) /\ Clearing(h, i))' => g = h
      BY <3>2, <3>3 DEF HoldInv, Clearing
    <3>7. ASSUME NEW g \in Files, NEW i \in 1..Len(queue'), Holds(g, i)',
                 NEW h \in open', priv'[h] = i
          PROVE  h = g
      <4>1. CASE i = r[2]
        <5>1. g = f
          BY <1>7, <3>3, <3>7, <4>1 DEF Holds, Clearing
        <5>2. priv'[f] = i /\ i # 0
          BY <1>1, <1>2, <1>7, <2>1, <4>1
        <5> QED
          BY <3>2, <3>7, <5>1, <5>2 DEF Sharing
      <4>2. CASE i # r[2]
        <5>1. i \in 1..Len(queue) /\ Holds(g, i)
          BY <1>7, <3>7, <4>2 DEF Holds, Clearing
        <5>2. h # f /\ priv[h] = i
          BY <1>1, <2>1, <3>7, <4>2 DEF ContextInv
        <5> QED
          BY <3>2, <3>7, <5>1, <5>2 DEF HoldInv
      <4> QED
        BY <4>1, <4>2
    <3> QED
      BY <3>1, <3>4, <3>5, <3>6, <3>7 DEF HoldInv
  <2> QED
    BY <1>4, <2>2, <2>3, <2>4, <2>5, <2>6
<1> QED
  BY <1>3, <1>6, <1>7

\* A change of one instance leaves the queue a queue.
LEMMA InstanceChanged ==
  ASSUME NEW q \in Seq(Instance), NEW i \in 1..Len(q), NEW e \in Instance
  PROVE  /\ [q EXCEPT ![i] = e] \in Seq(Instance) /\ Len([q EXCEPT ![i] = e]) = Len(q)
         /\ \A j \in 1..Len(q) : [q EXCEPT ![i] = e][j] = IF j = i THEN e ELSE q[j]
  BY ExceptSeq

\* The same for the changes the handlers make: START.
LEMMA StateSet ==
  ASSUME NEW q \in Seq(Instance), NEW i \in 1..Len(q), NEW p,
         p = [q EXCEPT ![i].dsplog_state = 1]
  PROVE  /\ p \in Seq(Instance) /\ Len(p) = Len(q)
         /\ p[i].dsp_id = q[i].dsp_id /\ p[i].active = q[i].active /\ p[i].filp = q[i].filp
         /\ \A j \in 1..Len(q) : j # i => p[j] = q[j]
<1>1. q[i] \in Instance /\ Len(q) \in Nat /\ DOMAIN q = 1..Len(q)
  BY ElementOfSeq, LenProperties
<1>2. PICK e : e = [q[i] EXCEPT !.dsplog_state = 1]
  OBVIOUS
<1>3. e \in Instance /\ e.dsp_id = q[i].dsp_id /\ e.active = q[i].active /\ e.filp = q[i].filp
  BY <1>1, <1>2 DEF Instance
<1>4. p = [q EXCEPT ![i] = e]
  BY <1>1, <1>2
<1>5. /\ p \in Seq(Instance) /\ Len(p) = Len(q)
      /\ \A j \in 1..Len(q) : p[j] = IF j = i THEN e ELSE q[j]
  BY <1>3, <1>4, InstanceChanged
<1>6. p[i] = e
  BY <1>5
<1> QED
  BY <1>3, <1>5, <1>6

\* release() clears the owner.
LEMMA FilpCleared ==
  ASSUME NEW q \in Seq(Instance), NEW i \in 1..Len(q), NEW p,
         p = [q EXCEPT ![i].filp = NoFile]
  PROVE  /\ p \in Seq(Instance) /\ Len(p) = Len(q)
         /\ p[i].dsp_id = q[i].dsp_id /\ p[i].active = q[i].active /\ p[i].filp = NoFile
         /\ \A j \in 1..Len(q) : j # i => p[j] = q[j]
<1>1. q[i] \in Instance /\ Len(q) \in Nat /\ DOMAIN q = 1..Len(q)
  BY ElementOfSeq, LenProperties
<1>2. PICK e : e = [q[i] EXCEPT !.filp = NoFile]
  OBVIOUS
<1>3. e \in Instance /\ e.dsp_id = q[i].dsp_id /\ e.active = q[i].active /\ e.filp = NoFile
  BY <1>1, <1>2 DEF Instance
<1>4. p = [q EXCEPT ![i] = e]
  BY <1>1, <1>2
<1>5. /\ p \in Seq(Instance) /\ Len(p) = Len(q)
      /\ \A j \in 1..Len(q) : p[j] = IF j = i THEN e ELSE q[j]
  BY <1>3, <1>4, InstanceChanged
<1>6. p[i] = e
  BY <1>5
<1> QED
  BY <1>3, <1>5, <1>6

\* release() frees the instance.
LEMMA ActiveCleared ==
  ASSUME NEW q \in Seq(Instance), NEW i \in 1..Len(q), NEW p,
         p = [q EXCEPT ![i].active = 0]
  PROVE  /\ p \in Seq(Instance) /\ Len(p) = Len(q)
         /\ p[i].dsp_id = q[i].dsp_id /\ p[i].active = 0 /\ p[i].filp = q[i].filp
         /\ \A j \in 1..Len(q) : j # i => p[j] = q[j]
<1>1. q[i] \in Instance /\ Len(q) \in Nat /\ DOMAIN q = 1..Len(q)
  BY ElementOfSeq, LenProperties
<1>2. PICK e : e = [q[i] EXCEPT !.active = 0]
  OBVIOUS
<1>3. e \in Instance /\ e.dsp_id = q[i].dsp_id /\ e.active = 0 /\ e.filp = q[i].filp
  BY <1>1, <1>2 DEF Instance
<1>4. p = [q EXCEPT ![i] = e]
  BY <1>1, <1>2
<1>5. /\ p \in Seq(Instance) /\ Len(p) = Len(q)
      /\ \A j \in 1..Len(q) : p[j] = IF j = i THEN e ELSE q[j]
  BY <1>3, <1>4, InstanceChanged
<1>6. p[i] = e
  BY <1>5
<1> QED
  BY <1>3, <1>5, <1>6

\* StartOldChip and SetDspCore take what dsplog_register_log_cap returns.
LEMMA RegisterSteps ==
  ASSUME RegistryInv, NEW f \in Files,
         StartOldChip(f) \/ \E c \in Cores : SetDspCore(f, c)
  PROVE  RegistryInv'
<1>1. CASE \E c \in Cores : SetDspCore(f, c)
  <2>0. PICK c \in Cores : SetDspCore(f, c)
    BY <1>1
  <2>1. PICK r \in Register(f, c) :
          /\ f \in open /\ timer_initialized' = 0
          /\ queue' = r[1] /\ PointTo(f, r[2]) /\ UNCHANGED <<open, rel>>
    BY <2>0 DEF SetDspCore
  <2>2. SameOwners(r[1])
    BY <2>1, RegisterReturns DEF SameOwners
  <2> QED
    BY <2>1, <2>2, CoreGiven
<1>2. CASE StartOldChip(f)
  <2>0. PICK c \in Cores : \E r \in Register(f, c) :
          /\ PointTo(f, r[2])
          /\ IF r[2] = 0
               THEN queue' = r[1] /\ timer_initialized' = 0
               ELSE /\ queue' = [r[1] EXCEPT ![r[2]].dsplog_state = 1]
                    /\ timer_initialized' = 1
    BY <1>2 DEF StartOldChip
  <2>1. PICK r \in Register(f, c) :
          /\ PointTo(f, r[2])
          /\ IF r[2] = 0
               THEN queue' = r[1] /\ timer_initialized' = 0
               ELSE /\ queue' = [r[1] EXCEPT ![r[2]].dsplog_state = 1]
                    /\ timer_initialized' = 1
    BY <2>0
  <2>2. f \in open /\ UCODE_CORE_NUM = 1 /\ UNCHANGED <<open, rel>>
    BY <1>2 DEF StartOldChip
  <2>3. r[1] \in Seq(Instance) /\ (r[2] # 0 => r[2] \in 1..Len(r[1]))
    BY <2>2, RegisterReturns, LenProperties DEF RegistryInv, QueueInv
  <2>4. SameOwners(r[1])
    <3>1. CASE r[2] = 0
      BY <2>1, <2>3, <3>1 DEF SameOwners
    <3>2. CASE r[2] # 0
      <4>1. r[2] \in 1..Len(r[1]) /\ queue' = [r[1] EXCEPT ![r[2]].dsplog_state = 1]
        BY <2>1, <2>3, <3>2
      <4>2. /\ queue' \in Seq(Instance) /\ Len(queue') = Len(r[1])
            /\ queue'[r[2]].dsp_id = r[1][r[2]].dsp_id
            /\ queue'[r[2]].active = r[1][r[2]].active /\ queue'[r[2]].filp = r[1][r[2]].filp
            /\ \A j \in 1..Len(r[1]) : j # r[2] => queue'[j] = r[1][j]
        BY <2>3, <4>1, StateSet
      <4> QED
        BY <4>2 DEF SameOwners
    <3> QED
      BY <3>1, <3>2
  <2> QED
    BY <2>1, <2>2, <2>4, CoreGiven
<1> QED
  BY <1>1, <1>2

LEMMA StartStep ==
  ASSUME RegistryInv, NEW f \in Files, StartCap(f)
  PROVE  RegistryInv'
<1>1. queue \in Seq(Instance) /\ Len(queue) \in Nat /\ priv[f] \in 1..Len(queue)
  BY LenProperties DEF RegistryInv, QueueInv, ContextInv, NoDanglingContext, StartCap
<1>2. /\ queue' \in Seq(Instance) /\ Len(queue') = Len(queue)
      /\ queue'[priv[f]].dsp_id = queue[priv[f]].dsp_id
      /\ queue'[priv[f]].active = queue[priv[f]].active
      /\ queue'[priv[f]].filp = queue[priv[f]].filp
      /\ \A j \in 1..Len(queue) : j # priv[f] => queue'[j] = queue[j]
  BY <1>1, StateSet DEF StartCap
<1>3. SameOwners(queue)
  BY <1>2 DEF SameOwners
<1>4. timer_initialized' \in {0, 1} /\ (timer_initialized' = 1 => Len(queue) = UCODE_CORE_NUM)
  BY DEF StartCap, RegistryInv, TimerInv
<1> QED
  BY <1>3, <1>4, OwnersKept DEF StartCap

\* STOP frees the instance, whoever holds it now.
LEMMA StopStep ==
  ASSUME RegistryInv, NEW f \in Files, StopCap(f)
  PROVE  RegistryInv'
<1> USE DEF RegistryInv
<1>1. queue \in Seq(Instance) /\ Len(queue) \in Nat /\ priv[f] \in 1..Len(queue) /\ f \in open
  BY LenProperties DEF QueueInv, ContextInv, NoDanglingContext, StopCap
<1>2. /\ queue' \in Seq(Instance) /\ Len(queue') = Len(queue)
      /\ queue'[priv[f]].dsp_id = queue[priv[f]].dsp_id /\ queue'[priv[f]].active = 0
      /\ \A j \in 1..Len(queue) : j # priv[f] => queue'[j] = queue[j]
  <2>1. PICK e : e = [queue[priv[f]] EXCEPT !.dsplog_state = 0, !.active = 0, !.filp = NoFile]
    OBVIOUS
  <2>2. queue[priv[f]] \in Instance /\ DOMAIN queue = 1..Len(queue)
    BY <1>1, ElementOfSeq, LenProperties
  <2>3. e \in Instance /\ e.dsp_id = queue[priv[f]].dsp_id /\ e.active = 0
    BY <2>1, <2>2 DEF Instance
  <2>4. queue' = [queue EXCEPT ![priv[f]] = e]
    BY <1>1, <2>1, <2>2 DEF StopCap
  <2>5. /\ queue' \in Seq(Instance) /\ Len(queue') = Len(queue)
        /\ \A j \in 1..Len(queue) : queue'[j] = IF j = priv[f] THEN e ELSE queue[j]
    BY <1>1, <2>3, <2>4, InstanceChanged
  <2> QED
    BY <1>1, <2>3, <2>5
<1>3. timer_initialized' = 0 /\ UNCHANGED <<open, priv, rel, shared>>
  BY DEF StopCap
<1>4. QueueInv'
  BY <1>1, <1>2 DEF QueueInv, OneEach
<1>5. ContextInv' /\ TimerInv' /\ WalkInv'
  BY <1>2, <1>3 DEF ContextInv, TimerInv, WalkInv, NoDanglingContext, Releasing
<1>6. OwnerCanRelease'
  BY <1>1, <1>2, <1>3 DEF OwnerCanRelease, Releasing
<1>7. HoldInv'
  <2> SUFFICES ASSUME shared = FALSE
               PROVE  HoldInv'
    BY <1>3 DEF HoldInv
  <2>1. \A g \in Files : rel[g].step \in {"filp", "active"} =>
          /\ rel[g].at \in 1..Len(queue) /\ g \notin open
          /\ rel[g].at # priv[f]
    <3> SUFFICES ASSUME NEW g \in Files, rel[g].step \in {"filp", "active"},
                        rel[g].at = priv[f]
                 PROVE  g \in open
      BY <1>1 DEF WalkInv, NotReleasing
    <3>1. Holds(g, priv[f])
      BY DEF Holds, Clearing, HoldInv
    <3> QED
      BY <1>1, <3>1 DEF HoldInv
  <2>2. \A g \in Files : \A i \in 1..Len(queue') : Holds(g, i)' => Holds(g, i)
    BY <1>1, <1>2, <1>3 DEF Holds, Clearing
  <2> QED
    BY <1>1, <1>2, <1>3, <2>1, <2>2 DEF HoldInv, Clearing
<1> QED
  BY <1>4, <1>5, <1>6, <1>7

\* open() and the begin and the end of release(), which leave the queue.
LEMMA FileSteps ==
  ASSUME RegistryInv, NEW f \in Files,
         OpenFile(f) \/ ReleaseFile(f) \/ ReleaseTest(f) \/ ReleaseDone(f)
  PROVE  RegistryInv'
<1> USE DEF RegistryInv
<1>1. UNCHANGED <<queue, timer_initialized, shared>> /\ Len(queue) \in Nat
  BY LenProperties DEF OpenFile, ReleaseFile, ReleaseTest, ReleaseDone, QueueInv
<1>2. QueueInv' /\ TimerInv'
  BY <1>1 DEF QueueInv, OneEach, TimerInv
<1>3. CASE OpenFile(f)
  <2>1. ContextInv' /\ WalkInv'
    BY <1>1, <1>3 DEF OpenFile, ContextInv, WalkInv, NoDanglingContext, Releasing, NotReleasing
  <2>2. OwnerCanRelease'
    BY <1>1, <1>3 DEF OpenFile, OwnerCanRelease, Releasing
  <2>3. \A g \in open' : \A i \in 1..Len(queue) : priv'[g] = i => g \in open /\ priv[g] = i
    BY <1>3 DEF OpenFile, ContextInv
  <2>4. HoldInv'
    BY <1>1, <1>3, <2>3 DEF OpenFile, HoldInv, Holds, Clearing
  <2> QED
    BY <1>2, <2>1, <2>2, <2>4
<1>4. CASE ReleaseFile(f)
  <2>1. rel' = [rel EXCEPT ![f] = [at |-> 1, step |-> "test"]] /\ open' = open \ {f}
        /\ priv' = priv /\ f \in open /\ rel[f] = NotReleasing
    BY <1>4 DEF ReleaseFile, WalkInv
  <2>2. WalkInv'
    BY <1>1, <2>1 DEF WalkInv
  <2>3. ContextInv'
    <3>1. Releasing' = Releasing \union {f} /\ open' = open \ {f}
      BY <2>1 DEF WalkInv, Releasing, NotReleasing
    <3> QED
      BY <1>1, <2>1, <3>1 DEF ContextInv, NoDanglingContext
  <2>4. OwnerCanRelease'
    <3>1. f \in Releasing' /\ rel'[f].at = 1 /\ (\A g \in Releasing : g # f /\ rel'[g] = rel[g])
      BY <2>1 DEF WalkInv, Releasing, NotReleasing
    <3>2. Releasing \subseteq Releasing'
      BY <3>1 DEF Releasing
    <3>3. ASSUME NEW k \in 1..Len(queue), queue[k].active = 1
          PROVE  \/ queue[k].filp \in open'
                 \/ \E g \in Releasing' :
                      /\ rel'[g].at <= k
                      /\ queue[k].filp = g \/ (rel'[g].at = k /\ rel'[g].step = "active")
      <4>1. CASE queue[k].filp \in open
        BY <1>1, <2>1, <3>1, <4>1
      <4>2. CASE queue[k].filp \notin open
        BY <3>1, <3>2, <3>3, <4>2 DEF OwnerCanRelease
      <4> QED
        BY <4>1, <4>2
    <3> QED
      BY <1>1, <3>3 DEF OwnerCanRelease
  <2>5. HoldInv'
    BY <1>1, <2>1 DEF WalkInv, HoldInv, Holds, Clearing, NotReleasing
  <2> QED
    BY <1>2, <2>2, <2>3, <2>4, <2>5
<1>5. CASE ReleaseTest(f)
  <2> DEFINE i == rel[f].at
             found == queue[i].filp = f /\ queue[i].active = 1
  <2>1. /\ i \in 1..Len(queue) /\ rel[f].step = "test" /\ rel[f] # NotReleasing /\ f \notin open
        /\ open' = open /\ priv' = priv
    BY <1>1, <1>5 DEF ReleaseTest, WalkInv, NotReleasing
  <2>2. rel \in [Files -> [at : Nat, step : {"none", "test", "filp", "active"}]]
    BY DEF WalkInv
  <2>3. \/ found /\ rel' = [rel EXCEPT ![f].step = "filp"]
        \/ ~ found /\ rel' = [rel EXCEPT ![f].at = i + 1]
    BY <1>5 DEF ReleaseTest
  <2>4. /\ \A g \in Files : g # f => rel'[g] = rel[g]
        /\ rel' \in [Files -> [at : Nat, step : {"none", "test", "filp", "active"}]]
        /\ \/ found /\ rel'[f].at = i /\ rel'[f].step = "filp"
           \/ ~ found /\ rel'[f].at = i + 1 /\ rel'[f].step = "test"
    <3>1. CASE found /\ rel' = [rel EXCEPT ![f].step = "filp"]
      BY <2>1, <2>2, <3>1
    <3>2. CASE ~ found /\ rel' = [rel EXCEPT ![f].at = i + 1]
      BY <1>1, <2>1, <2>2, <3>2
    <3> QED
      BY <2>3, <3>1, <3>2
  <2>5. WalkInv'
    BY <1>1, <2>1, <2>4 DEF WalkInv
  <2>6. ContextInv'
    <3>1. Releasing' = Releasing
      BY <2>1, <2>4 DEF Releasing, NotReleasing
    <3> QED
      BY <1>1, <2>1, <3>1 DEF ContextInv, NoDanglingContext
  <2>7. OwnerCanRelease'
    <3> SUFFICES ASSUME NEW k \in 1..Len(queue), queue[k].active = 1, queue[k].filp \notin open
                 PROVE  \E g \in Releasing' :
                          /\ rel'[g].at <= k
                          /\ queue[k].filp = g \/ (rel'[g].at = k /\ rel'[g].step = "active")
      BY <1>1, <2>1 DEF OwnerCanRelease
    <3>1. PICK g \in Releasing : /\ rel[g].at <= k
                                 /\ queue[k].filp = g \/ (rel[g].at = k /\ rel[g].step = "active")
      BY DEF OwnerCanRelease
    <3>2. g \in Releasing'
      BY <2>4, <3>1 DEF Releasing, NotReleasing
    <3>3. CASE g # f
      BY <2>4, <3>1, <3>2, <3>3 DEF Releasing
    <3>4. CASE g = f
      BY <2>1, <2>2, <2>4, <3>1, <3>2, <3>4 DEF Releasing
    <3> QED
      BY <3>3, <3>4
  <2>8. HoldInv'
    BY <1>1, <2>1, <2>4 DEF HoldInv, Holds, Clearing
  <2> QED
    BY <1>2, <2>5, <2>6, <2>7, <2>8
<1>6. CASE ReleaseDone(f)
  <2>1. /\ rel' = [rel EXCEPT ![f] = NotReleasing] /\ priv' = [priv EXCEPT ![f] = 0]
        /\ open' = open /\ rel[f].at > Len(queue) /\ rel[f].step = "test" /\ f \notin open
    BY <1>6 DEF ReleaseDone, WalkInv, NotReleasing
  <2>2. WalkInv'
    BY <1>1, <2>1 DEF WalkInv, NotReleasing
  <2>3. ContextInv'
    BY <1>1, <2>1 DEF WalkInv, ContextInv, NoDanglingContext, Releasing
  <2>4. OwnerCanRelease'
    BY <1>1, <2>1 DEF WalkInv, OwnerCanRelease, Releasing
  <2>5. HoldInv'
    BY <1>1, <2>1 DEF WalkInv, HoldInv, Holds, Clearing, NotReleasing, ContextInv
  <2> QED
    BY <1>2, <2>2, <2>3, <2>4, <2>5
<1> QED
  BY <1>3, <1>4, <1>5, <1>6

\* release() has found its instance and gives it up, in two steps.
LEMMA GiveUpSteps ==
  ASSUME RegistryInv, NEW f \in Files, ReleaseFilp(f) \/ ReleaseActive(f)
  PROVE  RegistryInv'
<1> USE DEF RegistryInv
<1> DEFINE at == rel[f].at
<1>1. /\ queue \in Seq(Instance) /\ Len(queue) \in Nat /\ at \in 1..Len(queue)
      /\ f \notin open /\ f \in Releasing
      /\ rel \in [Files -> [at : Nat, step : {"none", "test", "filp", "active"}]]
  BY LenProperties DEF QueueInv, WalkInv, ReleaseFilp, ReleaseActive, NotReleasing, Releasing
<1>2. UNCHANGED <<open, priv, timer_initialized, shared>>
  BY DEF ReleaseFilp, ReleaseActive
<1>3. CASE ReleaseFilp(f)
  <2>1. queue' = [queue EXCEPT ![at].filp = NoFile] /\ rel[f].step = "filp"
        /\ rel' = [rel EXCEPT ![f].step = "active"]
    BY <1>3 DEF ReleaseFilp
  <2>2. /\ queue' \in Seq(Instance) /\ Len(queue') = Len(queue)
        /\ queue'[at].dsp_id = queue[at].dsp_id /\ queue'[at].active = queue[at].active
        /\ queue'[at].filp = NoFile
        /\ \A j \in 1..Len(queue) : j # at => queue'[j] = queue[j]
    BY <1>1, <2>1, FilpCleared
  <2>3. /\ rel' \in [Files -> [at : Nat, step : {"none", "test", "filp", "active"}]]
        /\ rel'[f].at = at /\ rel'[f].step = "active"
        /\ \A g \in Files : g # f => rel'[g] = rel[g]
    BY <1>1, <2>1
  <2>4. QueueInv' /\ TimerInv'
    <3>1. \A j \in 1..Len(queue) : queue'[j].dsp_id = queue[j].dsp_id
      BY <1>1, <2>2
    <3>2. QueueInv'
      BY <2>2, <3>1 DEF QueueInv, OneEach
    <3> QED
      BY <1>2, <2>2, <3>2 DEF TimerInv
  <2>5. WalkInv'
    BY <1>1, <1>2, <2>2, <2>3 DEF WalkInv
  <2>6. Releasing' = Releasing
    BY <1>1, <2>3 DEF Releasing, NotReleasing
  <2>7. ContextInv'
    BY <1>1, <1>2, <2>2, <2>6 DEF ContextInv, NoDanglingContext
  <2>8. OwnerCanRelease'
    <3> SUFFICES ASSUME NEW k \in 1..Len(queue), queue'[k].active = 1, queue'[k].filp \notin open
                 PROVE  \E g \in Releasing :
                          /\ rel'[g].at <= k
                          /\ queue'[k].filp = g \/ (rel'[g].at = k /\ rel'[g].step = "active")
      BY <1>2, <2>2, <2>6 DEF OwnerCanRelease
    <3>1. CASE k = at
      BY <1>1, <2>3, <3>1
    <3>2. CASE k # at
      <4>1. PICK g \in Releasing :
              /\ rel[g].at <= k
              /\ queue[k].filp = g \/ (rel[g].at = k /\ rel[g].step = "active")
        BY <2>2, <3>2 DEF OwnerCanRelease
      <4>2. rel'[g].at = rel[g].at /\ (rel[g].step = "active" => rel'[g].step = "active")
        BY <2>3, <4>1 DEF Releasing
      <4> QED
        BY <2>2, <3>2, <4>1, <4>2
    <3> QED
      BY <3>1, <3>2
  <2>9. HoldInv'
    <3> SUFFICES ASSUME shared = FALSE
                 PROVE  HoldInv'
      BY <1>2 DEF HoldInv
    <3>1. Holds(f, at) /\ queue[at].active = 1 /\ queue[at].filp = f /\ f # NoFile
      BY <1>1, <2>1, RegistryAssumption DEF HoldInv, Holds
    <3>2. \A g \in Files : g # f /\ rel[g].step \in {"filp", "active"} =>
            rel[g].at \in 1..Len(queue) /\ rel[g].at # at
      BY <3>1 DEF HoldInv, WalkInv, NotReleasing
    <3>3. \A g \in Files : \A i \in 1..Len(queue) : Holds(g, i)' => Holds(g, i)
      <4> SUFFICES ASSUME NEW g \in Files, NEW i \in 1..Len(queue), Holds(g, i)'
                   PROVE  Holds(g, i)
        OBVIOUS
      <4>1. CASE i = at
        <5>1. queue'[i].filp # g
          BY <2>2, <4>1, RegistryAssumption
        <5>2. Clearing(g, i)'
          BY <5>1 DEF Holds
        <5>3. g = f
          BY <2>3, <3>2, <4>1, <5>2 DEF Clearing
        <5> QED
          BY <3>1, <4>1, <5>3
      <4>2. CASE i # at
        <5>1. queue'[i] = queue[i]
          BY <2>2, <4>2
        <5>2. Clearing(g, i)' => Clearing(g, i)
          BY <2>3, <4>2 DEF Clearing
        <5> QED
          BY <5>1, <5>2 DEF Holds
      <4> QED
        BY <4>1, <4>2
    <3>4. \A g \in Files : rel'[g].step = "filp" =>
            queue'[rel'[g].at].active = 1 /\ queue'[rel'[g].at].filp = g
      BY <2>2, <2>3, <3>2 DEF HoldInv
    <3>5. \A g \in Files : rel'[g].step = "active" =>
            queue'[rel'[g].at].active = 1 /\ queue'[rel'[g].at].filp = NoFile
      BY <2>2, <2>3, <3>1, <3>2 DEF HoldInv
    <3>6. \A g, h \in Files : \A i \in 1..Len(queue) : (Clearing(g, i) /\ Clearing(h, i))' => g = h
      BY <2>3, <3>2 DEF HoldInv, Clearing
    <3> QED
      BY <1>2, <2>2, <3>3, <3>4, <3>5, <3>6 DEF HoldInv
  <2> QED
    BY <2>4, <2>5, <2>7, <2>8, <2>9
<1>4. CASE ReleaseActive(f)
  <2>1. queue' = [queue EXCEPT ![at].active = 0] /\ rel[f].step = "active"
        /\ rel' = [rel EXCEPT ![f] = [at |-> at + 1, step |-> "test"]]
    BY <1>4 DEF ReleaseActive
  <2>2. /\ queue' \in Seq(Instance) /\ Len(queue') = Len(queue)
        /\ queue'[at].dsp_id = queue[at].dsp_id /\ queue'[at].active = 0
        /\ queue'[at].filp = queue[at].filp
        /\ \A j \in 1..Len(queue) : j # at => queue'[j] = queue[j]
    BY <1>1, <2>1, ActiveCleared
  <2>3. /\ rel' \in [Files -> [at : Nat, step : {"none", "test", "filp", "active"}]]
        /\ rel'[f].at = at + 1 /\ rel'[f].step = "test"
        /\ \A g \in Files : g # f => rel'[g] = rel[g]
    BY <1>1, <2>1
  <2>4. QueueInv' /\ TimerInv'
    <3>1. \A j \in 1..Len(queue) : queue'[j].dsp_id = queue[j].dsp_id
      BY <1>1, <2>2
    <3>2. QueueInv'
      BY <2>2, <3>1 DEF QueueInv, OneEach
    <3> QED
      BY <1>2, <2>2, <3>2 DEF TimerInv
  <2>5. WalkInv'
    BY <1>1, <1>2, <2>2, <2>3 DEF WalkInv
  <2>6. Releasing' = Releasing
    BY <1>1, <2>3 DEF Releasing, NotReleasing
  <2>7. ContextInv'
    BY <1>1, <1>2, <2>2, <2>6 DEF ContextInv, NoDanglingContext
  <2>8. OwnerCanRelease'
    <3> SUFFICES ASSUME NEW k \in 1..Len(queue), queue'[k].active = 1, queue'[k].filp \notin open
                 PROVE  \E g \in Releasing :
                          /\ rel'[g].at <= k
                          /\ queue'[k].filp = g \/ (rel'[g].at = k /\ rel'[g].step = "active")
      BY <1>2, <2>2, <2>6 DEF OwnerCanRelease
    <3>1. k # at
      BY <1>1, <2>2
    <3>2. PICK g \in Releasing :
            /\ rel[g].at <= k
            /\ queue[k].filp = g \/ (rel[g].at = k /\ rel[g].step = "active")
      BY <2>2, <3>1 DEF OwnerCanRelease
    <3>3. rel'[g].at <= k /\ (rel[g].at = k => rel'[g] = rel[g])
      BY <1>1, <2>3, <3>1, <3>2 DEF Releasing
    <3> QED
      BY <2>2, <3>1, <3>2, <3>3
  <2>9. HoldInv'
    <3> SUFFICES ASSUME shared = FALSE
                 PROVE  HoldInv'
      BY <1>2 DEF HoldInv
    <3>1. Clearing(f, at) /\ queue[at].filp = NoFile
      BY <1>1, <2>1 DEF HoldInv, Clearing
    <3>2. \A g \in Files : g # f /\ rel[g].step \in {"filp", "active"} =>
            rel[g].at \in 1..Len(queue) /\ rel[g].at # at
      <4> SUFFICES ASSUME NEW g \in Files, g # f, rel[g].step \in {"filp", "active"}
                   PROVE  rel[g].at \in 1..Len(queue) /\ rel[g].at # at
        OBVIOUS
      <4>1. rel[g].at \in 1..Len(queue)
        BY DEF WalkInv, NotReleasing
      <4>2. CASE rel[g].step = "filp"
        BY <3>1, <4>1, <4>2, RegistryAssumption DEF HoldInv
      <4>3. CASE rel[g].step = "active"
        BY <1>1, <3>1, <4>1, <4>3 DEF HoldInv, Clearing
      <4> QED
        BY <4>1, <4>2, <4>3
    <3>3. \A g \in Files : \A i \in 1..Len(queue) : Holds(g, i)' => Holds(g, i)
      BY <1>1, <2>2, <2>3 DEF Holds, Clearing
    <3>4. \A g \in Files : rel'[g].step = "filp" =>
            queue'[rel'[g].at].active = 1 /\ queue'[rel'[g].at].filp = g
      BY <2>2, <2>3, <3>2 DEF HoldInv
    <3>5. \A g \in Files : rel'[g].step = "active" =>
            queue'[rel'[g].at].active = 1 /\ queue'[rel'[g].at].filp = NoFile
      BY <2>2, <2>3, <3>2 DEF HoldInv
    <3>6. \A g, h \in Files : \A i \in 1..Len(queue) : (Clearing(g, i) /\ Clearing(h, i))' => g = h
      BY <2>3 DEF HoldInv, Clearing
    <3> QED
      BY <1>2, <2>2, <3>3, <3>4, <3>5, <3>6 DEF HoldInv
  <2> QED
    BY <2>4, <2>5, <2>7, <2>8, <2>9
<1> QED
  BY <1>3, <1>4

----------------------------------------------------------------------------
(* The theorems.                                                           *)

LEMMA RegistryStarts == RegistryInit => RegistryInv
<1> SUFFICES ASSUME RegistryInit PROVE RegistryInv
  OBVIOUS
<1>1. queue \in Seq(Instance) /\ Len(queue) = 0
  BY DEF RegistryInit
<1>2. rel \in [Files -> [at : Nat, step : {"none", "test", "filp", "active"}]]
  BY DEF RegistryInit, NotReleasing
<1>3. \A f \in Files : rel[f] = NotReleasing /\ rel[f].step = "none"
  BY DEF RegistryInit, NotReleasing
<1>4. QueueInv /\ ContextInv /\ TimerInv
  BY <1>1 DEF QueueInv, OneEach, ContextInv, TimerInv, RegistryInit, NoDanglingContext, Releasing
<1>5. WalkInv
  BY <1>2, <1>3 DEF WalkInv
<1>6. HoldInv
  <2>1. shared = FALSE
    BY DEF RegistryInit
  <2>2. \A i \in 1..Len(queue) : FALSE
    BY <1>1
  <2> QED
    BY <1>3, <2>1, <2>2 DEF HoldInv
<1>7. OwnerCanRelease
  BY <1>1 DEF OwnerCanRelease
<1> QED
  BY <1>4, <1>5, <1>6, <1>7 DEF RegistryInv

LEMMA ReloadStep ==
  ASSUME RegistryInv, Reload
  PROVE  RegistryInv'
<1>1. queue' \in Seq(Instance) /\ Len(queue') = 0 /\ open' = {} /\ timer_initialized' = 0
      /\ UNCHANGED <<priv, rel, shared>>
  BY DEF Reload
<1>2. \A f \in Files : rel[f] = NotReleasing /\ rel[f].step = "none"
  BY DEF Reload, Releasing, NotReleasing
<1>3. QueueInv' /\ TimerInv'
  BY <1>1 DEF QueueInv, OneEach, TimerInv
<1>6. Releasing = {} /\ Releasing' = {} /\ open = {} /\ open' = {}
  BY <1>1, <1>2 DEF Releasing, Reload
<1>7. ContextInv'
  BY <1>1, <1>6 DEF RegistryInv, ContextInv, NoDanglingContext
<1>4. WalkInv' /\ OwnerCanRelease'
  BY <1>1, <1>2 DEF RegistryInv, WalkInv, OwnerCanRelease
<1>5. HoldInv'
  BY <1>1, <1>2 DEF RegistryInv, HoldInv
<1> QED
  BY <1>3, <1>4, <1>5, <1>7 DEF RegistryInv

LEMMA RegistryStep == RegistryInv /\ [RegistryNext]_registryVars => RegistryInv'
<1> SUFFICES ASSUME RegistryInv, [RegistryNext]_registryVars PROVE RegistryInv'
  OBVIOUS
<1>1. CASE UNCHANGED registryVars
  <2>1. QueueInv' /\ TimerInv' /\ WalkInv'
    BY <1>1 DEF registryVars, RegistryInv, QueueInv, OneEach, TimerInv, WalkInv
  <2>2. ContextInv' /\ OwnerCanRelease'
    BY <1>1 DEF registryVars, RegistryInv, ContextInv, NoDanglingContext, OwnerCanRelease, Releasing
  <2>3. HoldInv'
    BY <1>1 DEF registryVars, RegistryInv, HoldInv, Holds, Clearing
  <2> QED
    BY <2>1, <2>2, <2>3 DEF RegistryInv
<1>2. CASE Reload
  BY <1>2, ReloadStep
<1>3. ASSUME NEW f \in Files,
             \/ OpenFile(f) \/ StartCap(f) \/ StartOldChip(f) \/ StopCap(f)
             \/ \E c \in Cores : SetDspCore(f, c)
             \/ ReleaseFile(f) \/ ReleaseStep(f)
      PROVE  RegistryInv'
  BY <1>3, FileSteps, StartStep, RegisterSteps, StopStep, GiveUpSteps DEF ReleaseStep
<1> QED
  BY <1>1, <1>2, <1>3 DEF RegistryNext, Start

THEOREM RegistryInvariant == RegistrySpec => []RegistryInv
  BY RegistryStarts, RegistryStep, PTL DEF RegistrySpec

\* The types of the state, for any number of files and cores; with them,
\* that the queue has no more instances than there are cores.
THEOREM RegistryTypes == RegistrySpec => []RegistryTypeOK
<1>1. RegistryInv => RegistryTypeOK
  <2> SUFFICES ASSUME RegistryInv PROVE RegistryTypeOK
    OBVIOUS
  <2> USE DEF RegistryInv
  <2>1. Len(queue) \in Nat /\ Len(queue) <= UCODE_CORE_NUM /\ UCODE_CORE_NUM \in Nat
    BY QueueBound, LenProperties, FS_CardinalityType, RegistryAssumption
       DEF QueueInv, OneEach, UCODE_CORE_NUM
  <2>2. priv \in [Files -> 0..UCODE_CORE_NUM]
    <3>1. \A f \in Files : priv[f] \in 0..UCODE_CORE_NUM
      BY <2>1 DEF ContextInv, NoDanglingContext
    <3> QED
      BY <3>1 DEF ContextInv
  <2>3. rel \in [Files -> [at : 0..(UCODE_CORE_NUM + 1), step : {"none", "test", "filp", "active"}]]
    <3>1. \A f \in Files :
            rel[f] \in [at : 0..(UCODE_CORE_NUM + 1), step : {"none", "test", "filp", "active"}]
      <4> SUFFICES ASSUME NEW f \in Files
                   PROVE  rel[f] \in [at : 0..(UCODE_CORE_NUM + 1),
                                      step : {"none", "test", "filp", "active"}]
        OBVIOUS
      <4>1. rel[f].at \in 0..(UCODE_CORE_NUM + 1)
        BY <2>1 DEF WalkInv, NotReleasing
      <4>2. rel[f] \in [at : Nat, step : {"none", "test", "filp", "active"}]
        BY DEF WalkInv
      <4> QED
        BY <4>1, <4>2
    <3> QED
      BY <3>1 DEF WalkInv
  <2> QED
    BY <2>2, <2>3 DEF RegistryTypeOK, QueueInv, ContextInv, TimerInv, HoldInv
<1> QED
  BY <1>1, RegistryInvariant, PTL

\* The timer runs only while every core has its one instance, so that the
\* array dsp_printk_timer fills has room: a queue without two instances of
\* a core is full just when no core is missing.
THEOREM TimerServesAllCores == RegistrySpec => []TimerServesAll
<1>1. RegistryInv => TimerServesAll
  <2> SUFFICES ASSUME RegistryInv PROVE TimerServesAll
    OBVIOUS
  <2> USE DEF RegistryInv
  <2>1. ASSUME NEW c \in Cores PROVE Cardinality(PlacesOf(c)) <= 1
    <3>1. \A i, j \in PlacesOf(c) : i = j
      BY DEF PlacesOf, QueueInv, OneEach
    <3>2. CASE PlacesOf(c) = {}
      BY <3>2, FS_EmptySet
    <3>3. CASE PlacesOf(c) # {}
      <4>1. PICK i : PlacesOf(c) = {i}
        BY <3>1, <3>3
      <4>2. Cardinality({i}) = 1
        BY FS_Singleton
      <4> QED
        BY <4>1, <4>2
    <3> QED
      BY <3>2, <3>3
  <2>2. ASSUME timer_initialized = 1, NEW c \in Cores PROVE PlacesOf(c) # {}
    <3>1. \E i \in 1..Len(queue) : queue[i].dsp_id = c
      BY <2>2, QueueBound DEF TimerInv, QueueInv, OneEach
    <3> QED
      BY <3>1 DEF PlacesOf
  <2> QED
    BY <2>1, <2>2 DEF TimerServesAll
<1> QED
  BY <1>1, RegistryInvariant, PTL

\* No context points past the instances, for any number of files: an open
\* file keeps dsplog_deinit from freeing them.
THEOREM ContextsPointToInstances == RegistrySpec => []NoDanglingContext
<1>1. RegistryInv => NoDanglingContext
  BY DEF RegistryInv, ContextInv
<1> QED
  BY <1>1, RegistryInvariant, PTL

\* A core is not occupied for ever by a file that is gone, whatever the
\* processes do between the accesses of a release().
THEOREM OwnersCanRelease == RegistrySpec => []OwnerCanRelease
<1>1. RegistryInv => OwnerCanRelease
  BY DEF RegistryInv
<1> QED
  BY <1>1, RegistryInvariant, PTL

\* What a step does to an instance that an open file owns.
OwnerKept(i, f) ==
  \/ queue'[i].active = 1 /\ queue'[i].filp = f
  \/ priv[f] = i /\ timer_initialized' = 0 /\ queue'[i].dsplog_state = 0

LEMMA OwnershipStep ==
  ASSUME RegistryInv, RegistryNext, shared = FALSE,
         NEW i \in 1..Len(queue), NEW f \in open, queue[i].active = 1, queue[i].filp = f
  PROVE  OwnerKept(i, f)
<1> USE DEF RegistryInv
<1>1. queue \in Seq(Instance) /\ Len(queue) \in Nat /\ f \in Files /\ f # NoFile
  BY LenProperties, RegistryAssumption DEF QueueInv, ContextInv
<1>2. CASE Reload
  BY <1>2 DEF Reload
<1>3. ASSUME NEW g \in Files, OpenFile(g) \/ ReleaseFile(g) \/ ReleaseTest(g) \/ ReleaseDone(g)
      PROVE  OwnerKept(i, f)
  BY <1>3 DEF OpenFile, ReleaseFile, ReleaseTest, ReleaseDone, OwnerKept
<1>4. ASSUME NEW g \in Files, StartCap(g) PROVE OwnerKept(i, f)
  <2>1. priv[g] \in 1..Len(queue) /\ queue' = [queue EXCEPT ![priv[g]].dsplog_state = 1]
    BY <1>1, <1>4 DEF StartCap, ContextInv, NoDanglingContext
  <2>2. /\ queue'[priv[g]].active = queue[priv[g]].active
        /\ queue'[priv[g]].filp = queue[priv[g]].filp
        /\ \A j \in 1..Len(queue) : j # priv[g] => queue'[j] = queue[j]
    BY <1>1, <2>1, StateSet
  <2> QED
    BY <2>2 DEF OwnerKept
<1>5. ASSUME NEW g \in open, NEW c \in Cores, NEW r \in Register(g, c)
      PROVE  /\ r[1] \in Seq(Instance) /\ i \in 1..Len(r[1])
             /\ r[2] # 0 => r[2] \in 1..Len(r[1])
             /\ r[1][i].active = 1 /\ r[1][i].filp = f
  BY <1>1, RegisterReturns
<1>6. ASSUME NEW g \in Files, NEW c \in Cores, SetDspCore(g, c) PROVE OwnerKept(i, f)
  BY <1>5, <1>6 DEF SetDspCore, OwnerKept
<1>7. ASSUME NEW g \in Files, StartOldChip(g) PROVE OwnerKept(i, f)
  <2>1. g \in open
    BY <1>7 DEF StartOldChip
  <2>2. PICK c \in Cores : \E r \in Register(g, c) :
          queue' = r[1] \/ (r[2] # 0 /\ queue' = [r[1] EXCEPT ![r[2]].dsplog_state = 1])
    BY <1>7 DEF StartOldChip
  <2>3. PICK r \in Register(g, c) :
          queue' = r[1] \/ (r[2] # 0 /\ queue' = [r[1] EXCEPT ![r[2]].dsplog_state = 1])
    BY <2>2
  <2>4. /\ r[1] \in Seq(Instance) /\ i \in 1..Len(r[1])
        /\ r[2] # 0 => r[2] \in 1..Len(r[1])
        /\ r[1][i].active = 1 /\ r[1][i].filp = f
    BY <1>5, <2>1
  <2>5. CASE queue' = r[1]
    BY <2>4, <2>5 DEF OwnerKept
  <2>6. CASE r[2] # 0 /\ queue' = [r[1] EXCEPT ![r[2]].dsplog_state = 1]
    <3>1. /\ queue'[r[2]].active = r[1][r[2]].active /\ queue'[r[2]].filp = r[1][r[2]].filp
          /\ \A j \in 1..Len(r[1]) : j # r[2] => queue'[j] = r[1][j]
      BY <2>4, <2>6, StateSet
    <3> QED
      BY <2>4, <3>1 DEF OwnerKept
  <2> QED
    BY <2>3, <2>5, <2>6
<1>8. \A g \in Files : rel[g].step \in {"filp", "active"} => rel[g].at \in 1..Len(queue) /\ rel[g].at # i
  <2> SUFFICES ASSUME NEW g \in Files, rel[g].step \in {"filp", "active"}
               PROVE  rel[g].at \in 1..Len(queue) /\ rel[g].at # i
    OBVIOUS
  <2>1. rel[g].at \in 1..Len(queue) /\ g # f
    BY DEF WalkInv, NotReleasing
  <2>2. queue[rel[g].at].filp \in {g, NoFile}
    BY DEF HoldInv
  <2> QED
    BY <1>1, <2>1, <2>2
<1>9. ASSUME NEW g \in Files, ReleaseFilp(g) \/ ReleaseActive(g) PROVE OwnerKept(i, f)
  <2>1. rel[g].at \in 1..Len(queue) /\ rel[g].at # i
    BY <1>8, <1>9 DEF ReleaseFilp, ReleaseActive
  <2>2. \/ queue' = [queue EXCEPT ![rel[g].at].filp = NoFile]
        \/ queue' = [queue EXCEPT ![rel[g].at].active = 0]
    BY <1>9 DEF ReleaseFilp, ReleaseActive
  <2>3. queue'[i] = queue[i]
    BY <1>1, <2>1, <2>2, FilpCleared, ActiveCleared
  <2> QED
    BY <2>3 DEF OwnerKept
<1>10. ASSUME NEW g \in Files, StopCap(g) PROVE OwnerKept(i, f)
  <2>1. g \in open /\ priv[g] \in 1..Len(queue) /\ timer_initialized' = 0
    BY <1>1, <1>10 DEF StopCap, ContextInv, NoDanglingContext
  <2>2. queue' = [queue EXCEPT ![priv[g]].dsplog_state = 0,
                               ![priv[g]].active = 0, ![priv[g]].filp = NoFile]
    BY <1>10 DEF StopCap
  <2>3. CASE priv[g] = i
    <3>1. g = f
      BY <1>1, <2>1, <2>3 DEF HoldInv, Holds
    <3>2. queue[i] \in Instance /\ DOMAIN queue = 1..Len(queue)
      BY <1>1, ElementOfSeq, LenProperties
    <3>3. queue'[i].dsplog_state = 0
      BY <1>1, <2>2, <2>3, <3>2 DEF Instance
    <3> QED
      BY <2>1, <2>3, <3>1, <3>3 DEF OwnerKept
  <2>4. CASE priv[g] # i
    <3>1. DOMAIN queue = 1..Len(queue)
      BY <1>1, LenProperties
    <3>2. queue'[i] = queue[i]
      BY <1>1, <2>1, <2>2, <2>4, <3>1
    <3> QED
      BY <3>2 DEF OwnerKept
  <2> QED
    BY <2>3, <2>4
<1> QED
  BY <1>2, <1>3, <1>4, <1>6, <1>7, <1>9, <1>10 DEF RegistryNext, Start, ReleaseStep

\* A file keeps its core until it stops or releases it, for any number of
\* files that open, register, stop and release around it, as long as no
\* context left over from before a STOP points to an instance of another.
THEOREM CoreKeptByOwner == RegistrySpec => OwnershipKept
<1>1. RegistryInv /\ [RegistryNext]_registryVars =>
        [\A i \in 1..Len(queue) : \A f \in open :
           shared = FALSE /\ queue[i].active = 1 /\ queue[i].filp = f
             => \/ queue'[i].active = 1 /\ queue'[i].filp = f
                \/ priv[f] = i /\ timer_initialized' = 0 /\ queue'[i].dsplog_state = 0]_registryVars
  BY OwnershipStep DEF OwnerKept
<1> QED
  BY <1>1, RegistryInvariant, PTL DEF RegistrySpec, OwnershipKept
=============================================================================
