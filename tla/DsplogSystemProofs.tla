------------------------- MODULE DsplogSystemProofs -------------------------
(***************************************************************************)
(* One core's ring among the files that use it: the composition is a       *)
(* capture and a registry, the ring is consumed by who may, and an owner   *)
(* that begins with START gets its own records, for every number of files  *)
(* and cores and every size of the ring.                                   *)
(***************************************************************************)
EXTENDS DsplogSystem, DsplogCaptureProofs, SequenceTheorems, FiniteSetTheorems

----------------------------------------------------------------------------
(* The two parts.                                                          *)

LEMMA CapturePart == [SystemNext]_systemVars => [Next]_vars
<1>1. UseRing => Next
  BY DEF UseRing, Next, Read, Start
<1>2. ASSUME NEW t \in Threads, Consume(t) \/ StartOwn(t) \/ StopOwn(t)
      PROVE  Next
  BY <1>2 DEF Consume, StartOwn, StopOwn, Next, Read, Start
<1>3. ASSUME NEW t \in Threads, NEW c \in Cores, SetCore(t, c) \/ StopOther(t) \/ StartOther(t)
      PROVE  [Next]_vars
  BY <1>3 DEF SetCore, StopOther, StartOther, Next
<1>4. ASSUME NEW t \in Threads, Open(t) \/ Close(t) \/ ReleaseStep(t)
      PROVE  UNCHANGED vars
  BY <1>4 DEF Open, Close, ReleaseStep
<1>5. UNCHANGED systemVars => UNCHANGED vars
  BY DEF systemVars
<1> QED
  BY <1>1, <1>2, <1>3, <1>4, <1>5, SystemAssumption DEF SystemNext

\* A step of the ring leaves files and timer alone.
LEMMA RingPart ==
  ASSUME UseRing \/ \E t \in Threads : Consume(t)
  PROVE  UNCHANGED fileVars /\ timer_initialized' = timer_initialized
<1>1. UNCHANGED fileVars
  BY DEF UseRing, Consume
<1>2. Timer => timer_initialized' = timer_initialized
  BY DEF Timer, TimerRecord, TimerStore, TimerWrap, TimerTestFull, TimerMarkFull, TimerNotify,
     TimerDec, TimerComplete, modeVars
<1>3. ASSUME NEW t \in Threads,
             \/ ReadStopped(t) \/ ReadStarted(t) \/ StartEnter(t)
             \/ ReadWake(t) \/ ReadSignalled(t) \/ ReadRelock(t) \/ ReadSnapshot(t)
             \/ ReadCopy(t) \/ ReadFault(t) \/ ReadClear(t)
             \/ StartSnapshot(t) \/ StartClear(t) \/ ReadMove(t) \/ StartMove(t)
      PROVE  timer_initialized' = timer_initialized
  BY <1>3 DEF ReadStopped, ReadStarted, StartEnter, ReadWake, ReadSignalled, ReadRelock,
     ReadSnapshot, ReadCopy, ReadFault, ReadClear, StartSnapshot, StartClear, ReadMove, StartMove,
     modeVars
<1> QED
  BY <1>1, <1>2, <1>3 DEF UseRing, Consume

LEMMA RegistryPart == [SystemNext]_systemVars => [Registry!RegistryNext]_(Registry!registryVars)
<1>1. ASSUME UseRing \/ \E t \in Threads : Consume(t)
      PROVE  UNCHANGED Registry!registryVars
  BY <1>1, RingPart DEF fileVars, Registry!registryVars
<1>2. ASSUME NEW t \in Threads, NEW c \in Cores,
             \/ StartOwn(t) \/ StopOwn(t) \/ SetCore(t, c) \/ StopOther(t) \/ StartOther(t)
             \/ Open(t) \/ Close(t) \/ ReleaseStep(t)
      PROVE  Registry!RegistryNext
  BY <1>2 DEF StartOwn, StopOwn, SetCore, StopOther, StartOther, Open, Close, ReleaseStep,
     Registry!RegistryNext, Registry!Start, Registry!StartCap
<1>3. UNCHANGED systemVars => UNCHANGED Registry!registryVars
  BY DEF systemVars, vars, modeVars, fileVars, Registry!registryVars
<1> QED
  BY <1>1, <1>2, <1>3, SystemAssumption DEF SystemNext

\* One core's ring and wake-ups are those of DsplogCapture, whatever the
\* files do.
THEOREM SystemIsCapture == SystemSpec => Spec
<1>1. SystemInit => Init
  BY DEF SystemInit
<1> QED
  BY <1>1, CapturePart, PTL DEF SystemSpec, Spec

\* Files, contexts and instances are those of DsplogRegistry, whatever the
\* ring does.
THEOREM SystemIsRegistry == SystemSpec => Registry!RegistrySpec
<1>1. SystemInit => Registry!RegistryInit
  BY DEF SystemInit
<1> QED
  BY <1>1, RegistryPart, PTL DEF SystemSpec, Registry!RegistrySpec

----------------------------------------------------------------------------
(* The files.                                                              *)

FileInv ==
  /\ queue \in Seq(Registry!Instance)
  /\ open \subseteq Threads
  /\ priv \in [Threads -> Nat]
  /\ \A t \in open : priv[t] <= Len(queue)
  /\ rel \in [Threads -> [at : Nat \ {0}, step : {"none", "test", "filp", "active"}]
                         \union {Registry!NotReleasing}]
  /\ \A t \in open : rel[t] = Registry!NotReleasing
  /\ \A t \in Threads : rel[t].step \in {"filp", "active"} => rel[t].at \in 1..Len(queue)

\* Instances stay where they are and keep their core.
QueueGrows ==
  /\ Len(queue) <= Len(queue')
  /\ \A i \in 1..Len(queue) : queue'[i].dsp_id = queue[i].dsp_id

\* An instance changes owner, or is started or stopped.
LEMMA InstanceChanged ==
  ASSUME FileInv, NEW i \in 1..Len(queue), NEW e \in Registry!Instance,
         e.dsp_id = queue[i].dsp_id, queue' = [queue EXCEPT ![i] = e]
  PROVE  /\ queue' \in Seq(Registry!Instance) /\ Len(queue') = Len(queue) /\ QueueGrows
         /\ \A k \in 1..Len(queue) : queue'[k] = IF k = i THEN e ELSE queue[k]
<1>1. queue \in Seq(Registry!Instance) /\ Len(queue) \in Nat
  BY LenProperties DEF FileInv
<1>2. /\ queue' \in Seq(Registry!Instance) /\ Len(queue') = Len(queue)
      /\ \A k \in 1..Len(queue) : queue'[k] = IF k = i THEN e ELSE queue[k]
  BY <1>1, ExceptSeq
<1> QED
  BY <1>1, <1>2 DEF QueueGrows

\* START sets dsplog_state, and nothing else of the files.
LEMMA StartEffect ==
  ASSUME FileInv, NEW t \in Threads, Registry!StartCap(t)
  PROVE  /\ t \in open /\ UNCHANGED <<open, priv, rel, shared>>
         /\ queue' \in Seq(Registry!Instance) /\ Len(queue') = Len(queue) /\ QueueGrows
         /\ \A k \in 1..Len(queue) :
              queue'[k].active = queue[k].active /\ queue'[k].filp = queue[k].filp
<1> DEFINE i == priv[t]
           e == [queue[i] EXCEPT !.dsplog_state = 1]
<1>1. t \in open /\ i \in 1..Len(queue) /\ UNCHANGED <<open, priv, rel, shared>>
  BY LenProperties DEF FileInv, Registry!StartCap
<1>2. queue[i] \in Registry!Instance
  BY <1>1, ElementOfSeq DEF FileInv
<1>3. e \in Registry!Instance /\ e.dsp_id = queue[i].dsp_id
      /\ e.active = queue[i].active /\ e.filp = queue[i].filp
  BY <1>2 DEF Registry!Instance
<1>4. queue' = [queue EXCEPT ![i] = e]
  BY DEF Registry!StartCap
<1> HIDE DEF e, i
<1>5. /\ queue' \in Seq(Registry!Instance) /\ Len(queue') = Len(queue) /\ QueueGrows
      /\ \A k \in 1..Len(queue) : queue'[k] = IF k = i THEN e ELSE queue[k]
  BY <1>1, <1>3, <1>4, InstanceChanged
<1> QED
  BY <1>1, <1>3, <1>5

\* STOP takes the instance of the file's context from whoever has it.
LEMMA StopEffect ==
  ASSUME FileInv, NEW t \in Threads, Registry!StopCap(t)
  PROVE  /\ t \in open /\ priv[t] \in 1..Len(queue) /\ UNCHANGED <<open, priv, rel, shared>>
         /\ queue' \in Seq(Registry!Instance) /\ Len(queue') = Len(queue) /\ QueueGrows
         /\ \A k \in 1..Len(queue) : k # priv[t] => queue'[k] = queue[k]
         /\ queue'[priv[t]].active = 0
<1> DEFINE i == priv[t]
           e == [queue[i] EXCEPT !.dsplog_state = 0, !.active = 0, !.filp = NoFile]
<1>1. t \in open /\ i \in 1..Len(queue) /\ UNCHANGED <<open, priv, rel, shared>>
  BY LenProperties DEF FileInv, Registry!StopCap
<1>2. queue[i] \in Registry!Instance
  BY <1>1, ElementOfSeq DEF FileInv
<1>3. e \in Registry!Instance /\ e.dsp_id = queue[i].dsp_id /\ e.active = 0
  BY <1>2 DEF Registry!Instance
<1>4. queue' = [queue EXCEPT ![i] = e]
  BY DEF Registry!StopCap
<1> HIDE DEF e
<1>5. /\ queue' \in Seq(Registry!Instance) /\ Len(queue') = Len(queue) /\ QueueGrows
      /\ \A k \in 1..Len(queue) : queue'[k] = IF k = i THEN e ELSE queue[k]
  BY <1>1, <1>3, <1>4, InstanceChanged
<1> QED
  BY <1>1, <1>3, <1>5

\* SET_DSP_CORE points the file to nothing, or to an instance of the core
\* that nobody had.
LEMMA SetEffect ==
  ASSUME FileInv, NEW t \in Threads, NEW c \in Cores, Registry!SetDspCore(t, c)
  PROVE  /\ t \in open /\ UNCHANGED <<open, rel>>
         /\ queue' \in Seq(Registry!Instance) /\ QueueGrows
         /\ \/ UNCHANGED <<queue, priv>>
            \/ \E i \in 1..Len(queue') :
                 /\ priv' = [priv EXCEPT ![t] = i]
                 /\ queue'[i].dsp_id = c /\ queue'[i].active = 1 /\ queue'[i].filp = t
                 /\ \A k \in 1..Len(queue) : k # i => queue'[k] = queue[k]
                 /\ i \in 1..Len(queue) => queue[i].active = 0
                 /\ c = Own => Owners = {}
<1>1. t \in open /\ UNCHANGED <<open, rel>>
  BY DEF Registry!SetDspCore
<1>2. PICK r \in Registry!Register(t, c) : queue' = r[1] /\ Registry!PointTo(t, r[2])
  BY DEF Registry!SetDspCore
<1>3. queue \in Seq(Registry!Instance) /\ Len(queue) \in Nat
  BY LenProperties DEF FileInv
<1>4. CASE r = <<queue, 0>>
  <2>1. UNCHANGED <<queue, priv>>
    BY <1>2, <1>4 DEF Registry!PointTo
  <2> QED
    BY <1>1, <1>3, <2>1 DEF QueueGrows
<1>5. CASE /\ Registry!PlacesOf(c) = {}
           /\ r = <<Append(queue, Registry!NewInstance(t, c)), Len(queue) + 1>>
  <2> DEFINE e == Registry!NewInstance(t, c)
             i == Len(queue) + 1
  <2>1. e \in Registry!Instance /\ e.dsp_id = c /\ e.active = 1 /\ e.filp = t
    BY DEF Registry!NewInstance, Registry!Instance
  <2>2. queue' = Append(queue, e)
    BY <1>2, <1>5
  <2>3. priv' = [priv EXCEPT ![t] = i]
    BY <1>2, <1>3, <1>5 DEF Registry!PointTo
  <2>4. c = Own => Owners = {}
    BY <1>5 DEF Owners
  <2> HIDE DEF e
  <2>5. /\ queue' \in Seq(Registry!Instance) /\ Len(queue') = i
        /\ \A k \in 1..Len(queue) : queue'[k] = queue[k]
        /\ queue'[i] = e
    BY <1>3, <2>1, <2>2, AppendProperties
  <2>6. QueueGrows /\ i \in 1..Len(queue')
    BY <1>3, <2>5 DEF QueueGrows
  <2>7. i \notin 1..Len(queue)
    BY <1>3
  <2> HIDE DEF i
  <2> QED
    BY <1>1, <2>1, <2>3, <2>4, <2>5, <2>6, <2>7
<1>6. CASE /\ ~ Registry!Occupied(c)
           /\ \E i \in Registry!PlacesOf(c) :
                r = <<[queue EXCEPT ![i].active = 1, ![i].filp = t], i>>
  <2>1. PICK i \in Registry!PlacesOf(c) : r = <<[queue EXCEPT ![i].active = 1, ![i].filp = t], i>>
    BY <1>6
  <2> DEFINE e == [queue[i] EXCEPT !.active = 1, !.filp = t]
  <2>2. i \in 1..Len(queue) /\ queue[i].dsp_id = c /\ queue[i].active # 1
    BY <1>6 DEF Registry!PlacesOf, Registry!Occupied
  <2>3. queue[i] \in Registry!Instance
    BY <1>3, <2>2, ElementOfSeq
  <2>4. e \in Registry!Instance /\ e.dsp_id = c /\ e.active = 1 /\ e.filp = t
        /\ queue[i].active = 0
    BY <2>2, <2>3 DEF Registry!Instance
  <2>5. queue' = [queue EXCEPT ![i] = e]
    BY <1>2, <2>1
  <2>6. priv' = [priv EXCEPT ![t] = i]
    BY <1>2, <1>3, <2>1, <2>2 DEF Registry!PointTo
  <2>7. c = Own => Owners = {}
    BY <1>6 DEF Owners, Registry!Occupied
  <2> HIDE DEF e
  <2>8. /\ queue' \in Seq(Registry!Instance) /\ Len(queue') = Len(queue) /\ QueueGrows
        /\ \A k \in 1..Len(queue) : queue'[k] = IF k = i THEN e ELSE queue[k]
    BY <2>2, <2>4, <2>5, InstanceChanged
  <2> QED
    BY <1>1, <2>2, <2>4, <2>6, <2>7, <2>8
<1> QED
  BY <1>4, <1>5, <1>6 DEF Registry!Register

\* A step of release() changes nothing, or an instance of the queue.
LEMMA ReleaseEffect ==
  ASSUME FileInv, NEW t \in Threads, Registry!ReleaseStep(t)
  PROVE  /\ t \notin open /\ open' = open
         /\ queue' \in Seq(Registry!Instance) /\ Len(queue') = Len(queue) /\ QueueGrows
         /\ priv' \in [Threads -> Nat] /\ \A u \in open : priv'[u] = priv[u] /\ rel'[u] = rel[u]
         /\ rel' \in [Threads -> [at : Nat \ {0}, step : {"none", "test", "filp", "active"}]
                                 \union {Registry!NotReleasing}]
         /\ \A u \in Threads : rel'[u].step \in {"filp", "active"} => rel'[u].at \in 1..Len(queue)
<1> DEFINE Walk == [at : Nat \ {0}, step : {"none", "test", "filp", "active"}]
<1>1. queue \in Seq(Registry!Instance) /\ Len(queue) \in Nat
  BY LenProperties DEF FileInv
<1>2. /\ t \notin open /\ rel[t] \in Walk
      /\ \A u \in Threads : rel[u] \in Walk \union {Registry!NotReleasing}
  <2>1. rel[t].step # "none"
    BY DEF Registry!ReleaseStep, Registry!ReleaseTest, Registry!ReleaseFilp,
       Registry!ReleaseActive, Registry!ReleaseDone
  <2>2. Registry!NotReleasing.step = "none"
    BY DEF Registry!NotReleasing
  <2> QED
    BY <2>1, <2>2 DEF FileInv
<1> HIDE DEF Walk
<1>3. CASE Registry!ReleaseTest(t)
  <2>1. /\ UNCHANGED <<queue, open, priv>> /\ rel[t].at \in 1..Len(queue)
        /\ rel' = [rel EXCEPT ![t].step = "filp"] \/ rel' = [rel EXCEPT ![t].at = rel[t].at + 1]
    BY <1>1, <1>2, <1>3 DEF Registry!ReleaseTest, Walk
  <2>2. /\ [rel[t] EXCEPT !.step = "filp"] \in Walk
        /\ [rel[t] EXCEPT !.step = "filp"].at = rel[t].at
        /\ [rel[t] EXCEPT !.at = rel[t].at + 1] \in Walk
        /\ [rel[t] EXCEPT !.at = rel[t].at + 1].step = "test"
    BY <1>2, <1>3 DEF Walk, Registry!ReleaseTest
  <2>3. PICK e \in Walk : rel' = [rel EXCEPT ![t] = e] /\ (e.step = "test" \/ e.at = rel[t].at)
    BY <2>1, <2>2
  <2> QED
    BY <1>1, <1>2, <2>1, <2>3 DEF FileInv, QueueGrows, Walk
<1>4. CASE Registry!ReleaseFilp(t) \/ Registry!ReleaseActive(t)
  <2> DEFINE i == rel[t].at
             cleared == [queue[i] EXCEPT !.filp = NoFile]
             given == [queue[i] EXCEPT !.active = 0]
  <2>1. i \in 1..Len(queue) /\ UNCHANGED <<open, priv>>
    BY <1>4 DEF FileInv, Registry!ReleaseFilp, Registry!ReleaseActive
  <2>2. queue[i] \in Registry!Instance
    BY <1>1, <2>1, ElementOfSeq
  <2>3. /\ cleared \in Registry!Instance /\ cleared.dsp_id = queue[i].dsp_id
        /\ given \in Registry!Instance /\ given.dsp_id = queue[i].dsp_id
    BY <2>2 DEF Registry!Instance
  <2>4. queue' = [queue EXCEPT ![i] = cleared] \/ queue' = [queue EXCEPT ![i] = given]
    BY <1>4 DEF Registry!ReleaseFilp, Registry!ReleaseActive
  <2> HIDE DEF cleared, given
  <2>5. queue' \in Seq(Registry!Instance) /\ Len(queue') = Len(queue) /\ QueueGrows
    BY <2>1, <2>3, <2>4, InstanceChanged
  <2>6. /\ [rel[t] EXCEPT !.step = "active"] \in Walk
        /\ [rel[t] EXCEPT !.step = "active"].at = i
        /\ [at |-> i + 1, step |-> "test"] \in Walk
    BY <1>2, <1>1, <2>1 DEF Walk
  <2>7. PICK e \in Walk : rel' = [rel EXCEPT ![t] = e] /\ (e.step = "test" \/ e.at = i)
    BY <1>4, <2>6 DEF Registry!ReleaseFilp, Registry!ReleaseActive
  <2> HIDE DEF i
  <2> QED
    BY <1>1, <1>2, <2>1, <2>5, <2>7 DEF FileInv, Walk
<1>5. CASE Registry!ReleaseDone(t)
  <2>1. /\ UNCHANGED <<queue, open>> /\ priv' = [priv EXCEPT ![t] = 0]
        /\ rel' = [rel EXCEPT ![t] = Registry!NotReleasing]
    BY <1>5 DEF Registry!ReleaseDone
  <2>2. Registry!NotReleasing.step = "none"
    BY DEF Registry!NotReleasing
  <2> QED
    BY <1>1, <1>2, <2>1, <2>2 DEF FileInv, QueueGrows
<1> QED
  BY <1>3, <1>4, <1>5 DEF Registry!ReleaseStep

LEMMA FileInit == SystemInit => FileInv
<1> SUFFICES ASSUME SystemInit PROVE FileInv
  OBVIOUS
<1>1. /\ queue = <<>> /\ open = {} /\ priv = [t \in Threads |-> 0]
      /\ rel = [t \in Threads |-> Registry!NotReleasing]
  BY DEF SystemInit, Registry!RegistryInit
<1>2. Registry!NotReleasing.step = "none"
  BY DEF Registry!NotReleasing
<1>3. queue \in Seq(Registry!Instance)
  BY <1>1, EmptySeq
<1> QED
  BY <1>1, <1>2, <1>3 DEF FileInv

LEMMA FileStep == FileInv /\ [SystemNext]_systemVars => FileInv' /\ QueueGrows
<1> SUFFICES ASSUME FileInv, [SystemNext]_systemVars PROVE FileInv' /\ QueueGrows
  OBVIOUS
<1>1. queue \in Seq(Registry!Instance) /\ Len(queue) \in Nat
  BY LenProperties DEF FileInv
<1>2. CASE UNCHANGED fileVars
  BY <1>1, <1>2 DEF fileVars, FileInv, QueueGrows
<1>3. ASSUME NEW t \in Threads, StartOwn(t) \/ StartOther(t)
      PROVE  FileInv' /\ QueueGrows
  BY <1>1, <1>3, StartEffect DEF StartOwn, StartOther, FileInv
<1>4. ASSUME NEW t \in Threads, StopOwn(t) \/ StopOther(t)
      PROVE  FileInv' /\ QueueGrows
  BY <1>1, <1>4, StopEffect DEF StopOwn, StopOther, FileInv
<1>5. ASSUME NEW t \in Threads, NEW c \in Cores, SetCore(t, c)
      PROVE  FileInv' /\ QueueGrows
  <2>1. /\ t \in open /\ UNCHANGED <<open, rel>>
        /\ queue' \in Seq(Registry!Instance) /\ QueueGrows
        /\ UNCHANGED <<queue, priv>> \/ \E i \in 1..Len(queue') : priv' = [priv EXCEPT ![t] = i]
    BY <1>5, SetEffect DEF SetCore
  <2>2. Len(queue') \in Nat
    BY <2>1, LenProperties
  <2>3. priv' \in [Threads -> Nat] /\ \A u \in open : priv'[u] <= Len(queue')
    <3>1. priv \in [Threads -> Nat] /\ open \subseteq Threads
          /\ \A u \in open : priv[u] <= Len(queue')
      BY <1>1, <2>1, <2>2 DEF FileInv, QueueGrows
    <3>2. ASSUME NEW i \in 1..Len(queue'), priv' = [priv EXCEPT ![t] = i]
          PROVE  priv' \in [Threads -> Nat] /\ \A u \in open : priv'[u] <= Len(queue')
      BY <2>2, <3>1, <3>2
    <3> QED
      BY <2>1, <3>1, <3>2
  <2>4. \A u \in Threads : rel[u].step \in {"filp", "active"} => rel[u].at \in 1..Len(queue')
    BY <1>1, <2>1, <2>2 DEF FileInv, QueueGrows
  <2> QED
    BY <2>1, <2>3, <2>4 DEF FileInv
<1>6. ASSUME NEW t \in Threads, Open(t)
      PROVE  FileInv' /\ QueueGrows
  BY <1>1, <1>6 DEF Open, Registry!OpenFile, FileInv, QueueGrows
<1>7. ASSUME NEW t \in Threads, Close(t)
      PROVE  FileInv' /\ QueueGrows
  <2>1. [at |-> 1, step |-> "test"] \in [at : Nat \ {0}, step : {"none", "test", "filp", "active"}]
    OBVIOUS
  <2>2. /\ UNCHANGED <<queue, priv>> /\ open' = open \ {t}
        /\ rel' = [rel EXCEPT ![t] = [at |-> 1, step |-> "test"]]
    BY <1>7 DEF Close, Registry!ReleaseFile
  <2> QED
    BY <1>1, <2>1, <2>2 DEF FileInv, QueueGrows
<1>8. ASSUME NEW t \in Threads, ReleaseStep(t)
      PROVE  FileInv' /\ QueueGrows
  BY <1>1, <1>8, ReleaseEffect DEF ReleaseStep, FileInv
<1>9. UseRing \/ (\E t \in Threads : Consume(t)) \/ UNCHANGED systemVars => UNCHANGED fileVars
  BY DEF UseRing, Consume, systemVars, fileVars
<1> QED
  BY <1>2, <1>3, <1>4, <1>5, <1>6, <1>7, <1>8, <1>9 DEF SystemNext

----------------------------------------------------------------------------
(* The one timer.                                                          *)

OneEach == \A i, j \in 1..Len(queue) : queue[i].dsp_id = queue[j].dsp_id => i = j

\* An instance for each core at most, and a timer that has all of them and
\* is not taken away under its callback.
ServeInv ==
  /\ OneEach
  /\ timer_initialized = 1 => Len(queue) = Registry!UCODE_CORE_NUM
  /\ tpc # "idle" => timer_initialized = 1

\* The contexts and walks of release() are among the instances.
PlaceInv ==
  /\ \A t \in Threads : priv[t] <= Len(queue)
  /\ \A t \in Threads : rel[t].at <= Len(queue) + 1

\* With one instance for each core at most, the queue is no longer than
\* there are cores, and one as long has an instance of every core.
LEMMA QueueBound ==
  ASSUME FileInv, OneEach
  PROVE  /\ Len(queue) \in Nat /\ Registry!UCODE_CORE_NUM \in Nat
         /\ Len(queue) <= Registry!UCODE_CORE_NUM
         /\ Len(queue) = Registry!UCODE_CORE_NUM => \A c \in Cores : Registry!PlacesOf(c) # {}
<1> DEFINE core == [i \in 1..Len(queue) |-> queue[i].dsp_id]
<1>1. Len(queue) \in Nat /\ \A i \in 1..Len(queue) : queue[i] \in Registry!Instance
  BY ElementOfSeq, LenProperties DEF FileInv
<1>2. core \in Injection(1..Len(queue), Cores)
  BY <1>1 DEF Registry!Instance, Injection, IsInjective, OneEach
<1>3. Cardinality(1..Len(queue)) = Len(queue)
  <2>1. 1 \in Int /\ Len(queue) \in Int
    BY <1>1
  <2>2. Cardinality(1..Len(queue)) = IF 1 > Len(queue) THEN 0 ELSE Len(queue) - 1 + 1
    BY <2>1, FS_Interval
  <2> QED
    BY <1>1, <2>2
<1>4. IsFiniteSet(Cores) /\ Registry!UCODE_CORE_NUM = Cardinality(Cores)
  <2>1. Registry!UCODE_CORE_NUM = Cardinality(Cores)
    BY DEF Registry!UCODE_CORE_NUM, Registry!Cardinality, Cardinality
  <2> QED
    BY <2>1, SystemAssumption
<1>5. /\ Len(queue) <= Registry!UCODE_CORE_NUM
      /\ Len(queue) = Registry!UCODE_CORE_NUM => core \in Surjection(1..Len(queue), Cores)
  BY <1>2, <1>3, <1>4, FS_Injection
<1>6. Registry!UCODE_CORE_NUM \in Nat
  BY <1>4, FS_CardinalityType
<1>7. core \in Surjection(1..Len(queue), Cores)
        => \A c \in Cores : \E i \in 1..Len(queue) : queue[i].dsp_id = c
  BY DEF Surjection
<1> QED
  BY <1>1, <1>5, <1>6, <1>7 DEF Registry!PlacesOf

\* SET_DSP_CORE makes an instance only for a core that has none.
LEMMA SetKeepsOneEach ==
  ASSUME FileInv, OneEach, NEW t \in Threads, NEW c \in Cores, Registry!SetDspCore(t, c)
  PROVE  OneEach'
<1>1. queue \in Seq(Registry!Instance) /\ Len(queue) \in Nat
  BY LenProperties DEF FileInv
<1>2. PICK r \in Registry!Register(t, c) : queue' = r[1]
  BY DEF Registry!SetDspCore
<1>3. QueueGrows
  BY SetEffect
<1>4. CASE Registry!PlacesOf(c) = {} /\ queue' = Append(queue, Registry!NewInstance(t, c))
  <2>1. Registry!NewInstance(t, c) \in Registry!Instance /\ Registry!NewInstance(t, c).dsp_id = c
    BY DEF Registry!NewInstance, Registry!Instance
  <2>2. /\ Len(queue') = Len(queue) + 1 /\ queue'[Len(queue) + 1].dsp_id = c
        /\ \A k \in 1..Len(queue) : queue'[k] = queue[k]
    BY <1>1, <1>4, <2>1, AppendProperties
  <2>3. \A k \in 1..Len(queue) : queue[k].dsp_id # c
    BY <1>4 DEF Registry!PlacesOf
  <2> QED
    BY <1>1, <2>2, <2>3 DEF OneEach
<1>5. CASE Len(queue') = Len(queue)
  BY <1>1, <1>3, <1>5 DEF OneEach, QueueGrows
<1>6. ASSUME NEW i \in Registry!PlacesOf(c), queue' = [queue EXCEPT ![i].active = 1, ![i].filp = t]
      PROVE  Len(queue') = Len(queue)
  <2> DEFINE e == [queue[i] EXCEPT !.active = 1, !.filp = t]
  <2>1. i \in 1..Len(queue) /\ queue[i] \in Registry!Instance
    BY <1>1, ElementOfSeq DEF Registry!PlacesOf
  <2>2. e \in Registry!Instance
    BY <2>1 DEF Registry!Instance
  <2>3. queue' = [queue EXCEPT ![i] = e]
    BY <1>6
  <2> HIDE DEF e
  <2> QED
    BY <1>1, <2>1, <2>2, <2>3, ExceptSeq
<1>7. \/ queue' = queue
      \/ Registry!PlacesOf(c) = {} /\ queue' = Append(queue, Registry!NewInstance(t, c))
      \/ \E i \in Registry!PlacesOf(c) : queue' = [queue EXCEPT ![i].active = 1, ![i].filp = t]
  <2>1. CASE r = <<queue, 0>>
    BY <1>2, <2>1
  <2>2. CASE /\ Registry!PlacesOf(c) = {}
             /\ r = <<Append(queue, Registry!NewInstance(t, c)), Len(queue) + 1>>
    BY <1>2, <2>2
  <2>3. CASE \E i \in Registry!PlacesOf(c) : r = <<[queue EXCEPT ![i].active = 1, ![i].filp = t], i>>
    <3>1. PICK i \in Registry!PlacesOf(c) : r = <<[queue EXCEPT ![i].active = 1, ![i].filp = t], i>>
      BY <2>3
    <3>2. queue' = [queue EXCEPT ![i].active = 1, ![i].filp = t]
      BY <1>2, <3>1
    <3> QED
      BY <3>2
  <2> QED
    BY <2>1, <2>2, <2>3 DEF Registry!Register
<1> QED
  BY <1>4, <1>5, <1>6, <1>7

\* START turns the timer on with all instances there; everything that
\* turns it off has waited for the callback.
LEMMA ServeStep == FileInv /\ ServeInv /\ [SystemNext]_systemVars => ServeInv'
<1> SUFFICES ASSUME FileInv, ServeInv, [SystemNext]_systemVars PROVE ServeInv'
  OBVIOUS
<1>1. Len(queue) \in Nat /\ OneEach
  BY QueueBound DEF ServeInv
<1>2. QueueGrows
  BY FileStep
<1>3. Len(queue') = Len(queue) => OneEach'
  BY <1>1, <1>2 DEF OneEach, QueueGrows
<1>4. CASE UseRing \/ \E t \in Threads : Consume(t)
  <2>1. UNCHANGED fileVars /\ timer_initialized' = timer_initialized
    BY <1>4, RingPart
  <2>2. Timer => timer_initialized = 1 \/ tpc # "idle"
    BY DEF Timer, TimerRecord, TimerStore, TimerWrap, TimerTestFull, TimerMarkFull, TimerNotify,
       TimerDec, TimerComplete
  <2>3. ASSUME NEW t \in Threads,
               \/ ReadStopped(t) \/ ReadStarted(t) \/ StartEnter(t)
               \/ ReadWake(t) \/ ReadSignalled(t) \/ ReadRelock(t) \/ ReadSnapshot(t)
               \/ ReadCopy(t) \/ ReadFault(t) \/ ReadClear(t)
               \/ StartSnapshot(t) \/ StartClear(t) \/ ReadMove(t) \/ StartMove(t)
        PROVE  tpc' = tpc
    BY <2>3 DEF ReadStopped, ReadStarted, StartEnter, ReadWake, ReadSignalled, ReadRelock,
       ReadSnapshot, ReadCopy, ReadFault, ReadClear, StartSnapshot, StartClear, ReadMove, StartMove,
       ringVars
  <2>4. tpc' # "idle" => timer_initialized = 1
    BY <1>4, <2>2, <2>3 DEF UseRing, Consume, ServeInv
  <2>5. UNCHANGED queue
    BY <2>1 DEF fileVars
  <2> QED
    BY <1>3, <2>1, <2>4, <2>5 DEF ServeInv
<1>5. ASSUME NEW t \in Threads, StartOwn(t) \/ StartOther(t)
      PROVE  ServeInv'
  <2>1. Len(queue') = Len(queue) /\ Registry!StartCap(t)
    BY <1>5, StartEffect DEF StartOwn, StartOther
  <2>2. timer_initialized' = IF Len(queue) = Registry!UCODE_CORE_NUM THEN 1 ELSE timer_initialized
    BY <2>1 DEF Registry!StartCap
  <2>3. tpc' = tpc
    BY <1>5 DEF StartOwn, StartOther, StartArm, OtherCoreStarts, vars, ringVars
  <2> QED
    BY <1>3, <2>1, <2>2, <2>3 DEF ServeInv
<1>6. ASSUME NEW t \in Threads, StopOwn(t) \/ StopOther(t)
      PROVE  ServeInv'
  <2>1. Len(queue') = Len(queue)
    BY <1>6, StopEffect DEF StopOwn, StopOther
  <2>2. tpc' = "idle" /\ timer_initialized' = 0
    BY <1>6 DEF StopOwn, StopOther, Stop, OtherCoreStops, TimerQuiet, ringVars
  <2> QED
    BY <1>3, <2>1, <2>2 DEF ServeInv
<1>7. ASSUME NEW t \in Threads, NEW c \in Cores, SetCore(t, c)
      PROVE  ServeInv'
  <2>1. OneEach'
    BY <1>1, <1>7, SetKeepsOneEach DEF SetCore
  <2>2. tpc' = "idle" /\ timer_initialized' = 0
    BY <1>7 DEF SetCore, OtherCoreStops, TimerQuiet, ringVars
  <2> QED
    BY <2>1, <2>2 DEF ServeInv
<1>8. ASSUME NEW t \in Threads, Open(t) \/ Close(t) \/ ReleaseStep(t)
      PROVE  ServeInv'
  <2>1. Len(queue') = Len(queue)
    BY <1>8, ReleaseEffect DEF Open, Close, ReleaseStep, Registry!OpenFile, Registry!ReleaseFile
  <2>2. UNCHANGED <<tpc, timer_initialized>>
    BY <1>8 DEF Open, Close, ReleaseStep, vars, ringVars, modeVars
  <2> QED
    BY <1>3, <2>1, <2>2 DEF ServeInv
<1>9. CASE UNCHANGED systemVars
  BY <1>3, <1>9 DEF ServeInv, systemVars, vars, ringVars, modeVars, fileVars
<1> QED
  BY <1>4, <1>5, <1>6, <1>7, <1>8, <1>9 DEF SystemNext

LEMMA PlaceStep == FileInv /\ PlaceInv /\ [SystemNext]_systemVars => PlaceInv'
<1> SUFFICES ASSUME FileInv, PlaceInv, [SystemNext]_systemVars PROVE PlaceInv'
  OBVIOUS
<1>1. QueueGrows /\ FileInv'
  BY FileStep
<1>2. /\ Len(queue) \in Nat /\ Len(queue') \in Nat /\ Len(queue) <= Len(queue')
      /\ priv \in [Threads -> Nat]
      /\ \A t \in Threads : priv[t] <= Len(queue') /\ rel[t].at \in Nat /\ rel[t].at <= Len(queue') + 1
  <2>1. Len(queue) \in Nat /\ Len(queue') \in Nat /\ Len(queue) <= Len(queue')
    BY <1>1, LenProperties DEF FileInv, QueueGrows
  <2>2. \A t \in Threads : priv[t] \in Nat /\ rel[t].at \in Nat
    BY DEF FileInv, Registry!NotReleasing
  <2> QED
    BY <2>1, <2>2 DEF PlaceInv, FileInv
<1>3. CASE UNCHANGED <<priv, rel>>
  BY <1>2, <1>3 DEF PlaceInv
<1>4. ASSUME NEW t \in Threads, NEW c \in Cores, SetCore(t, c)
      PROVE  PlaceInv'
  <2>1. rel' = rel /\ (priv' = priv \/ \E i \in 1..Len(queue') : priv' = [priv EXCEPT ![t] = i])
    BY <1>4, SetEffect DEF SetCore
  <2> QED
    BY <1>2, <2>1 DEF PlaceInv
<1>5. ASSUME NEW t \in Threads, Open(t) \/ Close(t)
      PROVE  PlaceInv'
  <2>1. /\ priv' = priv \/ priv' = [priv EXCEPT ![t] = 0]
        /\ rel' = rel \/ rel' = [rel EXCEPT ![t] = [at |-> 1, step |-> "test"]]
    BY <1>5 DEF Open, Close, Registry!OpenFile, Registry!ReleaseFile
  <2>2. \A u \in Threads : priv'[u] \in {priv[u], 0} /\ rel'[u].at \in {rel[u].at, 1}
    BY <1>2, <2>1 DEF FileInv
  <2> QED
    BY <1>2, <2>2 DEF PlaceInv
<1>6. ASSUME NEW t \in Threads, ReleaseStep(t)
      PROVE  PlaceInv'
  <2>1. rel[t].step = "active" => rel[t].at \in 1..Len(queue)
    BY DEF FileInv
  <2>2. priv' = priv \/ priv' = [priv EXCEPT ![t] = 0]
    BY <1>6 DEF ReleaseStep, Registry!ReleaseStep, Registry!ReleaseTest,
       Registry!ReleaseFilp, Registry!ReleaseActive, Registry!ReleaseDone
  <2>3. \A u \in Threads : priv'[u] \in {priv[u], 0}
    BY <1>2, <2>2 DEF FileInv
  <2>4. ASSUME NEW e, e.at \in Nat, e.at <= Len(queue) + 1, rel' = [rel EXCEPT ![t] = e]
        PROVE  PlaceInv'
    <3>1. Len(queue') + 1 >= e.at
      BY <1>2, <2>4
    <3>2. \A u \in Threads : rel'[u] \in {rel[u], e}
      BY <2>4 DEF FileInv
    <3> QED
      BY <1>2, <2>3, <3>1, <3>2 DEF PlaceInv
  <2>5. /\ \A s : /\ [rel[t] EXCEPT !.step = s].at = rel[t].at
                  /\ [rel[t] EXCEPT !.at = s].at = s
        /\ rel[t].at \in Nat /\ rel[t].at <= Len(queue) + 1
    BY <1>2 DEF FileInv, PlaceInv, Registry!NotReleasing
  <2>6. CASE Registry!ReleaseTest(t)
    <3>1. /\ rel[t].at <= Len(queue)
          /\ \/ rel' = [rel EXCEPT ![t] = [rel[t] EXCEPT !.step = "filp"]]
             \/ rel' = [rel EXCEPT ![t] = [rel[t] EXCEPT !.at = rel[t].at + 1]]
      BY <2>6 DEF Registry!ReleaseTest
    <3>2. rel[t].at + 1 \in Nat /\ rel[t].at + 1 <= Len(queue) + 1
      BY <1>2, <2>5, <3>1
    <3> QED
      BY <2>4, <2>5, <3>1, <3>2
  <2>7. CASE Registry!ReleaseFilp(t)
    <3>1. rel' = [rel EXCEPT ![t] = [rel[t] EXCEPT !.step = "active"]]
      BY <2>7 DEF Registry!ReleaseFilp
    <3> QED
      BY <2>4, <2>5, <3>1
  <2>8. CASE Registry!ReleaseActive(t)
    <3>1. rel' = [rel EXCEPT ![t] = [at |-> rel[t].at + 1, step |-> "test"]]
      BY <2>8 DEF Registry!ReleaseActive
    <3>2. rel[t].at + 1 \in Nat /\ rel[t].at + 1 <= Len(queue) + 1
      BY <1>2, <2>1, <2>8 DEF Registry!ReleaseActive
    <3> QED
      BY <2>4, <3>1, <3>2
  <2>9. CASE Registry!ReleaseDone(t)
    <3>1. rel' = [rel EXCEPT ![t] = Registry!NotReleasing] /\ Registry!NotReleasing.at = 0
      BY <2>9 DEF Registry!ReleaseDone, Registry!NotReleasing
    <3>2. 0 \in Nat /\ 0 <= Len(queue) + 1
      BY <1>2
    <3> QED
      BY <2>4, <3>1, <3>2
  <2> QED
    BY <1>6, <2>6, <2>7, <2>8, <2>9 DEF ReleaseStep, Registry!ReleaseStep
<1>7. UseRing \/ (\E t \in Threads : Consume(t)) \/ UNCHANGED systemVars => UNCHANGED <<priv, rel>>
  BY DEF UseRing, Consume, systemVars, fileVars
<1>8. ASSUME NEW t \in Threads, StartOwn(t) \/ StopOwn(t) \/ StopOther(t) \/ StartOther(t)
      PROVE  UNCHANGED <<priv, rel>>
  BY <1>8 DEF StartOwn, StopOwn, StopOther, StartOther, Registry!StartCap, Registry!StopCap
<1> QED
  BY <1>3, <1>4, <1>5, <1>6, <1>7, <1>8 DEF SystemNext

----------------------------------------------------------------------------
(* Who may use the ring.                                                   *)

\* An open file whose context points to the instance owns it, or has lost
\* it; and only such a file is in a system call.
UserInv ==
  /\ \A t \in open : Points(t) => t \in Owners \union lost_core
  /\ \A t \in Threads : pc[t] # "idle" => t \in open /\ Points(t)

\* A context that stays keeps its core.
LEMMA PointsKept ==
  ASSUME FileInv, QueueGrows, NEW t \in open, priv'[t] = priv[t]
  PROVE  Points(t)' <=> Points(t)
<1>1. Len(queue) \in Nat
  BY LenProperties DEF FileInv
<1>2. priv[t] \in Nat /\ priv[t] <= Len(queue)
  BY DEF FileInv
<1>3. priv[t] # 0 => queue'[priv[t]].dsp_id = queue[priv[t]].dsp_id
  BY <1>1, <1>2 DEF QueueGrows
<1> QED
  BY <1>3 DEF Points

\* Owners whose instance is not touched stay owners.
LEMMA OwnersKept ==
  ASSUME FileInv, FileInv', QueueGrows,
         \A i \in 1..Len(queue) : queue[i].dsp_id = Own /\ queue[i].active = 1
           => queue'[i].active = 1 /\ queue'[i].filp = queue[i].filp
  PROVE  Owners \subseteq Owners'
<1> SUFFICES ASSUME NEW t \in Owners PROVE t \in Owners'
  OBVIOUS
<1>1. Len(queue) \in Nat /\ Len(queue') \in Nat
  BY LenProperties DEF FileInv
<1>2. t \in Threads
      /\ \E i \in 1..Len(queue) : queue[i].dsp_id = Own /\ queue[i].active = 1 /\ queue[i].filp = t
  BY DEF Owners, Registry!PlacesOf
<1>3. PICK i \in 1..Len(queue) :
        queue[i].dsp_id = Own /\ queue[i].active = 1 /\ queue[i].filp = t
  BY <1>2
<1>4. i \in 1..Len(queue') /\ queue'[i].dsp_id = Own
      /\ queue'[i].active = 1 /\ queue'[i].filp = t
  BY <1>1, <1>3 DEF QueueGrows
<1> QED
  BY <1>2, <1>4 DEF Owners, Registry!PlacesOf

\* A system call is begun, and a core kept during it, by who points to it.
LEMMA CallStep ==
  ASSUME TypeOK, FileInv, UserInv, [SystemNext]_systemVars, NEW u \in Threads, pc'[u] # "idle"
  PROVE  u \in open /\ Points(u) /\ u \in open' /\ Points(u)'
<1>1. QueueGrows
  BY FileStep
<1>2. CASE pc[u] # "idle"
  <2>1. u \in open /\ Points(u) /\ priv[u] # 0
    BY <1>2 DEF UserInv, Points
  <2>2. ASSUME NEW t \in Threads, NEW c \in Cores, SetCore(t, c)
        PROVE  u \in open' /\ priv'[u] = priv[u]
    <3>1. t # u /\ open' = open /\ priv \in [Threads -> Nat]
      BY <1>2, <2>2, SetEffect DEF SetCore, Free, FileInv
    <3>2. priv' = priv \/ \E i : priv' = [priv EXCEPT ![t] = i]
      BY <2>2, SetEffect DEF SetCore
    <3> QED
      BY <2>1, <3>1, <3>2
  <2>3. ASSUME NEW t \in Threads, Close(t) \/ Open(t) \/ ReleaseStep(t)
        PROVE  u \in open' /\ priv'[u] = priv[u]
    <3>1. rel[u] = Registry!NotReleasing /\ Registry!NotReleasing.step = "none"
          /\ priv \in [Threads -> Nat]
      BY <2>1 DEF FileInv, Registry!NotReleasing
    <3> QED
      BY <1>2, <2>1, <2>3, <3>1, ReleaseEffect
      DEF Open, Close, ReleaseStep, Registry!OpenFile, Registry!ReleaseFile
  <2>4. ASSUME NEW t \in Threads, StartOwn(t) \/ StartOther(t) \/ StopOwn(t) \/ StopOther(t)
        PROVE  u \in open' /\ priv'[u] = priv[u]
    BY <2>1, <2>4, StartEffect, StopEffect DEF StartOwn, StartOther, StopOwn, StopOther
  <2>5. ASSUME UseRing \/ (\E t \in Threads : Consume(t)) \/ UNCHANGED systemVars
        PROVE  u \in open' /\ priv'[u] = priv[u]
    BY <2>1, <2>5 DEF UseRing, Consume, systemVars, fileVars
  <2>6. u \in open' /\ priv'[u] = priv[u]
    BY <2>2, <2>3, <2>4, <2>5 DEF SystemNext
  <2> QED
    BY <1>1, <2>1, <2>6, PointsKept
<1>3. CASE pc[u] = "idle"
  <2>1. ASSUME NEW t \in Threads, NEW c \in Cores,
               \/ StartOwn(t) \/ StartOther(t) \/ StopOwn(t) \/ StopOther(t)
               \/ SetCore(t, c) \/ Open(t) \/ Close(t) \/ ReleaseStep(t)
        PROVE  pc'[u] = "idle"
    BY <1>3, <2>1 DEF TypeOK, StartOwn, StartOther, StopOwn, StopOther, SetCore, Open, Close,
       ReleaseStep, StartArm, GoTo, Stop, OtherCoreStops, OtherCoreStarts, vars, callVars
  <2>2. ASSUME NEW t \in Threads, Consume(t)
        PROVE  pc'[u] = "idle"
    BY <1>3, <2>2 DEF TypeOK, Consume, ReadMove, StartMove, GoTo
  <2>3. Timer \/ UNCHANGED systemVars => pc'[u] = "idle"
    BY <1>3 DEF Timer, TimerRecord, TimerStore, TimerWrap, TimerTestFull, TimerMarkFull,
       TimerNotify, TimerDec, TimerComplete, callVars, systemVars, vars
  <2>4. ASSUME NEW t \in Threads,
               \/ ReadWake(t) \/ ReadSignalled(t) \/ ReadRelock(t) \/ ReadSnapshot(t)
               \/ ReadCopy(t) \/ ReadFault(t) \/ ReadClear(t)
               \/ StartSnapshot(t) \/ StartClear(t)
        PROVE  pc'[u] = "idle"
    BY <1>3, <2>4 DEF TypeOK, ReadWake, ReadSignalled, ReadRelock, ReadSnapshot, ReadCopy,
       ReadFault, ReadClear, StartSnapshot, StartClear, GoTo
  <2>5. ASSUME NEW t \in Threads, t \in open /\ Points(t),
               ReadStopped(t) \/ ReadStarted(t) \/ StartEnter(t)
        PROVE  u = t
    BY <1>3, <2>5 DEF TypeOK, ReadStopped, ReadStarted, StartEnter, GoTo
  <2>6. UseRing /\ u \in open /\ Points(u)
    BY <2>1, <2>2, <2>3, <2>4, <2>5, SystemAssumption DEF SystemNext, UseRing
  <2> QED
    BY <1>1, <2>6, PointsKept DEF UseRing, fileVars
<1> QED
  BY <1>2, <1>3

\* Whoever points to the instance owns it or has lost it.
LEMMA ContextStep ==
  ASSUME FileInv, UserInv, [SystemNext]_systemVars, NEW u \in open', Points(u)'
  PROVE  u \in Owners' \union lost_core'
<1>1. FileInv' /\ QueueGrows
  BY FileStep
<1>2. Len(queue) \in Nat
  BY LenProperties DEF FileInv
<1>3. CASE UNCHANGED <<fileVars, lost_core>>
  <2>1. u \in open /\ Points(u) /\ Owners' = Owners
    BY <1>3 DEF fileVars, Points, Owners, Registry!PlacesOf
  <2> QED
    BY <1>3, <2>1 DEF UserInv
<1>4. ASSUME NEW t \in Threads, StartOwn(t) \/ StartOther(t)
      PROVE  u \in Owners' \union lost_core'
  <2>1. /\ u \in open /\ priv' = priv /\ lost_core' = lost_core
        /\ \A k \in 1..Len(queue) :
             queue'[k].active = queue[k].active /\ queue'[k].filp = queue[k].filp
    BY <1>4, StartEffect DEF StartOwn, StartOther, useVars
  <2>2. Points(u)
    BY <1>1, <2>1, PointsKept
  <2>3. Owners \subseteq Owners'
    BY <1>1, <2>1, OwnersKept
  <2> QED
    BY <2>1, <2>2, <2>3 DEF UserInv
<1>5. ASSUME NEW t \in Threads, StopOwn(t)
      PROVE  u \in Owners' \union lost_core'
  <2>1. u \in open /\ priv' = priv /\ lost_core' = lost_core \union {t} \union Owners
    BY <1>5, StopEffect DEF StopOwn
  <2>2. Points(u)
    BY <1>1, <2>1, PointsKept
  <2> QED
    BY <2>1, <2>2 DEF UserInv
<1>6. ASSUME NEW t \in Threads, StopOther(t)
      PROVE  u \in Owners' \union lost_core'
  <2>1. /\ u \in open /\ priv' = priv /\ lost_core' = lost_core
        /\ priv[t] \in 1..Len(queue) /\ queue[priv[t]].dsp_id # Own
        /\ \A k \in 1..Len(queue) : k # priv[t] => queue'[k] = queue[k]
    BY <1>2, <1>6, StopEffect DEF StopOther, useVars, Points
  <2>2. Points(u)
    BY <1>1, <2>1, PointsKept
  <2>3. Owners \subseteq Owners'
    BY <1>1, <2>1, OwnersKept
  <2> QED
    BY <2>1, <2>2, <2>3 DEF UserInv
<1>7. ASSUME NEW t \in Threads, NEW c \in Cores, SetCore(t, c)
      PROVE  u \in Owners' \union lost_core'
  <2>1. /\ u \in open /\ t \in open
        /\ UNCHANGED <<queue, priv>> \/ \E i \in 1..Len(queue') :
                 /\ priv' = [priv EXCEPT ![t] = i]
                 /\ queue'[i].dsp_id = c /\ queue'[i].active = 1 /\ queue'[i].filp = t
                 /\ \A k \in 1..Len(queue) : k # i => queue'[k] = queue[k]
                 /\ i \in 1..Len(queue) => queue[i].active = 0
                 /\ c = Own => Owners = {}
    BY <1>7, SetEffect DEF SetCore
  <2>2. CASE UNCHANGED <<queue, priv>>
    <3>1. Points(u) /\ Owners' = Owners
      BY <2>2 DEF Points, Owners, Registry!PlacesOf
    <3>2. lost_core' = lost_core
      BY <1>7, <2>2, <3>1 DEF SetCore
    <3> QED
      BY <2>1, <3>1, <3>2 DEF UserInv
  <2>3. ASSUME NEW i \in 1..Len(queue'), priv' = [priv EXCEPT ![t] = i],
               queue'[i].dsp_id = c, queue'[i].active = 1, queue'[i].filp = t,
               \A k \in 1..Len(queue) : k # i => queue'[k] = queue[k],
               i \in 1..Len(queue) => queue[i].active = 0
        PROVE  u \in Owners' \union lost_core'
    <3>1. CASE u = t
      <4>1. queue'[i].dsp_id = Own
        BY <2>3, <3>1 DEF FileInv, Points
      <4> QED
        BY <2>3, <3>1, <4>1 DEF Owners, Registry!PlacesOf
    <3>2. CASE u # t
      <4>1. Owners \subseteq Owners'
        BY <1>1, <2>3, OwnersKept
      <4>2. priv'[u] = priv[u]
        BY <2>1, <2>3, <3>2 DEF FileInv
      <4>3. Points(u)
        BY <1>1, <2>1, <4>2, PointsKept
      <4>4. u \in lost_core => u \in lost_core'
        BY <1>7, <3>2 DEF SetCore
      <4> QED
        BY <2>1, <4>1, <4>3, <4>4 DEF UserInv
    <3> QED
      BY <3>1, <3>2
  <2> QED
    BY <2>1, <2>2, <2>3
<1>8. ASSUME NEW t \in Threads, Open(t)
      PROVE  u \in Owners' \union lost_core'
  <2>1. priv'[u] # 0
    BY DEF Points
  <2>2. u # t /\ u \in open /\ priv'[u] = priv[u] /\ UNCHANGED <<queue, lost_core>>
    BY <1>8, <2>1 DEF Open, Registry!OpenFile, FileInv, useVars
  <2>3. Points(u) /\ Owners' = Owners
    BY <1>1, <2>2, PointsKept DEF Owners, Registry!PlacesOf
  <2> QED
    BY <2>2, <2>3 DEF UserInv
<1>9. ASSUME NEW t \in Threads, Close(t)
      PROVE  u \in Owners' \union lost_core'
  <2>1. u # t /\ u \in open /\ UNCHANGED <<queue, priv>> /\ lost_core' = lost_core \ {t}
    BY <1>9 DEF Close, Registry!ReleaseFile
  <2>2. Points(u) /\ Owners' = Owners
    BY <2>1 DEF Points, Owners, Registry!PlacesOf
  <2> QED
    BY <2>1, <2>2 DEF UserInv
<1>10. ASSUME NEW t \in Threads, ReleaseStep(t)
       PROVE  u \in Owners' \union lost_core'
  <2>1. u \in open /\ priv'[u] = priv[u]
    BY <1>10, ReleaseEffect DEF ReleaseStep
  <2>2. Points(u)
    BY <1>1, <2>1, PointsKept
  <2>3. lost_core' = lost_core \union ((Owners \ Owners') \intersect open)
    BY <1>10 DEF ReleaseStep
  <2> QED
    BY <2>1, <2>2, <2>3 DEF UserInv
<1>11. UseRing \/ (\E t \in Threads : Consume(t)) \/ UNCHANGED systemVars
         => UNCHANGED <<fileVars, lost_core>>
  BY DEF UseRing, Consume, systemVars, fileVars, useVars
<1> QED
  BY <1>3, <1>4, <1>5, <1>6, <1>7, <1>8, <1>9, <1>10, <1>11 DEF SystemNext

LEMMA UserStep == TypeOK /\ FileInv /\ UserInv /\ [SystemNext]_systemVars => UserInv'
<1> SUFFICES ASSUME TypeOK, FileInv, UserInv, [SystemNext]_systemVars PROVE UserInv'
  OBVIOUS
<1>1. \A u \in open' : Points(u)' => u \in Owners' \union lost_core'
  BY ContextStep
<1>2. \A u \in Threads : pc'[u] # "idle" => u \in open' /\ Points(u)'
  BY CallStep
<1> QED
  BY <1>1, <1>2 DEF UserInv

----------------------------------------------------------------------------
(* Whose records a reader gets.                                            *)

\* Records from before the owner are among the unread, and among those
\* that a snapshot covers; START has flushed them when it is past its move.
ForeignCovered ==
  /\ foreign \in Nat /\ foreign <= Occupancy
  /\ \A t \in Threads :
       HasSnapshot(t) => foreign <= LogSize(Norm(cur_write_ptr), Norm(read_ptr))
  /\ \A t \in Threads : pc[t] \in {"start_clear", "start_arm"} => foreign = 0
  /\ began # {} => foreign = 0

ForeignInv == foreign \in 0..(N - 1) /\ (lost = FALSE => ForeignCovered)

SystemInv ==
  CaptureInv /\ FileInv /\ ServeInv /\ PlaceInv /\ UserInv /\ ForeignInv
    /\ shared \in BOOLEAN /\ lost_core \subseteq Threads /\ began \subseteq Threads

\* The timer only adds to the log.
LEMMA TimerLengthens ==
  ASSUME CaptureInv, lost = FALSE, Timer
  PROVE  /\ Occupancy <= Occupancy' /\ Occupancy \in Nat /\ Occupancy' \in Nat
         /\ UNCHANGED <<read_ptr, callVars>>
<1> USE DEF CaptureInv
<1>1. UNCHANGED <<read_ptr, callVars>>
  BY DEF Timer, TimerRecord, TimerStore, TimerWrap, TimerTestFull, TimerMarkFull, TimerNotify,
     TimerDec, TimerComplete
<1>2. Occupancy \in Nat
  BY LogSizeRange DEF TypeOK, Occupancy
<1>3. CASE TimerStore
  <2>1. write_ptr \in 0..(N - 1) /\ read_ptr \in 0..N /\ write_ptr' = write_ptr + 1
    BY <1>3, CaptureAssumption DEF TimerStore, TypeOK, EndInv
  <2>2. LogSize(Norm(write_ptr), Norm(read_ptr)) <= N - 2
    BY <1>3 DEF TimerStore, RingInv, FullInv, Occupancy
  <2> QED
    BY <1>1, <1>2, <2>1, <2>2, StoreLengthens DEF Occupancy
<1>4. CASE TimerWrap
  <2>1. Norm(write_ptr') = Norm(write_ptr)
    BY <1>4, CaptureAssumption DEF TimerWrap, TypeOK, Norm
  <2> QED
    BY <1>1, <1>2, <2>1 DEF Occupancy
<1>5. CASE UNCHANGED write_ptr
  BY <1>1, <1>2, <1>5 DEF Occupancy
<1> QED
  BY <1>3, <1>4, <1>5 DEF Timer, TimerRecord, TimerTestFull, TimerMarkFull, TimerNotify,
     TimerDec, TimerComplete

\* Nothing of the ring moves, and no thread gets to where ForeignCovered asks
\* for more.
LEMMA ForeignFrame ==
  ASSUME ForeignCovered, UNCHANGED <<read_ptr, cur_write_ptr, foreign>>, began' \subseteq began,
         Occupancy \in Nat, Occupancy' \in Nat, Occupancy <= Occupancy',
         \A t \in Threads : HasSnapshot(t)' => HasSnapshot(t),
         \A t \in Threads : pc'[t] \in {"start_clear", "start_arm"}
           => pc[t] \in {"start_clear", "start_arm"}
  PROVE  ForeignCovered'
<1>1. foreign' \in Nat /\ foreign' <= Occupancy'
  BY DEF ForeignCovered
<1>2. ASSUME NEW t \in Threads
      PROVE  /\ HasSnapshot(t)' => foreign' <= LogSize(Norm(cur_write_ptr'), Norm(read_ptr'))
             /\ pc'[t] \in {"start_clear", "start_arm"} => foreign' = 0
  BY <1>2 DEF ForeignCovered
<1>3. began' # {} => foreign' = 0
  BY DEF ForeignCovered
<1> QED
  BY <1>1, <1>2, <1>3 DEF ForeignCovered

\* With none of them left there is nothing to keep.
LEMMA NoneForeign ==
  ASSUME TypeOK', foreign' = 0
  PROVE  ForeignCovered'
<1>1. 0 <= Occupancy' /\ 0 <= LogSize(Norm(cur_write_ptr'), Norm(read_ptr'))
  BY LogSizeRange, CaptureAssumption DEF TypeOK, Occupancy
<1> QED
  BY <1>1 DEF ForeignCovered

\* Without the mutex no thread has a snapshot, or is in START.
LEMMA OnlyHolder ==
  ASSUME MutexInv, NEW t \in Threads, lock # t
  PROVE  ~ HasSnapshot(t) /\ pc[t] \notin {"start_clear", "start_arm"}
  BY DEF MutexInv, HasSnapshot, Locked

\* A full flag once lost stays lost.
LEMMA LostStays ==
  ASSUME [SystemNext]_systemVars, lost' = FALSE
  PROVE  lost = FALSE
<1>1. [Next]_vars
  BY CapturePart
<1>2. CASE Timer
  BY <1>2 DEF Timer, TimerRecord, TimerStore, TimerWrap, TimerTestFull, TimerMarkFull,
     TimerNotify, TimerDec, TimerComplete
<1>3. ASSUME NEW t \in Threads, Read(t)
      PROVE  lost = FALSE
  BY <1>3 DEF Read, ReadStopped, ReadStarted, ReadWake, ReadSignalled, ReadRelock, ReadSnapshot,
     ReadCopy, ReadFault, ReadMove, ReadClear, ClearFull, ringVars
<1>4. ASSUME NEW t \in Threads, Start(t) \/ Stop(t)
      PROVE  lost = FALSE
  BY <1>4 DEF Start, StartEnter, StartSnapshot, StartMove, StartClear, StartArm, Stop, ClearFull,
     ringVars
<1>5. CASE OtherCoreStops \/ OtherCoreStarts \/ UNCHANGED vars
  BY <1>5 DEF OtherCoreStops, OtherCoreStarts, vars, ringVars
<1> QED
  BY <1>1, <1>2, <1>3, <1>4, <1>5 DEF Next

\* There are never more foreign records than the ring has entries.
LEMMA ForeignRange ==
  ASSUME TypeOK, foreign \in 0..(N - 1), [SystemNext]_systemVars
  PROVE  foreign' \in 0..(N - 1)
<1> USE CaptureAssumption
<1>1. ASSUME NEW t \in Threads, Consume(t)
      PROVE  foreign' \in 0..(N - 1)
  <2> DEFINE taken == LogSize(Norm(read_ptr'), Norm(read_ptr))
  <2>1. foreign' = IF foreign > taken THEN foreign - taken ELSE 0
    BY <1>1 DEF Consume
  <2>2. read_ptr' = cur_write_ptr
    BY <1>1 DEF Consume, ReadMove, StartMove, MoveReadPtr
  <2>3. taken \in Nat
    BY <2>2, LogSizeRange DEF TypeOK
  <2> HIDE DEF taken
  <2> QED
    BY <2>1, <2>3
<1>2. ASSUME NEW t \in Threads, NEW c \in Cores, SetCore(t, c)
      PROVE  foreign' \in 0..(N - 1)
  <2>1. Occupancy \in 0..(N - 1)
    BY LogSizeRange DEF TypeOK, Occupancy
  <2> QED
    BY <1>2, <2>1 DEF SetCore
<1>3. ASSUME NEW t \in Threads,
             \/ StartOwn(t) \/ StopOwn(t) \/ StopOther(t) \/ StartOther(t)
             \/ Open(t) \/ Close(t) \/ ReleaseStep(t)
      PROVE  foreign' \in 0..(N - 1)
  BY <1>3 DEF StartOwn, StopOwn, StopOther, StartOther, Open, Close, ReleaseStep, OwnerGone, useVars
<1>4. CASE UseRing \/ UNCHANGED systemVars
  BY <1>4 DEF UseRing, systemVars, useVars
<1> QED
  BY <1>1, <1>2, <1>3, <1>4 DEF SystemNext

LEMMA ForeignStep ==
  ASSUME SystemInv, lost = FALSE, [SystemNext]_systemVars
  PROVE  ForeignCovered'
<1>1. /\ CaptureInv /\ TypeOK /\ MutexInv /\ lost = FALSE /\ ForeignCovered
      /\ CaptureInv' /\ TypeOK' /\ MutexInv'
  BY CapturePart, CaptureStep DEF SystemInv, ForeignInv, CaptureInv
<1>2. Occupancy \in Nat /\ Occupancy' \in Nat
  BY <1>1, LogSizeRange DEF TypeOK, Occupancy
<1>3. CASE Timer /\ UNCHANGED useVars
  <2>1. Occupancy <= Occupancy' /\ UNCHANGED <<read_ptr, callVars, foreign, began>>
    BY <1>1, <1>3, TimerLengthens DEF useVars
  <2> QED
    BY <1>1, <1>2, <2>1, ForeignFrame DEF callVars, HasSnapshot
<1>4. ASSUME NEW t \in Threads, UNCHANGED useVars,
             \/ ReadStopped(t) \/ ReadStarted(t) \/ StartEnter(t)
             \/ ReadWake(t) \/ ReadSignalled(t) \/ ReadRelock(t)
             \/ ReadCopy(t) \/ StartClear(t)
      PROVE  ForeignCovered'
  <2>1. UNCHANGED <<write_ptr, read_ptr, cur_write_ptr, foreign, began>>
    BY <1>4 DEF ReadStopped, ReadStarted, StartEnter, ReadWake, ReadSignalled, ReadRelock,
       ReadCopy, StartClear, ringVars, useVars
  <2>2. ASSUME NEW u \in Threads
        PROVE  /\ HasSnapshot(u)' => HasSnapshot(u)
               /\ pc'[u] \in {"start_clear", "start_arm"} => pc[u] \in {"start_clear", "start_arm"}
    BY <1>1, <1>4 DEF ReadStopped, ReadStarted, StartEnter, ReadWake, ReadSignalled, ReadRelock,
       ReadCopy, StartClear, GoTo, HasSnapshot, TypeOK
  <2>3. Occupancy' = Occupancy
    BY <2>1 DEF Occupancy
  <2> QED
    BY <1>1, <1>2, <2>1, <2>2, <2>3, ForeignFrame
<1>5. ASSUME NEW t \in Threads, UNCHANGED useVars, ReadSnapshot(t) \/ StartSnapshot(t)
      PROVE  ForeignCovered'
  <2>1. UNCHANGED <<write_ptr, read_ptr, foreign, began>> /\ cur_write_ptr' = write_ptr
    BY <1>5 DEF ReadSnapshot, StartSnapshot, ringVars, useVars
  <2>2. LogSize(Norm(cur_write_ptr'), Norm(read_ptr')) = Occupancy /\ Occupancy' = Occupancy
    BY <2>1 DEF Occupancy
  <2>3. ASSUME NEW u \in Threads, pc'[u] \in {"start_clear", "start_arm"}
        PROVE  foreign' = 0
    <3>1. pc[u] \in {"start_clear", "start_arm"}
      BY <1>1, <1>5, <2>3 DEF ReadSnapshot, StartSnapshot, GoTo, TypeOK
    <3> QED
      BY <1>1, <2>1, <3>1 DEF ForeignCovered
  <2> QED
    BY <1>1, <2>1, <2>2, <2>3 DEF ForeignCovered
<1>6. ASSUME NEW t \in Threads, UNCHANGED useVars, ReadFault(t) \/ ReadClear(t)
      PROVE  ForeignCovered'
  <2>1. UNCHANGED <<write_ptr, read_ptr, foreign, began>> /\ lock' = NoThread
    BY <1>6 DEF ReadFault, ReadClear, Release, ringVars, useVars
  <2>2. \A u \in Threads : ~ HasSnapshot(u)' /\ pc'[u] \notin {"start_clear", "start_arm"}
    BY <1>1, <2>1, CaptureAssumption DEF MutexInv, HasSnapshot, Locked
  <2>3. Occupancy' = Occupancy
    BY <2>1 DEF Occupancy
  <2> QED
    BY <1>1, <2>1, <2>2, <2>3 DEF ForeignCovered
<1>7. ASSUME NEW t \in Threads, Consume(t)
      PROVE  ForeignCovered'
  <2>1. HasSnapshot(t) /\ read_ptr' = cur_write_ptr
    BY <1>7 DEF Consume, ReadMove, StartMove, MoveReadPtr, HasSnapshot
  <2> DEFINE taken == LogSize(Norm(cur_write_ptr), Norm(read_ptr))
  <2>2. foreign' = IF foreign > taken THEN foreign - taken ELSE 0
    BY <1>7, <2>1 DEF Consume
  <2>3. taken \in Nat
    BY <1>1, LogSizeRange DEF TypeOK
  <2>4. foreign \in Nat /\ foreign <= taken
    BY <1>1, <2>1 DEF ForeignCovered
  <2> HIDE DEF taken
  <2>5. foreign' = 0
    BY <2>2, <2>3, <2>4
  <2> QED
    BY <1>1, <2>5, NoneForeign
<1>8. ASSUME NEW t \in Threads, StartOwn(t)
      PROVE  ForeignCovered'
  <2>1. foreign' = 0
    BY <1>1, <1>8 DEF StartOwn, StartArm, ForeignCovered
  <2> QED
    BY <1>1, <2>1, NoneForeign
<1>9. CASE UNCHANGED <<write_ptr, read_ptr, pc, cur_write_ptr, foreign>> /\ began' \subseteq began
  <2>1. Occupancy' = Occupancy
    BY <1>9 DEF Occupancy
  <2> QED
    BY <1>1, <1>2, <1>9, <2>1, ForeignFrame DEF HasSnapshot
<1>10. ASSUME NEW t \in Threads, StopOwn(t) \/ ReleaseStep(t)
       PROVE  ForeignCovered'
  <2>1. UNCHANGED <<write_ptr, read_ptr, pc, cur_write_ptr>> /\ OwnerGone
    BY <1>10 DEF StopOwn, ReleaseStep, Stop, vars, ringVars, callVars
  <2>2. CASE foreign' = 0
    BY <1>1, <2>2, NoneForeign
  <2>3. CASE UNCHANGED <<began, foreign>>
    BY <1>9, <2>1, <2>3
  <2> QED
    BY <2>1, <2>2, <2>3 DEF OwnerGone
<1>11. ASSUME NEW t \in Threads, NEW c \in Cores, SetCore(t, c)
       PROVE  ForeignCovered'
  <2>1. UNCHANGED <<write_ptr, read_ptr, pc, cur_write_ptr>> /\ lock = NoThread
    BY <1>11 DEF SetCore, OtherCoreStops, ringVars, callVars
  <2>2. CASE UNCHANGED <<began, foreign>>
    BY <1>9, <2>1, <2>2
  <2>3. CASE foreign' = Occupancy /\ began' = {}
    <3>1. \A u \in Threads : ~ HasSnapshot(u)' /\ pc'[u] \notin {"start_clear", "start_arm"}
      BY <1>1, <2>1, CaptureAssumption DEF MutexInv, HasSnapshot, Locked
    <3>2. Occupancy' = Occupancy
      BY <2>1 DEF Occupancy
    <3> QED
      BY <1>2, <2>3, <3>1, <3>2 DEF ForeignCovered
  <2> QED
    BY <1>11, <2>2, <2>3 DEF SetCore
<1>12. ASSUME NEW t \in Threads, StopOther(t) \/ StartOther(t) \/ Open(t) \/ Close(t)
       PROVE  ForeignCovered'
  <2>1. /\ UNCHANGED <<write_ptr, read_ptr, pc, cur_write_ptr, foreign>>
        /\ began' \subseteq began
    BY <1>12 DEF StopOther, StartOther, Open, Close, OtherCoreStops, OtherCoreStarts, vars,
       ringVars, callVars, useVars
  <2> QED
    BY <1>9, <2>1
<1>13. CASE UNCHANGED systemVars
  BY <1>9, <1>13 DEF systemVars, vars, ringVars, callVars, useVars
<1> QED
  BY <1>3, <1>4, <1>5, <1>6, <1>7, <1>8, <1>10, <1>11, <1>12, <1>13 DEF SystemNext, UseRing

----------------------------------------------------------------------------
(* The theorems.                                                           *)

LEMMA SystemInvInit == SystemInit => SystemInv
<1> SUFFICES ASSUME SystemInit PROVE SystemInv
  OBVIOUS
<1>1. Init /\ open = {} /\ began = {} /\ foreign = 0
  BY DEF SystemInit, Registry!RegistryInit
<1>2. CaptureInv /\ FileInv
  BY <1>1, CaptureInit, FileInit DEF Init
<1>3. \A t \in Threads : pc[t] = "idle"
  BY <1>1 DEF Init
<1>4. UserInv
  BY <1>1, <1>3 DEF UserInv
<1>5. 0 <= Occupancy
  BY <1>2, LogSizeRange, CaptureAssumption DEF CaptureInv, TypeOK, Occupancy
<1>6. ForeignInv
  BY <1>1, <1>3, <1>5, CaptureAssumption DEF ForeignInv, ForeignCovered, HasSnapshot
<1>7. ServeInv /\ PlaceInv /\ shared \in BOOLEAN /\ lost_core = {}
  <2>1. /\ queue = <<>> /\ priv = [t \in Threads |-> 0] /\ shared = FALSE /\ lost_core = {}
        /\ rel = [t \in Threads |-> Registry!NotReleasing]
        /\ timer_initialized = 0 /\ tpc = "idle"
    BY <1>1 DEF SystemInit, Registry!RegistryInit, Init
  <2>2. Registry!NotReleasing.at = 0 /\ Len(queue) = 0
    BY <2>1, EmptySeq DEF Registry!NotReleasing
  <2>3. \A t \in Threads : priv[t] = 0 /\ rel[t].at = 0
    BY <2>1, <2>2
  <2>4. PlaceInv
    BY <2>2, <2>3 DEF PlaceInv
  <2>5. ServeInv
    BY <2>1, <2>2 DEF ServeInv, OneEach
  <2> QED
    BY <2>1, <2>4, <2>5
<1> QED
  BY <1>1, <1>2, <1>4, <1>6, <1>7 DEF SystemInv

\* The types of the history.
LEMMA HistoryStep ==
  ASSUME shared \in BOOLEAN, lost_core \subseteq Threads, began \subseteq Threads,
         [SystemNext]_systemVars
  PROVE  shared' \in BOOLEAN /\ lost_core' \subseteq Threads /\ began' \subseteq Threads
<1>1. Owners \subseteq Threads
  BY DEF Owners
<1>2. UseRing \/ (\E t \in Threads : Consume(t)) \/ UNCHANGED systemVars
        => UNCHANGED <<shared, lost_core, began>>
  BY DEF UseRing, Consume, systemVars, fileVars, useVars
<1>3. ASSUME NEW t \in Threads, StartOwn(t) \/ StopOwn(t) \/ StopOther(t) \/ StartOther(t)
      PROVE  shared' = shared /\ lost_core' \subseteq Threads /\ began' \subseteq Threads
  BY <1>1, <1>3 DEF StartOwn, StopOwn, StopOther, StartOther, Registry!StartCap, Registry!StopCap,
     OwnerGone, useVars
<1>4. ASSUME NEW t \in Threads, NEW c \in Cores, SetCore(t, c)
      PROVE  shared' \in BOOLEAN /\ lost_core' \subseteq Threads /\ began' \subseteq Threads
  BY <1>4 DEF SetCore, Registry!SetDspCore, Registry!PointTo, Registry!Sharing
<1>5. ASSUME NEW t \in Threads, Open(t) \/ Close(t)
      PROVE  shared' = shared /\ lost_core' \subseteq Threads /\ began' \subseteq Threads
  BY <1>5 DEF Open, Close, Registry!OpenFile, Registry!ReleaseFile, useVars
<1>6. ASSUME NEW t \in Threads, ReleaseStep(t)
      PROVE  shared' = shared /\ lost_core' \subseteq Threads /\ began' \subseteq Threads
  BY <1>1, <1>6 DEF ReleaseStep, Registry!ReleaseStep, Registry!ReleaseTest, Registry!ReleaseFilp,
     Registry!ReleaseActive, Registry!ReleaseDone, OwnerGone
<1> QED
  BY <1>2, <1>3, <1>4, <1>5, <1>6 DEF SystemNext

LEMMA SystemInvStep == SystemInv /\ [SystemNext]_systemVars => SystemInv'
<1> SUFFICES ASSUME SystemInv, [SystemNext]_systemVars PROVE SystemInv'
  OBVIOUS
<1>1. CaptureInv /\ TypeOK /\ FileInv /\ UserInv /\ foreign \in 0..(N - 1)
  BY DEF SystemInv, CaptureInv, ForeignInv
<1>2. CaptureInv' /\ FileInv' /\ UserInv'
  BY <1>1, CapturePart, CaptureStep, FileStep, UserStep
<1>3. ForeignInv'
  BY <1>1, LostStays, ForeignRange, ForeignStep DEF ForeignInv
<1>4. ServeInv' /\ PlaceInv'
  BY ServeStep, PlaceStep DEF SystemInv
<1>5. shared' \in BOOLEAN /\ lost_core' \subseteq Threads /\ began' \subseteq Threads
  BY HistoryStep DEF SystemInv
<1> QED
  BY <1>2, <1>3, <1>4, <1>5 DEF SystemInv

\* The inductive invariant of the composition.
THEOREM SystemInvariant == SystemSpec => []SystemInv
<1> QED
  BY SystemInvInit, SystemInvStep, PTL DEF SystemSpec

\* The types of ring, files and history together; with them, that contexts
\* and walks of release() stay among at most UCODE_CORE_NUM instances, and
\* that fewer records are foreign than the ring has entries.
THEOREM SystemTypes == SystemSpec => []SystemTypeOK
<1>1. SystemInv => SystemTypeOK
  <2> SUFFICES ASSUME SystemInv PROVE SystemTypeOK
    OBVIOUS
  <2>1. TypeOK /\ FileInv /\ ServeInv /\ PlaceInv /\ ForeignInv
    BY DEF SystemInv, CaptureInv
  <2>2. /\ Len(queue) \in Nat /\ Registry!UCODE_CORE_NUM \in Nat
        /\ Len(queue) <= Registry!UCODE_CORE_NUM
    BY <2>1, QueueBound DEF ServeInv
  <2>3. priv \in [Threads -> 0..Registry!UCODE_CORE_NUM]
    <3>1. ASSUME NEW t \in Threads PROVE priv[t] \in 0..Registry!UCODE_CORE_NUM
      <4>1. priv[t] \in Nat /\ priv[t] <= Len(queue)
        BY <2>1 DEF FileInv, PlaceInv
      <4> QED
        BY <2>2, <4>1
    <3> QED
      BY <2>1, <3>1 DEF FileInv
  <2>4. rel \in [Threads -> [at : 0..(Registry!UCODE_CORE_NUM + 1),
                             step : {"none", "test", "filp", "active"}]]
    <3>1. ASSUME NEW t \in Threads
          PROVE  rel[t] \in [at : 0..(Registry!UCODE_CORE_NUM + 1),
                             step : {"none", "test", "filp", "active"}]
      <4>1. rel[t] \in [at : Nat, step : {"none", "test", "filp", "active"}]
        BY <2>1 DEF FileInv, Registry!NotReleasing
      <4>2. rel[t].at \in 0..(Registry!UCODE_CORE_NUM + 1)
        BY <2>1, <2>2, <4>1 DEF PlaceInv
      <4> QED
        BY <4>1, <4>2
    <3>2. \E T : rel \in [Threads -> T]
      BY <2>1 DEF FileInv
    <3> QED
      BY <3>1, <3>2
  <2>5. foreign \in 0..(N - 1)
    BY <2>1 DEF ForeignInv
  <2>6. timer_initialized \in {0, 1}
    BY <2>1 DEF TypeOK
  <2>7. Registry!RegistryTypeOK
    BY <2>1, <2>3, <2>4, <2>6 DEF Registry!RegistryTypeOK, FileInv, SystemInv
  <2> QED
    BY <2>1, <2>5, <2>7 DEF SystemTypeOK, SystemInv
<1> QED
  BY <1>1, SystemInvariant, PTL

\* The timer is never taken away from under its own callback, and every
\* core has an instance as long as one runs, whatever ioctls the files of
\* any core issue meanwhile.
THEOREM CallbacksHaveInstances == SystemSpec => []CallbackHasInstances
<1>1. SystemInv => CallbackHasInstances
  BY QueueBound DEF SystemInv, ServeInv, CallbackHasInstances
<1> QED
  BY <1>1, SystemInvariant, PTL

\* While a core is owned, nobody takes records out of its ring but its
\* owner and a file that goes on with a context it lost the core with.
THEOREM OwnerConsumes == SystemSpec => OnlyOwnerConsumes
<1>1. ASSUME SystemInv, [SystemNext]_systemVars, read_ptr' # read_ptr
      PROVE  lock \in Owners \union lost_core
  <2>1. PICK t \in Threads : Consume(t)
    <3>1. UseRing => UNCHANGED read_ptr
      <4>1. Timer => UNCHANGED read_ptr
        BY DEF Timer, TimerRecord, TimerStore, TimerWrap, TimerTestFull, TimerMarkFull,
           TimerNotify, TimerDec, TimerComplete
      <4> QED
        BY <4>1 DEF UseRing, ReadStopped, ReadStarted, StartEnter, ReadWake, ReadSignalled,
           ReadRelock, ReadSnapshot, ReadCopy, ReadFault, ReadClear, StartSnapshot, StartClear,
           ringVars
    <3>2. ASSUME NEW t \in Threads, NEW c \in Cores,
                 \/ StartOwn(t) \/ StopOwn(t) \/ StopOther(t) \/ StartOther(t)
                 \/ SetCore(t, c) \/ Open(t) \/ Close(t) \/ ReleaseStep(t)
          PROVE  UNCHANGED read_ptr
      BY <3>2 DEF StartOwn, StopOwn, StopOther, StartOther, SetCore, Open, Close, ReleaseStep,
         StartArm, Stop, OtherCoreStops, OtherCoreStarts, vars, ringVars
    <3>3. UNCHANGED systemVars => UNCHANGED read_ptr
      BY DEF systemVars, vars, ringVars
    <3> QED
      BY <1>1, <3>1, <3>2, <3>3, SystemAssumption DEF SystemNext
  <2>2. pc[t] \in Locked /\ pc[t] # "idle"
    BY <2>1 DEF Consume, ReadMove, StartMove, Locked
  <2>3. lock = t
    BY <1>1, <2>2 DEF SystemInv, CaptureInv, MutexInv
  <2> QED
    BY <1>1, <2>2, <2>3 DEF SystemInv, UserInv
<1>2. SystemInv /\ [SystemNext]_systemVars
        => [read_ptr' # read_ptr /\ Owners # {} => lock \in Owners \union lost_core]_systemVars
  BY <1>1
<1> QED
  BY <1>2, SystemInvariant, PTL DEF SystemSpec, OnlyOwnerConsumes

\* An owner that has begun with START copies no record that was stored
\* before it owned the core, until a full flag is lost.
THEOREM OwnRecordsOnly == SystemSpec => []NoForeignRecords
<1>1. SystemInv => NoForeignRecords
  BY DEF SystemInv, ForeignInv, ForeignCovered, NoForeignRecords
<1> QED
  BY <1>1, SystemInvariant, PTL
=============================================================================
