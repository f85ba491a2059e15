--------------------------- MODULE DsplogRegistry ---------------------------
(***************************************************************************)
(* Who uses which core: the capture instances in G_dsplog_read_queue, the  *)
(* contexts of the open files of /dev/dsplog that point to them, and the   *)
(* one kernel timer that serves all cores.                                 *)
(*                                                                         *)
(* An ioctl holds amba_dsplog_mutex from beginning to end and is one       *)
(* step.  release() takes no lock: it walks the queue one access at a      *)
(* time between other files' ioctls.  What START and STOP do to the ring   *)
(* of an instance is DsplogCapture.                                        *)
(***************************************************************************)
EXTENDS Integers, Sequences, FiniteSets

CONSTANTS
  Files,    \* the struct file addresses; a closed one is used again
  NoFile,   \* a NULL filp
  Cores     \* the DSP cores, 0 .. UCODE_CORE_NUM - 1

ASSUME RegistryAssumption ==
  /\ NoFile \notin Files
  /\ IsFiniteSet(Cores) /\ Cores # {}

VARIABLES
  queue,              \* G_dsplog_read_queue, oldest instance first
  open,               \* files open and not being released
  priv,               \* dsplog_priv_data by file: a place in queue, 0 for NULL
  timer_initialized,  \* G_timer_control.timer_initialized
  rel,                \* where release() of each file is
  shared              \* history: two open files had one instance

registryVars == <<queue, open, priv, timer_initialized, rel, shared>>

UCODE_CORE_NUM == Cardinality(Cores)

Instance == [dsp_id : Cores, active : {0, 1}, filp : Files \union {NoFile},
             dsplog_state : {0, 1}]

\* release() at an instance; its next access is to test it, to clear its
\* filp or to clear its active.
NotReleasing == [at |-> 0, step |-> "none"]
Releasing == {f \in Files : rel[f] # NotReleasing}

\* The places of a core's instances in the queue.
PlacesOf(c) == {i \in 1..Len(queue) : queue[i].dsp_id = c}

\* Two of the given files have one instance in the given contexts.
Sharing(files, contexts) ==
  \E f, g \in files : f # g /\ contexts[f] = contexts[g] /\ contexts[f] # 0

----------------------------------------------------------------------------

OpenFile(f) ==
  /\ f \notin open /\ rel[f] = NotReleasing
  /\ open' = open \union {f}
  /\ priv' = [priv EXCEPT ![f] = 0]
  /\ UNCHANGED <<queue, timer_initialized, rel, shared>>

\* Faulty: an occupied instance is handed over.
NeverOccupied(c) == FALSE

Occupied(c) == \E i \in PlacesOf(c) : queue[i].active = 1

\* alloc_log_cap_instance.
NewInstance(f, c) == [dsp_id |-> c, active |-> 1, filp |-> f, dsplog_state |-> 0]

\* dsplog_register_log_cap: the queue and the place it returns, 0 for NULL.
\* A core without an instance gets one unless memory is short.
Register(f, c) ==
  IF PlacesOf(c) = {}
    THEN {<<queue, 0>>,
          <<Append(queue, NewInstance(f, c)), Len(queue) + 1>>}
  ELSE IF Occupied(c) THEN {<<queue, 0>>}
  ELSE {<<[queue EXCEPT ![i].active = 1, ![i].filp = f], i>> : i \in PlacesOf(c)}

PointTo(f, place) ==
  /\ priv' = IF place = 0 THEN priv ELSE [priv EXCEPT ![f] = place]
  /\ shared' = (shared \/ Sharing(open, priv'))

\* Faulty: the timer's flag is counted down.
SetDspCoreCounting(f, c) ==
  /\ f \in open
  /\ timer_initialized' = timer_initialized - 1
  /\ \E r \in Register(f, c) : queue' = r[1] /\ PointTo(f, r[2])
  /\ UNCHANGED <<open, rel>>

\* SET_DSP_CORE stops the timer whatever comes of it.
SetDspCore(f, c) ==
  /\ f \in open
  /\ timer_initialized' = 0
  /\ \E r \in Register(f, c) : queue' = r[1] /\ PointTo(f, r[2])
  /\ UNCHANGED <<open, rel>>

\* Faulty: the timer starts with the first core.
StartCapAtOnce(f) ==
  /\ f \in open /\ priv[f] # 0
  /\ queue' = [queue EXCEPT ![priv[f]].dsplog_state = 1]
  /\ timer_initialized' = 1
  /\ UNCHANGED <<open, priv, rel, shared>>

\* START: the timer starts once every core has an instance.
StartCap(f) ==
  /\ f \in open /\ priv[f] # 0
  /\ queue' = [queue EXCEPT ![priv[f]].dsplog_state = 1]
  /\ timer_initialized' = IF Len(queue) = UCODE_CORE_NUM THEN 1 ELSE timer_initialized
  /\ UNCHANGED <<open, priv, rel, shared>>

\* START without SET_DSP_CORE, on a chip with one core.
StartOldChip(f) ==
  /\ f \in open /\ priv[f] = 0 /\ UCODE_CORE_NUM = 1
  /\ \E c \in Cores : \E r \in Register(f, c) :
       /\ PointTo(f, r[2])
       /\ IF r[2] = 0
            THEN queue' = r[1] /\ timer_initialized' = 0
            ELSE /\ queue' = [r[1] EXCEPT ![r[2]].dsplog_state = 1]
                 /\ timer_initialized' = 1
  /\ UNCHANGED <<open, rel>>

\* dsplog_start_cap.
Start(f) == IF priv[f] # 0 THEN StartCap(f) ELSE StartOldChip(f)

\* STOP gives the instance up, and the context keeps pointing to it.
StopCap(f) ==
  /\ f \in open /\ priv[f] # 0
  /\ timer_initialized' = 0
  /\ queue' = [queue EXCEPT ![priv[f]].dsplog_state = 0,
                            ![priv[f]].active = 0, ![priv[f]].filp = NoFile]
  /\ UNCHANGED <<open, priv, rel, shared>>

----------------------------------------------------------------------------
(* release(): dsplog_reset_log_cap_state, then the context is freed.       *)

ReleaseFile(f) ==
  /\ f \in open /\ open' = open \ {f}
  /\ rel' = [rel EXCEPT ![f] = [at |-> 1, step |-> "test"]]
  /\ UNCHANGED <<queue, priv, timer_initialized, shared>>

ReleaseTest(f) ==
  /\ rel[f].step = "test" /\ rel[f].at <= Len(queue)
  /\ LET entry == queue[rel[f].at] IN
       rel' = IF entry.filp = f /\ entry.active = 1
                THEN [rel EXCEPT ![f].step = "filp"]
                ELSE [rel EXCEPT ![f].at = rel[f].at + 1]
  /\ UNCHANGED <<queue, open, priv, timer_initialized, shared>>

ReleaseFilp(f) ==
  /\ rel[f].step = "filp"
  /\ queue' = [queue EXCEPT ![rel[f].at].filp = NoFile]
  /\ rel' = [rel EXCEPT ![f].step = "active"]
  /\ UNCHANGED <<open, priv, timer_initialized, shared>>

\* Faulty: the walk ends with the first instance given up.
ReleaseActiveReturns(f) ==
  /\ rel[f].step = "active"
  /\ queue' = [queue EXCEPT ![rel[f].at].active = 0]
  /\ rel' = [rel EXCEPT ![f] = [at |-> Len(queue) + 1, step |-> "test"]]
  /\ UNCHANGED <<open, priv, timer_initialized, shared>>

ReleaseActive(f) ==
  /\ rel[f].step = "active"
  /\ queue' = [queue EXCEPT ![rel[f].at].active = 0]
  /\ rel' = [rel EXCEPT ![f] = [at |-> rel[f].at + 1, step |-> "test"]]
  /\ UNCHANGED <<open, priv, timer_initialized, shared>>

ReleaseDone(f) ==
  /\ rel[f].step = "test" /\ rel[f].at > Len(queue)
  /\ rel' = [rel EXCEPT ![f] = NotReleasing]
  /\ priv' = [priv EXCEPT ![f] = 0]
  /\ UNCHANGED <<queue, open, timer_initialized, shared>>

ReleaseStep(f) == ReleaseTest(f) \/ ReleaseFilp(f) \/ ReleaseActive(f) \/ ReleaseDone(f)

\* Faulty: open files do not keep the module.
ReloadUnderUsers ==
  /\ Releasing = {}
  /\ queue' = <<>> /\ timer_initialized' = 0
  /\ UNCHANGED <<open, priv, rel, shared>>

\* The module is unloaded and loaded again: an open file keeps it in place.
Reload ==
  /\ open = {} /\ Releasing = {}
  /\ queue' = <<>> /\ timer_initialized' = 0
  /\ UNCHANGED <<open, priv, rel, shared>>

----------------------------------------------------------------------------

RegistryInit ==
  /\ queue = <<>> /\ timer_initialized = 0
  /\ open = {} /\ priv = [f \in Files |-> 0]
  /\ rel = [f \in Files |-> NotReleasing]
  /\ shared = FALSE

RegistryNext ==
  \/ \E f \in Files :
       \/ OpenFile(f) \/ Start(f) \/ StopCap(f)
       \/ \E c \in Cores : SetDspCore(f, c)
       \/ ReleaseFile(f) \/ ReleaseStep(f)
  \/ Reload

RegistrySpec == RegistryInit /\ [][RegistryNext]_registryVars

\* A process that closes its file is scheduled until release() is over.
RegistryFairSpec == RegistrySpec /\ \A f \in Files : WF_registryVars(ReleaseStep(f))

----------------------------------------------------------------------------
(* Properties.                                                             *)

RegistryTypeOK ==
  /\ queue \in Seq(Instance)
  /\ open \subseteq Files
  /\ priv \in [Files -> 0..UCODE_CORE_NUM]
  /\ timer_initialized \in {0, 1}
  /\ rel \in [Files -> [at : 0..(UCODE_CORE_NUM + 1), step : {"none", "test", "filp", "active"}]]
  /\ shared \in BOOLEAN

\* The timer runs only while every core has its one instance, so its array
\* of UCODE_CORE_NUM instances (dsp_printk_timer) is filled and never
\* overflows, and no core is served twice.
TimerServesAll ==
  /\ \A c \in Cores : Cardinality(PlacesOf(c)) <= 1
  /\ timer_initialized = 1 => \A c \in Cores : PlacesOf(c) # {}

\* A context never points to an instance that does not exist, although
\* dsplog_deinit frees them all.
NoDanglingContext == \A f \in open \union Releasing : priv[f] <= Len(queue)

\* An occupied core has an owner that can give it up: an open file, or one
\* whose release() has still to come to the instance.  Whatever the
\* processes do, a core is not occupied for ever by a file that is gone.
OwnerCanRelease ==
  \A i \in 1..Len(queue) : queue[i].active = 1 =>
    \/ queue[i].filp \in open
    \/ \E f \in Releasing :
         /\ rel[f].at <= i
         /\ queue[i].filp = f \/ (rel[f].at = i /\ rel[f].step = "active")

\* A file keeps its core until it stops or releases it, although other
\* files' release() reads and writes the instances without the mutex.  It
\* can be taken away once a context left over from before a STOP shared
\* the instance.
OwnershipKept ==
  [][\A i \in 1..Len(queue) : \A f \in open :
       shared = FALSE /\ queue[i].active = 1 /\ queue[i].filp = f
         => \/ queue'[i].active = 1 /\ queue'[i].filp = f
            \/ priv[f] = i /\ timer_initialized' = 0 /\ queue'[i].dsplog_state = 0]_registryVars

\* Closing a file frees every core it owned, however many, and whatever the
\* other files do to the instances behind its back while it walks the queue
\* without the mutex.
CloseFrees ==
  \A f \in Files :
    f \in Releasing ~> \A i \in 1..Len(queue) : ~ (queue[i].active = 1 /\ queue[i].filp = f)

(* What a comment of the code says of it, and TLC refutes.                 *)

\* dsplog_timer.c:648, "Start timer when all dsp core becomes registered":
\* with every core registered, occupied and started, the timer runs.
RunsWhenAllStarted ==
  (\A c \in Cores : \E i \in PlacesOf(c) : queue[i].active = 1 /\ queue[i].dsplog_state = 1)
    => timer_initialized = 1
=============================================================================
