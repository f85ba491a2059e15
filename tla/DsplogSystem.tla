---------------------------- MODULE DsplogSystem ----------------------------
(***************************************************************************)
(* One core's ring buffer (DsplogCapture) among the files that register,   *)
(* use, give up and close it (DsplogRegistry).  Every file has one thread, *)
(* and goes by its name; a thread in a system call keeps its file open.    *)
(*                                                                         *)
(* An ioctl on the core is a step of both modules; one on another core     *)
(* reaches this ring through the shared timer only.                        *)
(***************************************************************************)
EXTENDS DsplogCapture, Sequences, FiniteSets

CONSTANTS
  Cores,   \* 0 .. UCODE_CORE_NUM - 1
  Own,     \* the core whose ring is looked at
  NoFile

ASSUME SystemAssumption ==
  /\ Own \in Cores /\ IsFiniteSet(Cores) /\ Cardinality(Cores) > 1
  /\ NoFile \notin Threads

VARIABLES
  queue, open, priv, rel, shared,   \* as in DsplogRegistry
  lost_core, \* history: open files that a STOP or a release() took the core from,
             \* and whose contexts still point to it
  began,     \* history: the owner, once it has begun with START
  foreign    \* history: unread records from before the owner

Registry == INSTANCE DsplogRegistry WITH Files <- Threads

fileVars == <<queue, open, priv, rel, shared>>
useVars == <<lost_core, began, foreign>>
systemVars == <<vars, fileVars, useVars>>

\* The file's context points to this core's instance.
Points(t) == priv[t] # 0 /\ queue[priv[t]].dsp_id = Own

\* The instance's owners: one file, or none.
Owners == {t \in Threads : \E i \in Registry!PlacesOf(Own) : queue[i].active = 1 /\ queue[i].filp = t}

\* A STOP, or a release(), has left the core without its owner.
OwnerGone ==
  IF Owners' = {} THEN began' = {} /\ foreign' = 0 ELSE UNCHANGED <<began, foreign>>

Free(t) == pc[t] = "idle" /\ lock = NoThread

----------------------------------------------------------------------------
(* The timer, and what a thread does with the ring.                        *)

UseRing ==
  /\ \/ Timer
     \/ \E t \in Threads :
          \/ t \in open /\ Points(t) /\ (ReadStopped(t) \/ ReadStarted(t) \/ StartEnter(t))
          \/ ReadWake(t) \/ ReadSignalled(t) \/ ReadRelock(t) \/ ReadSnapshot(t)
          \/ ReadCopy(t) \/ ReadFault(t) \/ ReadClear(t)
          \/ StartSnapshot(t) \/ StartClear(t)
  /\ UNCHANGED <<fileVars, useVars>>

\* What a reader takes out, or START flushes, is the oldest.
Consume(t) ==
  /\ ReadMove(t) \/ StartMove(t)
  /\ LET taken == LogSize(Norm(read_ptr'), Norm(read_ptr)) IN
       foreign' = IF foreign > taken THEN foreign - taken ELSE 0
  /\ UNCHANGED <<fileVars, lost_core, began>>

StartOwn(t) ==
  /\ StartArm(t) /\ Registry!StartCap(t)
  /\ began' = began \union ({t} \intersect Owners)
  /\ UNCHANGED <<lost_core, foreign>>

StopOwn(t) ==
  /\ Points(t)
  /\ Stop(t) /\ Registry!StopCap(t)
  /\ lost_core' = lost_core \union {t} \union Owners
  /\ OwnerGone

----------------------------------------------------------------------------
(* The other ioctls, open and close.                                       *)

\* SET_DSP_CORE; a new owner finds the ring as it is.
SetCore(t, c) ==
  /\ Free(t) /\ OtherCoreStops /\ Registry!SetDspCore(t, c)
  /\ IF Owners' # Owners /\ t \in Owners'
       THEN /\ foreign' = Occupancy
            /\ began' = {} /\ lost_core' = lost_core \ {t}
       ELSE /\ lost_core' = IF priv' = priv THEN lost_core ELSE lost_core \ {t}
            /\ UNCHANGED <<began, foreign>>

StopOther(t) ==
  /\ Free(t) /\ ~ Points(t)
  /\ OtherCoreStops /\ Registry!StopCap(t)
  /\ UNCHANGED useVars

StartOther(t) ==
  /\ Free(t) /\ ~ Points(t)
  /\ Registry!StartCap(t)
  /\ OtherCoreStarts \/ (timer_initialized' = timer_initialized /\ UNCHANGED vars)
  /\ UNCHANGED useVars

Open(t) == Registry!OpenFile(t) /\ UNCHANGED <<vars, useVars>>

Close(t) ==
  /\ pc[t] = "idle" /\ Registry!ReleaseFile(t)
  /\ lost_core' = lost_core \ {t} /\ began' = began \ {t}
  /\ UNCHANGED <<vars, foreign>>

\* A release() that has cleared its filp also takes the core from a file
\* that stops and registers it before active is cleared.
ReleaseStep(t) ==
  /\ Registry!ReleaseStep(t)
  /\ lost_core' = lost_core \union ((Owners \ Owners') \intersect open)
  /\ OwnerGone
  /\ UNCHANGED vars

----------------------------------------------------------------------------

SystemInit ==
  /\ Init /\ Registry!RegistryInit
  /\ lost_core = {} /\ began = {} /\ foreign = 0

SystemNext ==
  \/ UseRing
  \/ \E t \in Threads :
       \/ Consume(t) \/ StartOwn(t) \/ StopOwn(t)
       \/ StopOther(t) \/ StartOther(t)
       \/ \E c \in Cores : SetCore(t, c)
       \/ Open(t) \/ Close(t) \/ ReleaseStep(t)

SystemSpec == SystemInit /\ [][SystemNext]_systemVars

----------------------------------------------------------------------------
(* Properties.                                                             *)

SystemTypeOK ==
  /\ TypeOK /\ Registry!RegistryTypeOK
  /\ lost_core \subseteq Threads /\ began \subseteq Threads /\ foreign \in 0..(N - 1)

\* No ioctl takes the timer away from under its own callback, and every
\* core has an instance while a callback runs.
CallbackHasInstances ==
  tpc # "idle" => timer_initialized = 1 /\ \A c \in Cores : Registry!PlacesOf(c) # {}

\* While a core is owned, only its owner takes records out of its ring,
\* through all waits, signals and closings.  The exception is a file that
\* goes on with its old context after it lost the core: by its own STOP, by
\* that of a file with an old context, or by a late release().
\* SET_DSP_CORE takes no core from anyone.
OnlyOwnerConsumes ==
  [][read_ptr' # read_ptr /\ Owners # {} => lock \in Owners \union lost_core]_systemVars

\* An owner that begins with START reads nothing that was stored under
\* those before it, although release() does not stop the capture; until a
\* full flag is lost, after which the timer may overtake the reader.
NoForeignRecords ==
  \A t \in Owners :
    lost = FALSE /\ pc[t] = "copy" /\ t \in began => foreign = 0
=============================================================================
