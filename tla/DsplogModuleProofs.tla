------------------------- MODULE DsplogModuleProofs -------------------------
(***************************************************************************)
(* What a failed init and exit leave behind, and that the loaded module is *)
(* the registry, for every number of cores and files.                      *)
(***************************************************************************)
EXTENDS DsplogModule, DsplogRegistryProofs

----------------------------------------------------------------------------
(* The inductive invariant.                                                *)

\* What the module holds, step by step: on the way in, the resources up to
\* the one taken last; on the way out, exactly what is still to be given
\* back, the last one taken first.
HeldInv ==
  /\ mod \in {"out", "region", "cdev", "class", "device", "queue", "live"} \union Leaving
  /\ mod = "out" => held = {}
  /\ mod = "region" => held = {"region"}
  /\ mod = "cdev" => held = {"region", "cdev"}
  /\ mod = "class" => held = {"region", "cdev", "class"}
  /\ mod \in {"device", "queue", "live"} => held = {"region", "cdev", "class", "device"}
  /\ mod \in Leaving =>
       \/ todo = <<"device", "class", "cdev", "region">> /\ held = {"region", "cdev", "class", "device"}
       \/ todo = <<"class", "cdev", "region">> /\ held = {"region", "cdev", "class"}
       \/ todo = <<"cdev", "region">> /\ held = {"region", "cdev"}
       \/ todo = <<"region">> /\ held = {"region"}
       \/ todo = <<>> /\ held = {}

\* iav learns of the operations of a module that has loaded, and is never
\* told to forget them.
OpsInv == ops_registered = TRUE => exited = TRUE \/ mod \in {"live", "exiting"}

\* Instances exist from dsplog_init on, for without a list there is no way
\* to add one.
ListInv == oops = FALSE /\ ~ QueueReady => queue = <<>>

\* Without an early open, nobody uses the module before it is live or once
\* dsplog_deinit has run.
CleanInv ==
  early = FALSE =>
    /\ leaked = FALSE /\ oops = FALSE
    /\ mod # "live" => open = {} /\ Releasing = {} /\ queue = <<>> /\ timer_initialized = 0

ModuleInv == HeldInv /\ OpsInv /\ ListInv /\ CleanInv

----------------------------------------------------------------------------
(* The steps.                                                              *)

\* The module goes, or is not let in: with nobody in it, it goes cleanly.
LEMMA VanishStep ==
  ASSUME ModuleInv, oops = FALSE, Vanish
  PROVE  ModuleInv' /\ [RegistryNext]_registryVars
<1> USE DEF Vanish
<1>1. /\ mod \in Leaving /\ todo = <<>> /\ mod' = "out" /\ mod # "live"
      /\ early' = early /\ UNCHANGED <<open, priv, rel, shared, held, ops_registered>>
  BY DEF Leaving
<1>2. Releasing' = Releasing
  BY <1>1 DEF Releasing
<1>3. HeldInv' /\ OpsInv'
  <2>1. held = {}
    BY <1>1 DEF ModuleInv, HeldInv
  <2>2. mod = "live" \/ mod = "exiting" => exited'
    BY <1>1
  <2>3. exited => exited'
    OBVIOUS
  <2>4. HeldInv'
    BY <1>1, <2>1 DEF HeldInv, Leaving
  <2>5. OpsInv'
    BY <1>1, <2>2, <2>3 DEF ModuleInv, OpsInv
  <2> QED
    BY <2>4, <2>5
<1>4. CASE oops'
  <2>1. UNCHANGED registryVars
    BY <1>1, <1>4 DEF registryVars
  <2>2. ListInv'
    BY <1>4 DEF ListInv
  <2>3. open # {} \/ Releasing # {} \/ timer_initialized = 1
    BY <1>4, Zenon
  <2>4. ASSUME early = FALSE
        PROVE  FALSE
    <3>1. open = {} /\ Releasing = {} /\ timer_initialized = 0
      BY <1>1, <2>4 DEF ModuleInv, CleanInv
    <3>2. 0 # 1
      OBVIOUS
    <3> QED
      BY <2>3, <3>1, <3>2, Zenon
  <2>5. CleanInv'
    BY <1>1, <2>4 DEF CleanInv
  <2> QED
    BY <1>3, <2>1, <2>2, <2>5 DEF ModuleInv
<1>5. CASE ~ oops'
  <2>1. open = {} /\ Releasing = {} /\ queue' = <<>> /\ timer_initialized' = 0
    BY <1>5
  <2>2. RegistryNext
    BY <1>1, <2>1 DEF Reload, RegistryNext
  <2>3. ListInv'
    BY <2>1 DEF ListInv
  <2>4. oops' = FALSE
    BY <1>5
  <2>5. CleanInv'
    BY <1>1, <1>2, <2>1, <2>4 DEF ModuleInv, CleanInv
  <2> QED
    BY <1>3, <2>2, <2>3, <2>5 DEF ModuleInv
<1> QED
  BY <1>4, <1>5

\* A step that leaves the registry alone and comes neither to the list nor
\* to "live" can only disturb what is held.
LEMMA QuietStep ==
  ASSUME ModuleInv, UNCHANGED <<registryVars, ops_registered, exited, early, leaked, oops>>,
         mod # "live", mod' # "live", mod = "exiting" => mod' = "exiting",
         QueueReady => QueueReady'
  PROVE  OpsInv' /\ ListInv' /\ CleanInv'
<1>1. Releasing' = Releasing
  BY DEF registryVars, Releasing
<1>2. OpsInv'
  BY DEF ModuleInv, OpsInv
<1>3. ListInv' /\ CleanInv'
  BY <1>1 DEF ModuleInv, ListInv, CleanInv, registryVars
<1> QED
  BY <1>2, <1>3

\* amba_dsplog_create_dev: a resource more, or an error path that names
\* what was taken before.
LEMMA CreateDevStep ==
  ASSUME ModuleInv, oops = FALSE, CreateDev
  PROVE  ModuleInv' /\ [RegistryNext]_registryVars
<1>1. UNCHANGED <<registryVars, ops_registered, exited, early, leaked, oops>>
  BY DEF CreateDev
<1>2. /\ mod \in {"out", "region", "cdev", "class"}
      /\ mod' \in {"region", "cdev", "class", "device", "failing"}
  BY DEF CreateDev, AllocRegion, AddCdev, CreateClass, CreateDevice, Take, Refused
<1>3. HeldInv'
  <2>1. CASE AllocRegion
    BY <2>1 DEF AllocRegion, Take, Refused, ModuleInv, HeldInv, Leaving
  <2>2. CASE AddCdev
    BY <2>2 DEF AddCdev, Take, Refused, ModuleInv, HeldInv, Leaving
  <2>3. CASE CreateClass
    BY <2>3 DEF CreateClass, Take, Refused, ModuleInv, HeldInv, Leaving
  <2>4. CASE CreateDevice
    BY <2>4 DEF CreateDevice, Take, Refused, ModuleInv, HeldInv, Leaving
  <2> QED
    BY <2>1, <2>2, <2>3, <2>4 DEF CreateDev
<1>4. OpsInv' /\ ListInv' /\ CleanInv'
  BY <1>1, <1>2, QuietStep DEF QueueReady
<1> QED
  BY <1>1, <1>3, <1>4 DEF ModuleInv

\* device_destroy, class_destroy, cdev_del, unregister_chrdev_region.
LEMMA GiveBackStep ==
  ASSUME ModuleInv, oops = FALSE, GiveBack
  PROVE  ModuleInv' /\ [RegistryNext]_registryVars
<1>1. /\ UNCHANGED <<registryVars, mod, ops_registered, exited, early, leaked, oops>>
      /\ mod \in Leaving /\ todo # <<>> /\ held' = held \ {Head(todo)} /\ todo' = Tail(todo)
  BY DEF GiveBack
<1>2. HeldInv'
  <2>1. CASE todo = <<"device", "class", "cdev", "region">> /\ held = {"region", "cdev", "class", "device"}
    <3>1. todo' = <<"class", "cdev", "region">> /\ held' = {"region", "cdev", "class"}
      BY <1>1, <2>1
    <3> QED
      BY <1>1, <3>1 DEF HeldInv, Leaving
  <2>2. CASE todo = <<"class", "cdev", "region">> /\ held = {"region", "cdev", "class"}
    <3>1. todo' = <<"cdev", "region">> /\ held' = {"region", "cdev"}
      BY <1>1, <2>2
    <3> QED
      BY <1>1, <3>1 DEF HeldInv, Leaving
  <2>3. CASE todo = <<"cdev", "region">> /\ held = {"region", "cdev"}
    <3>1. todo' = <<"region">> /\ held' = {"region"}
      BY <1>1, <2>3
    <3> QED
      BY <1>1, <3>1 DEF HeldInv, Leaving
  <2>4. CASE todo = <<"region">> /\ held = {"region"}
    <3>1. todo' = <<>> /\ held' = {}
      BY <1>1, <2>4
    <3> QED
      BY <1>1, <3>1 DEF HeldInv, Leaving
  <2> QED
    BY <1>1, <2>1, <2>2, <2>3, <2>4 DEF ModuleInv, HeldInv
<1>3. mod # "live"
  BY <1>1 DEF Leaving
<1>4. OpsInv' /\ ListInv' /\ CleanInv'
  BY <1>1, <1>3, QuietStep DEF QueueReady
<1> QED
  BY <1>1, <1>2, <1>4 DEF ModuleInv

\* dsplog_init makes the list, which was empty memory.
LEMMA InitQueueStep ==
  ASSUME ModuleInv, oops = FALSE, InitQueue
  PROVE  ModuleInv' /\ [RegistryNext]_registryVars
<1>1. /\ mod = "device" /\ mod' = "queue" /\ queue' = <<>>
      /\ UNCHANGED <<open, priv, timer_initialized, rel, shared, held, todo, ops_registered, exited,
                     early, leaked, oops>>
  BY DEF InitQueue
<1>2. queue = <<>>
  BY <1>1 DEF ModuleInv, ListInv, QueueReady
<1>3. UNCHANGED registryVars
  BY <1>1, <1>2 DEF registryVars
<1>4. HeldInv'
  BY <1>1 DEF ModuleInv, HeldInv, Leaving
<1>5. OpsInv' /\ ListInv' /\ CleanInv'
  BY <1>1, <1>3, QuietStep DEF QueueReady
<1> QED
  BY <1>3, <1>4, <1>5 DEF ModuleInv

LEMMA RegisterOpsStep ==
  ASSUME ModuleInv, oops = FALSE, RegisterOps
  PROVE  ModuleInv' /\ [RegistryNext]_registryVars
<1>1. mod = "queue" /\ UNCHANGED <<registryVars, held, exited, early, leaked, oops>>
  BY DEF RegisterOps
<1>2. CASE mod' = "live" /\ ops_registered' = TRUE /\ UNCHANGED todo
  <2>1. HeldInv' /\ OpsInv' /\ ListInv' /\ CleanInv'
    BY <1>1, <1>2 DEF ModuleInv, HeldInv, OpsInv, ListInv, CleanInv, QueueReady, Leaving
  <2> QED
    BY <1>1, <2>1 DEF ModuleInv
<1>3. CASE mod' = "refused" /\ todo' = RemoveDev /\ UNCHANGED ops_registered
  <2>1. HeldInv'
    BY <1>1, <1>3 DEF ModuleInv, HeldInv, RemoveDev, Leaving
  <2>2. OpsInv' /\ ListInv' /\ CleanInv'
    BY <1>1, <1>3, QuietStep DEF QueueReady
  <2> QED
    BY <1>1, <2>1, <2>2 DEF ModuleInv
<1> QED
  BY <1>2, <1>3 DEF RegisterOps

\* amba_dsplog_exit: first the instances and the timer.
LEMMA DeinitQueueStep ==
  ASSUME ModuleInv, oops = FALSE, DeinitQueue
  PROVE  ModuleInv' /\ [RegistryNext]_registryVars
<1>1. /\ mod = "live" /\ mod' = "exiting" /\ todo' = RemoveDev
      /\ open = {} /\ Releasing = {} /\ queue' = <<>> /\ timer_initialized' = 0
      /\ UNCHANGED <<open, priv, rel, shared, held, ops_registered, exited, early, leaked, oops>>
  BY DEF DeinitQueue, Unused
<1>2. Reload /\ Releasing' = Releasing
  BY <1>1 DEF Reload, Releasing
<1>3. HeldInv'
  BY <1>1 DEF ModuleInv, HeldInv, RemoveDev, Leaving
<1>4. OpsInv' /\ ListInv' /\ CleanInv'
  BY <1>1, <1>2 DEF ModuleInv, OpsInv, ListInv, CleanInv
<1> QED
  BY <1>2, <1>3, <1>4 DEF ModuleInv, RegistryNext

\* A user's step is a step of the registry, or the end of the kernel.
LEMMA UserStep ==
  ASSUME ModuleInv, oops = FALSE, NEW f \in Files, OpenDevice(f) \/ UseDevice(f) \/ UseTooEarly(f)
  PROVE  ModuleInv' /\ [RegistryNext]_registryVars
<1>1. CASE OpenDevice(f)
  <2>1. /\ OpenFile(f) /\ early' = IF mod = "live" THEN early ELSE TRUE
        /\ UNCHANGED <<mod, held, todo, ops_registered, exited, leaked, oops>>
    BY <1>1 DEF OpenDevice
  <2>2. UNCHANGED <<queue, timer_initialized, rel>>
    BY <2>1 DEF OpenFile
  <2>3. HeldInv' /\ OpsInv' /\ ListInv' /\ CleanInv'
    BY <2>1, <2>2 DEF ModuleInv, HeldInv, OpsInv, ListInv, CleanInv, QueueReady
  <2> QED
    BY <2>1, <2>3 DEF ModuleInv, RegistryNext
<1>2. CASE UseDevice(f)
  <2>1. QueueReady /\ UNCHANGED lifeVars
    BY <1>2 DEF UseDevice
  <2>2. RegistryNext
    BY <1>2 DEF UseDevice, RegistryNext
  <2>3. f \in open \/ f \in Releasing
    <3>1. ASSUME ReleaseStep(f)
          PROVE  f \in Releasing
      <4>1. rel[f].step # "none"
        BY <3>1 DEF ReleaseStep, ReleaseTest, ReleaseFilp, ReleaseActive, ReleaseDone
      <4>2. NotReleasing.step = "none"
        BY DEF NotReleasing
      <4> QED
        BY <4>1, <4>2 DEF Releasing
    <3> QED
      BY <1>2, <3>1 DEF UseDevice, Start, StartCap, StartOldChip, StopCap, SetDspCore, ReleaseFile
  <2>4. HeldInv' /\ OpsInv' /\ ListInv'
    BY <2>1 DEF ModuleInv, HeldInv, OpsInv, ListInv, QueueReady, lifeVars
  <2>5. CleanInv'
    BY <2>1, <2>3 DEF ModuleInv, CleanInv, lifeVars
  <2> QED
    BY <2>2, <2>4, <2>5 DEF ModuleInv
<1>3. CASE UseTooEarly(f)
  <2>1. /\ ~ QueueReady /\ f \in open /\ oops' = TRUE
        /\ UNCHANGED <<registryVars, mod, held, todo, ops_registered, exited, early, leaked>>
    BY <1>3 DEF UseTooEarly
  <2>2. early # FALSE
    BY <2>1 DEF ModuleInv, CleanInv, QueueReady
  <2>3. HeldInv' /\ OpsInv' /\ ListInv' /\ CleanInv'
    BY <2>1, <2>2 DEF ModuleInv, HeldInv, OpsInv, ListInv, CleanInv
  <2> QED
    BY <2>1, <2>3 DEF ModuleInv
<1> QED
  BY <1>1, <1>2, <1>3

LEMMA ModuleStep ==
  ASSUME ModuleInv, [ModuleNext]_moduleVars
  PROVE  ModuleInv' /\ [RegistryNext]_registryVars
<1>1. CASE ModuleNext
  BY <1>1, CreateDevStep, InitQueueStep, RegisterOpsStep, DeinitQueueStep, GiveBackStep, VanishStep,
     UserStep DEF ModuleNext
<1>2. CASE UNCHANGED moduleVars
  <2>1. UNCHANGED registryVars /\ UNCHANGED lifeVars
    BY <1>2 DEF moduleVars
  <2>2. HeldInv' /\ OpsInv' /\ ListInv' /\ CleanInv'
    BY <2>1 DEF ModuleInv, HeldInv, OpsInv, ListInv, CleanInv, QueueReady, Releasing, registryVars, lifeVars
  <2> QED
    BY <2>1, <2>2 DEF ModuleInv
<1> QED
  BY <1>1, <1>2

----------------------------------------------------------------------------
(* The theorems.                                                           *)

\* The inductive invariant of the module's life holds.
THEOREM ModuleInvariant == ModuleSpec => []ModuleInv
<1>1. ModuleInit => ModuleInv
  BY DEF ModuleInit, RegistryInit, ModuleInv, HeldInv, OpsInv, ListInv, CleanInv, Releasing, Leaving
<1>2. ModuleInv /\ [ModuleNext]_moduleVars => ModuleInv'
  BY ModuleStep
<1> QED
  BY <1>1, <1>2, PTL DEF ModuleSpec

\* On every way in and out of the kernel, with any step refused, the module
\* holds its resources nested in the order they were taken, and nothing
\* once it is out: each error path gives back what was taken, and no more.
THEOREM HoldsNothingOutside == ModuleSpec => []NothingLeft
<1>1. ASSUME ModuleInv
      PROVE  NothingLeft
  <2> DEFINE Prefix(n) == {Resources[i] : i \in 1..n}
  <2>1. /\ Len(Resources) = 4 /\ Resources[1] = "region" /\ Resources[2] = "cdev"
        /\ Resources[3] = "class" /\ Resources[4] = "device"
    BY DEF Resources
  <2>2. /\ Prefix(0) = {} /\ Prefix(1) = {"region"} /\ Prefix(2) = {"region", "cdev"}
        /\ Prefix(3) = {"region", "cdev", "class"}
        /\ Prefix(4) = {"region", "cdev", "class", "device"}
    <3>1. /\ 1..0 = {} /\ 1..1 = {1} /\ 1..2 = {1, 2} /\ 1..3 = {1, 2, 3}
          /\ 1..4 = {1, 2, 3, 4}
      OBVIOUS
    <3> QED
      BY <2>1, <3>1
  <2>3. held \in {Prefix(0), Prefix(1), Prefix(2), Prefix(3), Prefix(4)}
    <3> HIDE DEF Prefix
    <3> QED
      BY <1>1, <2>2 DEF ModuleInv, HeldInv, Leaving
  <2>4. \E n \in 0..Len(Resources) : held = Prefix(n)
    <3> HIDE DEF Prefix
    <3> QED
      BY <2>1, <2>3
  <2>5. mod = "out" => held = {} /\ (ops_registered = TRUE => exited = TRUE)
    BY <1>1 DEF ModuleInv, HeldInv, OpsInv
  <2> QED
    BY <2>4, <2>5 DEF NothingLeft
<1> QED
  BY <1>1, ModuleInvariant, PTL

\* Neither a refused init nor exit leaves instances, a timer or files
\* behind, unless a file was opened before the module had loaded.
THEOREM LeavesCleanly == ModuleSpec => []GoesCleanly
<1>1. ModuleInv => GoesCleanly
  BY DEF ModuleInv, CleanInv, GoesCleanly
<1> QED
  BY <1>1, ModuleInvariant, PTL

\* In all its lives the module is the registry to its users.
THEOREM ModuleIsRegistry == ModuleSpec => RefinesRegistry
<1>1. ModuleInit => RegistryInit
  BY DEF ModuleInit
<1>2. ModuleInv /\ [ModuleNext]_moduleVars => [RegistryNext]_registryVars
  BY ModuleStep
<1> QED
  BY <1>1, <1>2, ModuleInvariant, PTL DEF ModuleSpec, RefinesRegistry, RegistrySpec

\* Hence what is proved of the registry holds through every load, refusal
\* and unload: one instance per core while the timer runs, and a core
\* occupied only by a file that can give it up.
THEOREM ServesThroughLives == ModuleSpec => [](TimerServesAll /\ OwnerCanRelease)
  BY ModuleIsRegistry, TimerServesAllCores, OwnersCanRelease, PTL DEF RefinesRegistry
=============================================================================
