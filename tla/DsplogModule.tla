---------------------------- MODULE DsplogModule ----------------------------
(***************************************************************************)
(* The life of dsplog.ko: amba_dsplog_init takes one resource after        *)
(* another.  Any of them may be refused; each error path then gives back,  *)
(* call by call, the resources it names, as amba_dsplog_exit does in the   *)
(* end.  In between the module is DsplogRegistry.                          *)
(*                                                                         *)
(* The character device works from cdev_add to cdev_del: before dsplog_init *)
(* has made G_dsplog_read_queue a list, and while a module that failed to  *)
(* load is still giving its resources back.                                *)
(***************************************************************************)
EXTENDS DsplogRegistry

VARIABLES
  mod,             \* how far amba_dsplog_init or amba_dsplog_exit has come
  held,            \* what the module holds of the device model
  todo,            \* what the error path, or exit, has still to give back
  ops_registered,  \* the iav driver has amba_dsplog_ops
  exited,          \* history: amba_dsplog_exit has run
  early,           \* history: a file was opened before the module had loaded
  leaked,          \* history: instances were left behind when the module went
  oops             \* history: a use of the queue before it was a list, or of
                   \* the code of a module that is gone; the kernel stops

lifeVars == <<mod, held, todo, ops_registered, exited, early, leaked, oops>>
moduleVars == <<registryVars, lifeVars>>

\* The queue is a list from dsplog_init on.
QueueReady == mod \in {"queue", "live", "refused", "exiting"}

\* An error path of amba_dsplog_create_dev, the one of amba_dsplog_init, or
\* amba_dsplog_exit is giving resources back.
Leaving == {"failing", "refused", "exiting"}

\* The resources in the order they are taken.
Resources == <<"region", "cdev", "class", "device">>

\* amba_dsplog_remove_dev.
RemoveDev == <<"device", "class", "cdev", "region">>

----------------------------------------------------------------------------
(* amba_dsplog_create_dev and amba_dsplog_init.                            *)

\* The next resource is taken ...
Take(resource) ==
  /\ mod' = resource /\ held' = held \union {resource}
  /\ UNCHANGED todo

\* ... or refused, and the error path gives the listed ones back.
Refused(list) ==
  /\ mod' = "failing" /\ todo' = list
  /\ UNCHANGED held

AllocRegion == mod = "out" /\ (Take("region") \/ Refused(<<>>))
AddCdev == mod = "region" /\ (Take("cdev") \/ Refused(<<"region">>))

\* Faulty: the error path leaves the character device in place.
CreateClassForgetsCdev == mod = "cdev" /\ (Take("class") \/ Refused(<<"region">>))

CreateClass == mod = "cdev" /\ (Take("class") \/ Refused(<<"cdev", "region">>))
CreateDevice == mod = "class" /\ (Take("device") \/ Refused(<<"class", "cdev", "region">>))

CreateDev ==
  /\ AllocRegion \/ AddCdev \/ CreateClass \/ CreateDevice
  /\ UNCHANGED <<registryVars, ops_registered, exited, early, leaked, oops>>

\* dsplog_init: INIT_LIST_HEAD.  It does not fail.
InitQueue ==
  /\ mod = "device" /\ mod' = "queue"
  /\ queue' = <<>>
  /\ UNCHANGED <<open, priv, timer_initialized, rel, shared, held, todo, ops_registered, exited,
                 early, leaked, oops>>

\* iav_register_dsplog_ops; when it fails only the device is removed.
RegisterOps ==
  /\ mod = "queue"
  /\ \/ mod' = "live" /\ ops_registered' = TRUE /\ UNCHANGED todo
     \/ mod' = "refused" /\ todo' = RemoveDev /\ UNCHANGED ops_registered
  /\ UNCHANGED <<registryVars, held, exited, early, leaked, oops>>

----------------------------------------------------------------------------
(* amba_dsplog_exit: open files keep the module, so nobody uses it.        *)

\* Faulty: the kernel does not count the users (no .owner).
UnusedIgnored == TRUE

Unused == open = {} /\ Releasing = {}

\* Faulty: the timer is left to itself.
DeinitQueueOnly ==
  /\ mod = "live" /\ Unused /\ mod' = "exiting" /\ todo' = RemoveDev
  /\ queue' = <<>>
  /\ UNCHANGED <<open, priv, timer_initialized, rel, shared, held, ops_registered, exited, early,
                 leaked, oops>>

\* dsplog_deinit.
DeinitQueue ==
  /\ mod = "live" /\ Unused /\ mod' = "exiting" /\ todo' = RemoveDev
  /\ queue' = <<>> /\ timer_initialized' = 0
  /\ UNCHANGED <<open, priv, rel, shared, held, ops_registered, exited, early, leaked, oops>>

----------------------------------------------------------------------------
(* The end of either path.                                                 *)

\* device_destroy, class_destroy, cdev_del or unregister_chrdev_region.
GiveBack ==
  /\ mod \in Leaving /\ todo # <<>>
  /\ held' = held \ {Head(todo)} /\ todo' = Tail(todo)
  /\ UNCHANGED <<registryVars, mod, ops_registered, exited, early, leaked, oops>>

\* The memory of the module is freed.  Instances still in the queue are
\* out of reach for good; a timer still running, or a file still open,
\* goes on into code that is no longer there.  The operations stay with
\* the iav driver.
Vanish ==
  /\ mod \in Leaving /\ todo = <<>>
  /\ mod' = "out" /\ exited' = (exited \/ mod = "exiting")
  /\ leaked' = (leaked \/ queue # <<>>)
  /\ oops' = (open # {} \/ Releasing # {} \/ timer_initialized = 1)
  /\ IF oops' THEN UNCHANGED <<queue, timer_initialized>> ELSE queue' = <<>> /\ timer_initialized' = 0
  /\ UNCHANGED <<open, priv, rel, shared, held, todo, ops_registered, early>>

----------------------------------------------------------------------------
(* The users.                                                              *)

\* A module that is on its way out is not opened; one that has failed to
\* load still is.
OpenDevice(f) ==
  /\ "cdev" \in held /\ mod # "exiting"
  /\ OpenFile(f)
  /\ early' = IF mod = "live" THEN early ELSE TRUE
  /\ UNCHANGED <<mod, held, todo, ops_registered, exited, leaked, oops>>

UseDevice(f) ==
  /\ QueueReady
  /\ \/ Start(f) \/ StopCap(f)
     \/ \E c \in Cores : SetDspCore(f, c)
     \/ ReleaseFile(f) \/ ReleaseStep(f)
  /\ UNCHANGED lifeVars

\* SET_DSP_CORE, START and close() walk the queue; its head is still zero.
UseTooEarly(f) ==
  /\ ~ QueueReady /\ f \in open
  /\ oops' = TRUE
  /\ UNCHANGED <<registryVars, mod, held, todo, ops_registered, exited, early, leaked>>

----------------------------------------------------------------------------

ModuleInit ==
  /\ RegistryInit
  /\ mod = "out" /\ held = {} /\ todo = <<>> /\ ops_registered = FALSE
  /\ exited = FALSE /\ early = FALSE /\ leaked = FALSE /\ oops = FALSE

ModuleNext ==
  /\ oops = FALSE
  /\ \/ CreateDev \/ InitQueue \/ RegisterOps
     \/ DeinitQueue \/ GiveBack \/ Vanish
     \/ \E f \in Files : OpenDevice(f) \/ UseDevice(f) \/ UseTooEarly(f)

ModuleSpec == ModuleInit /\ [][ModuleNext]_moduleVars

----------------------------------------------------------------------------
(* Properties.                                                             *)

\* Whichever step of amba_dsplog_init is refused, the error path gives back
\* just what the steps before had taken, and so does amba_dsplog_exit: the
\* region outlives the character device, that the class, that the device
\* node, none of them outlives the module, and iav gets the operations of
\* no module that did not load.
NothingLeft ==
  /\ \E n \in 0..Len(Resources) : held = {Resources[i] : i \in 1..n}
  /\ mod = "out" => held = {} /\ (ops_registered = TRUE => exited = TRUE)

\* Neither a failed init nor exit leaves instances, a running timer or an
\* open file behind, over any number of lives of the module, unless a file
\* was opened before the module had loaded.
GoesCleanly == early = FALSE => leaked = FALSE /\ oops = FALSE

\* The module as its users see it is DsplogRegistry, in which files are open
\* or the module is reloaded and never both.
RefinesRegistry == RegistrySpec
=============================================================================
