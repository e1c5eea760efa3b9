--------------------------- MODULE E1000Lifecycle ---------------------------
(***************************************************************************)
(* The life cycle of the Linux e1000 driver (doc/systems/e1000/Linux/mod.c):*)
(* the PCI probe and removal, the opening and closing of the interface,    *)
(* the interrupt handler and the tasklet it defers its work to.            *)
(*                                                                         *)
(* The kernel is external: open, close and unregister_netdev are run one   *)
(* at a time (rtnl lock), free_irq waits for a running handler,            *)
(* tasklet_disable waits for a running tasklet, and a tasklet stays in the *)
(* softirq's list while it is disabled.                                    *)
(***************************************************************************)
EXTENDS Naturals, FiniteSets

CONSTANT Causes    \* the interrupt causes that IMS_REG unmasks

VARIABLES
  ppc,      \* where probe or remove is
  netdev,   \* is the network device registered?
  bar,      \* data->bar: "unset", "null" (ioremap failed) or "mapped"
  lpc, up,  \* where open or close is; does the kernel hold the interface up?
  rx,       \* RCTL_ENABLE: the card writes received frames to the ring
  ring,     \* the memory of the ring the card knows: "none", "alloc", "freed"
  irq,      \* request_irq has installed the handler
  ims, icr, \* interrupts unmasked; causes pending in the card
  hpc, intr, old,  \* the handler, its local intr and the waiting_intr it read
  waiting,  \* data->waiting_intr
  sched, queued, disabled,  \* the tasklet's SCHED bit, is it in the list, count > 0
  tpc, untested,  \* the tasklet's body, and the causes it has not tested for yet
  oops,     \* how the kernel has crashed, or "no"
  stale,    \* history: some close left the tasklet in the list
  unseen,   \* history: causes recorded and not found by a test of intr_task since
  late      \* history: those recorded between their own test and the clear

pci     == <<ppc, netdev, bar>>
queue   == <<rx, ring>>
handler == <<hpc, intr, old>>
tasklet == <<sched, queued, disabled, tpc, untested>>
seen    == <<unseen, late>>
vars == <<pci, lpc, up, queue, irq, ims, icr, handler, waiting, tasklet, oops, stale, seen>>

Init ==
  /\ ppc = "unbound" /\ netdev = FALSE /\ bar = "unset"
  /\ lpc = "idle" /\ up = FALSE
  /\ rx = FALSE /\ ring = "none"
  /\ irq = FALSE /\ ims = FALSE /\ icr = {}
  /\ hpc = "idle" /\ intr = {} /\ old = {}
  /\ waiting = {}
  /\ sched = FALSE /\ queued = FALSE /\ disabled = FALSE
  /\ tpc = "idle" /\ untested = {}
  /\ oops = "no" /\ stale = FALSE
  /\ unseen = {} /\ late = {}
-----------------------------------------------------------------------------
(***************************************************************************)
(* probe and remove.                                                       *)
(***************************************************************************)

\* register_hw (its errors change nothing here); from here on the interface can
\* be opened, with a data that is all zero.
RegisterHw ==
  /\ ppc = "unbound"
  /\ ppc' = "enable" /\ netdev' = TRUE /\ bar' = "unset"
  /\ waiting' = {} /\ sched' = FALSE /\ disabled' = FALSE
  /\ unseen' = {} /\ late' = {}
  /\ UNCHANGED <<lpc, up, queue, irq, ims, icr, handler, queued, tpc, untested, oops, stale>>

\* pci_enable_device and pci_request_region; their errors leave the device
\* registered, and the PCI core will not call remove.
EnableDevice ==
  /\ ppc = "enable"
  /\ ppc' \in {"map", "failed"}
  /\ UNCHANGED <<netdev, bar, lpc, up, queue, irq, ims, icr, handler, waiting, tasklet, oops, stale, seen>>

\* The rest of probe; the result of pci_ioremap_bar is not tested.
MapBar ==
  /\ ppc = "map"
  /\ ppc' = "bound"
  /\ bar' \in {"mapped", "null"}
  /\ waiting' = {} /\ unseen' = {} /\ late' = {}
  /\ UNCHANGED <<netdev, lpc, up, queue, irq, ims, icr, handler, tasklet, oops, stale>>

\* unload_hw: unregister_netdev closes the interface if it is up ...
RemoveBegin ==
  /\ ppc = "bound" /\ lpc = "idle"
  /\ ppc' = "remove"
  /\ lpc' = IF up THEN "free_irq" ELSE "idle"
  /\ UNCHANGED <<netdev, bar, up, queue, irq, ims, icr, handler, waiting, tasklet, oops, stale, seen>>

\* ... and free_netdev frees data: if the tasklet in it is in the list, or running,
\* the next softirq works on freed memory.
RemoveEnd ==
  /\ ppc = "remove" /\ lpc = "idle"
  /\ ppc' = "unbound" /\ netdev' = FALSE
  /\ oops' = IF queued \/ tpc # "idle" THEN "freed" ELSE oops
  /\ UNCHANGED <<bar, lpc, up, queue, irq, ims, icr, handler, waiting, tasklet, stale, seen>>
-----------------------------------------------------------------------------
(***************************************************************************)
(* e1000_open.                                                             *)
(***************************************************************************)

\* init_hw up to the queues: the first register access needs the mapping.
OpenInitHw ==
  /\ netdev /\ ppc # "remove" /\ ~up /\ lpc = "idle"
  /\ IF bar = "mapped" THEN lpc' = "init_queue" /\ UNCHANGED oops
                       ELSE oops' = "bar" /\ UNCHANGED lpc
  /\ UNCHANGED <<pci, up, queue, irq, ims, icr, handler, waiting, tasklet, stale, seen>>

\* init_queue fails (no DMA mask, no memory) before or after it has told the
\* card where the receive ring is; nothing is freed.
InitQueueFails ==
  /\ lpc = "init_queue"
  /\ lpc' = "idle"
  /\ ring' \in {ring, "alloc"}
  /\ UNCHANGED <<pci, up, rx, irq, ims, icr, handler, waiting, tasklet, oops, stale, seen>>

InitQueue ==
  /\ lpc = "init_queue"
  /\ lpc' = "init_interrupt"
  /\ ring' = "alloc" /\ rx' = TRUE
  /\ UNCHANGED <<pci, up, irq, ims, icr, handler, waiting, tasklet, oops, stale, seen>>

\* tasklet_init resets the tasklet, but does not take it out of the list.
InitInterrupt ==
  /\ lpc = "init_interrupt"
  /\ sched' = FALSE /\ disabled' = FALSE
  /\ \/ irq' = TRUE /\ lpc' = "unmask"
     \/ lpc' = "idle" /\ UNCHANGED irq                  \* request_irq fails
  /\ UNCHANGED <<pci, up, queue, ims, icr, handler, waiting, queued, tpc, untested, oops, stale, seen>>

\* The end of init_interrupt; from here on there are interrupts.
UnmaskInterrupts ==
  /\ lpc = "unmask"
  /\ ims' = TRUE
  /\ lpc' = "opened"
  /\ UNCHANGED <<pci, up, queue, irq, icr, handler, waiting, tasklet, oops, stale, seen>>

\* The queue is started, and the kernel takes the interface to be up.
OpenEnds ==
  /\ lpc = "opened"
  /\ up' = TRUE
  /\ lpc' = "idle"
  /\ UNCHANGED <<pci, queue, irq, ims, icr, handler, waiting, tasklet, oops, stale, seen>>
-----------------------------------------------------------------------------
(***************************************************************************)
(* e1000_close.                                                            *)
(***************************************************************************)
Close ==
  /\ up /\ lpc = "idle" /\ ppc # "remove"
  /\ lpc' = "free_irq"
  /\ UNCHANGED <<pci, up, queue, irq, ims, icr, handler, waiting, tasklet, oops, stale, seen>>

\* Mutant: a running handler is not waited for.
FreeIrq_NoWait ==
  /\ lpc = "free_irq"
  /\ irq' = FALSE
  /\ lpc' = "disable"
  /\ UNCHANGED <<pci, up, queue, ims, icr, handler, waiting, tasklet, oops, stale, seen>>

FreeIrq ==
  /\ lpc = "free_irq" /\ hpc = "idle"
  /\ irq' = FALSE
  /\ lpc' = "disable"
  /\ UNCHANGED <<pci, up, queue, ims, icr, handler, waiting, tasklet, oops, stale, seen>>

\* Mutant: uninit_interrupt without tasklet_disable.
TaskletDisable_None ==
  /\ lpc = "disable"
  /\ lpc' = "uninit_queue"
  /\ UNCHANGED <<pci, up, queue, irq, ims, icr, handler, waiting, tasklet, oops, stale, seen>>

\* tasklet_disable waits for the body; a scheduled tasklet stays in the list.
TaskletDisable ==
  /\ lpc = "disable" /\ tpc = "idle"
  /\ disabled' = TRUE
  /\ stale' = (stale \/ queued)
  /\ lpc' = "uninit_queue"
  /\ UNCHANGED <<pci, up, queue, irq, ims, icr, handler, waiting, sched, queued, tpc, untested, oops,
                 seen>>

\* Mutant: the rings are freed before the receiver is turned off.
UninitQueue_FreeFirst ==
  /\ lpc = "uninit_queue"
  /\ ring' = "freed"
  /\ lpc' = "free_queue"
  /\ UNCHANGED <<pci, up, rx, irq, ims, icr, handler, waiting, tasklet, oops, stale, seen>>

\* uninit_queue turns the receiver and the transmitter off ...
UninitQueue ==
  /\ lpc = "uninit_queue"
  /\ rx' = FALSE
  /\ lpc' = "free_queue"
  /\ UNCHANGED <<pci, up, ring, irq, ims, icr, handler, waiting, tasklet, oops, stale, seen>>

\* ... and frees the rings.
FreeQueue ==
  /\ lpc = "free_queue"
  /\ ring' = "freed"
  /\ lpc' = "reset"
  /\ UNCHANGED <<pci, up, rx, irq, ims, icr, handler, waiting, tasklet, oops, stale, seen>>

\* CTRL_RST resets the card, its interrupt mask and causes included.
ResetCard ==
  /\ lpc = "reset"
  /\ ims' = FALSE /\ icr' = {} /\ up' = FALSE
  /\ lpc' = "idle"
  /\ UNCHANGED <<pci, queue, irq, handler, waiting, tasklet, oops, stale, seen>>
-----------------------------------------------------------------------------
(***************************************************************************)
(* The interrupt handler and the tasklet.                                  *)
(***************************************************************************)
CardInterrupts ==
  /\ ims
  /\ \E c \in Causes \ icr : icr' = icr \cup {c}
  /\ UNCHANGED <<pci, lpc, up, queue, irq, ims, handler, waiting, tasklet, oops, stale, seen>>

\* The line is shared: the handler may find no cause and leave.
HandlerRead ==
  /\ irq /\ hpc = "idle"
  /\ intr' = icr /\ icr' = {}
  /\ hpc' = IF icr = {} THEN "idle" ELSE "load"
  /\ UNCHANGED <<pci, lpc, up, queue, irq, ims, old, waiting, tasklet, oops, stale, seen>>

\* waiting_intr |= intr is a load and a store, with no lock against the tasklet.
HandlerLoad ==
  /\ hpc = "load"
  /\ old' = waiting
  /\ hpc' = "store"
  /\ UNCHANGED <<pci, lpc, up, queue, irq, ims, icr, intr, waiting, tasklet, oops, stale, seen>>

\* The causes that intr_task, in its tests, will not come to any more.
TestedFor(c) == tpc = "tests" /\ c \notin untested

\* Mutant: when causes are waiting already, the tasklet is taken to be scheduled.
HandlerStore_NoSchedule ==
  /\ hpc = "store"
  /\ waiting' = old \cup intr
  /\ unseen' = unseen \cup intr
  /\ late' = (late \ intr) \cup {c \in intr : TestedFor(c)}
  /\ hpc' = IF old = {} THEN "schedule" ELSE "idle"
  /\ UNCHANGED <<pci, lpc, up, queue, irq, ims, icr, intr, old, tasklet, oops, stale>>

HandlerStore ==
  /\ hpc = "store"
  /\ waiting' = old \cup intr
  /\ unseen' = unseen \cup intr
  /\ late' = (late \ intr) \cup {c \in intr : TestedFor(c)}
  /\ hpc' = "schedule"
  /\ UNCHANGED <<pci, lpc, up, queue, irq, ims, icr, intr, old, tasklet, oops, stale>>

\* tasklet_schedule does nothing when the tasklet is scheduled already.
HandlerSchedule ==
  /\ hpc = "schedule"
  /\ IF sched THEN UNCHANGED <<sched, queued>> ELSE sched' = TRUE /\ queued' = TRUE
  /\ hpc' = "idle"
  /\ UNCHANGED <<pci, lpc, up, queue, irq, ims, icr, intr, old, waiting, disabled, tpc,
                 untested, oops, stale, seen>>

\* The softirq takes the tasklet from the list and runs it unless it is
\* disabled; it stops the kernel when the SCHED bit is not set.
TaskletStart ==
  /\ queued /\ tpc = "idle" /\ ~ disabled
  /\ IF sched
     THEN sched' = FALSE /\ queued' = FALSE /\ tpc' = "body" /\ UNCHANGED oops
     ELSE oops' = "tasklet" /\ UNCHANGED <<sched, queued, tpc>>
  /\ UNCHANGED <<pci, lpc, up, queue, irq, ims, icr, handler, waiting, disabled, untested,
                 stale, seen>>

\* Mutant: the causes are cleared before they are tested for.
IntrTask_ClearFirst ==
  /\ tpc = "body"
  /\ IF waiting = {} THEN tpc' = "idle" /\ UNCHANGED <<untested, waiting>>
                     ELSE tpc' = "tests" /\ untested' = Causes /\ waiting' = {}
  /\ UNCHANGED <<pci, lpc, up, queue, irq, ims, icr, handler, sched, queued, disabled,
                 oops, stale, seen>>

\* intr_task returns at once when no cause is recorded.
IntrTask ==
  /\ tpc = "body"
  /\ IF waiting = {} THEN tpc' = "idle" /\ UNCHANGED untested
                     ELSE tpc' = "tests" /\ untested' = Causes
  /\ UNCHANGED <<pci, lpc, up, queue, irq, ims, icr, handler, waiting, sched, queued, disabled,
                 oops, stale, seen>>

\* Each test reads waiting_intr again; the causes of one "if" may be tested for apart.
IntrTest(c) ==
  /\ tpc = "tests" /\ c \in untested
  /\ untested' = untested \ {c}
  /\ unseen' = IF c \in waiting THEN unseen \ {c} ELSE unseen
  /\ late' = IF c \in waiting THEN late \ {c} ELSE late
  /\ UNCHANGED <<pci, lpc, up, queue, irq, ims, icr, handler, waiting, sched, queued, disabled,
                 tpc, oops, stale>>

\* waiting_intr = 0 forgets all that is recorded by then, tested for or not.
IntrTaskClear ==
  /\ tpc = "tests" /\ untested = {}
  /\ waiting' = {}
  /\ tpc' = "idle"
  /\ UNCHANGED <<pci, lpc, up, queue, irq, ims, icr, handler, sched, queued, disabled, untested,
                 oops, stale, seen>>

Crashed == oops # "no" /\ UNCHANGED vars

ProbeRemove == RegisterHw \/ EnableDevice \/ MapBar \/ RemoveBegin \/ RemoveEnd
Open    == \/ OpenInitHw \/ InitQueueFails \/ InitQueue \/ InitInterrupt
           \/ UnmaskInterrupts \/ OpenEnds
Closing == FreeIrq \/ TaskletDisable \/ UninitQueue \/ FreeQueue \/ ResetCard
Handler == HandlerRead \/ HandlerLoad \/ HandlerStore \/ HandlerSchedule
Tasklet == TaskletStart \/ IntrTask \/ (\E c \in Causes : IntrTest(c)) \/ IntrTaskClear

Next ==
  \/ oops = "no" /\ (ProbeRemove \/ Open \/ Close \/ Closing \/ CardInterrupts \/ Handler \/ Tasklet)
  \/ Crashed

Spec == Init /\ [][Next]_vars
-----------------------------------------------------------------------------
\* The type invariant.
TypeOK ==
  /\ ppc \in {"unbound", "enable", "map", "bound", "failed", "remove"}
  /\ netdev \in BOOLEAN /\ bar \in {"unset", "null", "mapped"}
  /\ lpc \in {"idle", "init_queue", "init_interrupt", "unmask", "opened", "free_irq", "disable",
            "uninit_queue", "free_queue", "reset"}
  /\ up \in BOOLEAN /\ rx \in BOOLEAN /\ ring \in {"none", "alloc", "freed"}
  /\ irq \in BOOLEAN /\ ims \in BOOLEAN /\ icr \in SUBSET Causes
  /\ hpc \in {"idle", "load", "store", "schedule"}
  /\ intr \in SUBSET Causes /\ old \in SUBSET Causes /\ waiting \in SUBSET Causes
  /\ sched \in BOOLEAN /\ queued \in BOOLEAN /\ disabled \in BOOLEAN
  /\ tpc \in {"idle", "body", "tests"} /\ untested \in SUBSET Causes
  /\ oops \in {"no", "bar", "tasklet", "freed"} /\ stale \in BOOLEAN
  /\ unseen \in SUBSET Causes /\ late \in SUBSET Causes

\* The card never writes to a receive ring that uninit_queue has freed, whichever
\* of the steps of open fails, and however often the interface is opened.
DmaSafe == rx => ring = "alloc"

\* intr_task only runs between request_irq and the end of uninit_interrupt, so
\* never when the queues are gone or data has been freed by remove.
TaskletWhileOpen ==
  tpc # "idle" => netdev /\ bar = "mapped" /\ ring = "alloc" /\ (up \/ lpc = "opened")

\* The kernel only crashes in the tasklet code when an earlier close left the
\* tasklet in the list, and only for want of a mapping when the interface is
\* opened before probe has got to it, after probe has failed, or ioremap failed:
\* every other order of irq, tasklet, close, open, remove and probe is safe.
CrashNeedsCause ==
  /\ oops \in {"tasklet", "freed"} => stale
  /\ oops = "bar" => bar = "null" \/ ppc \in {"enable", "map", "failed"}

\* A cause that handler recorded and no test of intr_task has found is still in
\* waiting_intr, and a test for it is to come, although handler and tasklet change
\* waiting_intr without a lock.  The one exception is a cause recorded after the
\* tests for it and before waiting_intr = 0 (mod.c:112-126), which that erases.
NoCauseForgotten ==
  up /\ lpc = "idle" /\ ~ stale =>
    \A c \in unseen \ late :
      /\ c \in waiting
      /\ queued \/ tpc = "body" \/ (tpc = "tests" /\ c \in untested) \/ hpc = "schedule"

\* A recorded cause, unless it comes in between its tests and the clear, is found by
\* a test of intr_task, or the interface is closed or the kernel crashes first,
\* however many interrupts follow.
CausesServed ==
  \A c \in Causes :
    (c \in unseen \ late /\ up) ~> (c \notin unseen \/ lpc # "idle" \/ oops # "no")
=============================================================================
