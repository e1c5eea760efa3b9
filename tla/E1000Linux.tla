----------------------------- MODULE E1000Linux -----------------------------
(***************************************************************************)
(* The Linux e1000 driver as a whole: the life cycle of the interface      *)
(* (E1000Lifecycle) and the rings it transmits and receives through        *)
(* (E1000Queues), which share the switch that RCTL and TCTL are, init_queue*)
(* and uninit_queue.                                                       *)
(*                                                                         *)
(* The kernel (external) calls start_xmit between netif_start_queue and    *)
(* close, and waits for a call that is running before it closes.           *)
(***************************************************************************)
EXTENDS E1000Queues

CONSTANT Causes    \* the interrupt causes that IMS_REG unmasks

VARIABLES
  ppc, netdev, bar, lpc, up, ring, irq, ims, icr, hpc, intr, old, waiting,
  sched, listed, disabled, tpc, untested, oops, stale, unseen, late    \* see E1000Lifecycle

Life == INSTANCE E1000Lifecycle WITH rx <- open, queued <- listed

lifeVars == <<ppc, netdev, bar, lpc, up, ring, irq, ims, icr, hpc, intr, old, waiting,
              sched, listed, disabled, tpc, untested, oops, stale, unseen, late>>
ringVars == <<send, recv, xpc, tail, calls, queued, passed, wire, overrun>>
allVars  == <<open, lifeVars, ringVars>>

DriverInit == Init /\ Life!Init
-----------------------------------------------------------------------------
\* What both halves do together.
OpenQueues == Life!InitQueue /\ InitQueue

\* Mutant: uninit_queue frees the rings before it turns the receiver off.
CloseQueues_FreeFirst == Life!UninitQueue_FreeFirst /\ UNCHANGED ringVars

CloseQueues == Life!UninitQueue /\ UninitQueue

\* Mutant: a call of start_xmit that is running is not waited for.
StopInterface_NoWait ==
  /\ Life!Close \/ Life!RemoveBegin
  /\ UNCHANGED ringVars

\* dev_close and unregister_netdev wait for start_xmit, and then close.
StopInterface ==
  /\ xpc = "idle"
  /\ Life!Close \/ Life!RemoveBegin
  /\ UNCHANGED ringVars

\* What leaves the rings alone.
Manage ==
  /\ \/ Life!RegisterHw \/ Life!EnableDevice \/ Life!MapBar \/ Life!RemoveEnd
     \/ Life!OpenInitHw \/ Life!InitQueueFails \/ Life!InitInterrupt
     \/ Life!UnmaskInterrupts \/ Life!OpenEnds
  /\ UNCHANGED ringVars

Shutdown ==
  /\ Life!FreeIrq \/ Life!TaskletDisable \/ Life!FreeQueue \/ Life!ResetCard
  /\ UNCHANGED ringVars
Interrupt == (Life!CardInterrupts \/ Life!HandlerRead) /\ UNCHANGED ringVars
Handle == (Life!HandlerLoad \/ Life!HandlerStore \/ Life!HandlerSchedule) /\ UNCHANGED ringVars
Softirq == Life!Tasklet /\ UNCHANGED ringVars

\* What leaves the life cycle alone.
StartXmit == up /\ lpc = "idle" /\ XmitBegin /\ UNCHANGED lifeVars
GoOnXmit  == (XmitFill \/ XmitKick) /\ UNCHANGED lifeVars
Send      == CardSend /\ UNCHANGED lifeVars
Receive   == CardReceive /\ UNCHANGED lifeVars

Crashed == oops # "no" /\ UNCHANGED allVars

DriverNext ==
  \/ /\ oops = "no"
     /\ \/ OpenQueues \/ CloseQueues \/ StopInterface \/ Manage \/ Shutdown
        \/ Interrupt \/ Handle \/ Softirq
        \/ StartXmit \/ GoOnXmit \/ Send \/ Receive
  \/ Crashed

DriverSafety == DriverInit /\ [][DriverNext]_allVars

\* A handler, a tasklet, a close and a call of start_xmit that have started go
\* on, softirqs run, and the card goes on sending.
DriverSpec ==
  /\ DriverSafety
  /\ WF_allVars(oops = "no" /\ Handle)
  /\ WF_allVars(oops = "no" /\ Softirq)
  /\ WF_allVars(oops = "no" /\ (Shutdown \/ CloseQueues))
  /\ WF_allVars(oops = "no" /\ GoOnXmit)
  /\ WF_allVars(oops = "no" /\ Send)
-----------------------------------------------------------------------------
(* The promises of the life cycle, kept while frames are sent.              *)

\* The card never writes to a receive ring that uninit_queue has freed.
DmaSafe == Life!DmaSafe

\* intr_task only runs between request_irq and the end of uninit_interrupt.
TaskletWhileOpen == Life!TaskletWhileOpen

\* The kernel only crashes for the known reasons.
CrashNeedsCause == Life!CrashNeedsCause

\* A recorded interrupt cause that is not seen yet has a test for it to come,
\* unless it was recorded between that test and waiting_intr = 0.
NoCauseForgotten == Life!NoCauseForgotten

\* What the handler records, in that window excepted, is seen by intr_task, unless
\* the interface is closed.
CausesServed == Life!CausesServed

\* start_xmit never works on rings that are freed or not yet made, nor on a card
\* that is not mapped, and never while the interface is being opened or closed:
\* the descriptor it fills is one the card will look at.
XmitOnLiveRing ==
  xpc # "idle" => /\ open /\ ring = "alloc" /\ netdev /\ bar = "mapped"
                  /\ up /\ lpc = "idle" /\ tail = TDT

\* The card gets to every descriptor that start_xmit hands over, however many more
\* follow, unless the ring is overrun, the interface closed or the kernel crashed
\* first: a tail that is moved while the card walks is never lost.
HandedOverPassed ==
  \A n \in 1..MaxCalls :
    (open /\ queued >= n) ~> (passed >= n \/ overrun \/ ~ open \/ oops # "no")
=============================================================================
