-------------------------- MODULE E1000LinuxProofs --------------------------
(***************************************************************************)
(* Proofs about the Linux e1000 driver: its descriptor rings (E1000Queues),*)
(* for every size of the rings and every number of frames; its life cycle  *)
(* (E1000Lifecycle), for any set of interrupt causes; and the composition, *)
(* which behaves like each of its halves, so that what is proved of the    *)
(* halves holds of it, and what start_xmit relies on holds because of both.*)
(***************************************************************************)
EXTENDS E1000Linux, TLAPS

\* What the driver does to its tail.
LEMMA NextTail ==
  ASSUME NEW n \in Nat, n > 0, NEW t \in 0..n - 1
  PROVE  (t + 1) % n = IF t + 1 = n THEN 0 ELSE t + 1
<1>1. CASE t + 1 = n
  BY <1>1
<1>2. CASE t + 1 # n
  BY <1>2
<1> QED  BY <1>1, <1>2

\* How many descriptors lie between head and tail, in the three ways these can
\* lie: the tail ahead of the head, the tail wrapped, and the head past the
\* driver's ring.
Window ==
  /\ TDH <= TDT => queued = passed + (TDT - TDH)
  /\ TDH > TDT /\ TDH < NB_SND_DESC => queued = passed + (NB_SND_DESC - TDH) + TDT
  /\ TDH >= NB_SND_DESC => queued = passed + TDT

RingInv == open /\ ~ overrun => queued - passed < NB_SND_DESC /\ Window

\* A call of start_xmit is filling the descriptor at the tail.
XmitInv == xpc # "idle" => open /\ tail = TDT

IInv == TypeOK /\ XmitInv /\ RingInv

USE SendAssumption, RecvAssumption DEF send, recv

LEMMA InvInit == Init => IInv
<1> SUFFICES ASSUME Init PROVE IInv
  OBVIOUS
<1>1. TypeOK
  <2>1. length \in [0..NB_SND_DESC - 1 -> BOOLEAN]
    BY Zenon DEF Init
  <2>2. buff \in [0..NB_SND_DESC - 1 -> Nat] /\ wire \in Seq(Nat)
    BY DEF Init
  <2>3. open \in BOOLEAN /\ overrun \in BOOLEAN /\ received \in SUBSET (0..RecvSlots - 1)
    BY Zenon DEF Init
  <2>4. /\ TDH \in 0..SendSlots - 1 /\ TDT \in 0..NB_SND_DESC - 1 /\ tail \in 0..NB_SND_DESC - 1
        /\ RDH \in 0..RecvSlots - 1 /\ RDT \in 0..NB_RCV_DESC - 1
    BY DEF Init
  <2> QED  BY <2>1, <2>2, <2>3, <2>4 DEF Init, TypeOK
<1> QED  BY <1>1 DEF Init, XmitInv, RingInv, IInv

\* What the card reads is the frame of a descriptor, or none.
LEMMA CardFindsNat == ASSUME TypeOK, NEW k PROVE CardFinds(k) \in Nat
<1> DEFINE Here == {d \in 0..NB_SND_DESC - 1 :
                      length[d] /\ k * CardDesc = d * SizeofSend /\ CardCommand = OffsetofCommand}
<1>1. CardFinds(k) = IF Here = {} THEN NoFrame ELSE buff[CHOOSE d \in Here : TRUE]
  BY DEF CardFinds
<1>2. CASE Here = {}
  BY <1>1, <1>2 DEF NoFrame
<1>3. CASE Here # {}
  <2>1. PICK d : d = CHOOSE e \in Here : TRUE
    OBVIOUS
  <2>2. d \in Here
    BY <1>3, <2>1, Zenon
  <2>3. d \in 0..NB_SND_DESC - 1
    BY <2>2
  <2>4. CardFinds(k) = buff[d]
    BY <1>1, <1>3, <2>1, Zenon
  <2> QED  BY <2>3, <2>4 DEF TypeOK
<1> QED  BY <1>2, <1>3

LEMMA TypeNext ==
  ASSUME TypeOK, Next PROVE TypeOK'
<1>1. CASE InitQueue
  <2>1. open' \in BOOLEAN /\ overrun' \in BOOLEAN
    BY <1>1, Zenon DEF InitQueue
  <2>2. length' \in [0..NB_SND_DESC - 1 -> BOOLEAN]
    BY <1>1, Zenon DEF InitQueue
  <2> QED  BY <1>1, <2>1, <2>2 DEF TypeOK, InitQueue
<1>2. CASE UninitQueue
  BY <1>2, Zenon DEF TypeOK, UninitQueue
<1>3. CASE XmitBegin
  BY <1>3 DEF TypeOK, XmitBegin
<1>4. CASE XmitFill
  BY <1>4 DEF TypeOK, XmitFill
<1>5. CASE XmitKick
  <2>1. TDT' \in 0..NB_SND_DESC - 1
    BY <1>5, NextTail DEF TypeOK, XmitKick
  <2>2. overrun' \in BOOLEAN
    BY <1>5, Zenon DEF XmitKick
  <2> QED  BY <1>5, <2>1, <2>2 DEF TypeOK, XmitKick
<1>6. CASE CardSend
  <2>1. wire' \in Seq(Nat)
    BY <1>6, CardFindsNat DEF TypeOK, CardSend
  <2>2. TDH' \in 0..SendSlots - 1 /\ passed' \in Nat
    BY <1>6 DEF TypeOK, CardSend
  <2> QED  BY <1>6, <2>1, <2>2 DEF TypeOK, CardSend
<1>7. CASE CardReceive
  <2>1. RDH' \in 0..RecvSlots - 1 /\ received' \in SUBSET (0..RecvSlots - 1)
    BY <1>7 DEF TypeOK, CardReceive
  <2> QED  BY <1>7, <2>1 DEF TypeOK, CardReceive
<1> QED  BY <1>1, <1>2, <1>3, <1>4, <1>5, <1>6, <1>7 DEF Next, Xmit

\* start_xmit tells the card of one descriptor more.
LEMMA KickInv == ASSUME IInv, XmitKick PROVE RingInv'
<1> SUFFICES ASSUME open, ~ overrun' PROVE Window' /\ queued' - passed' < NB_SND_DESC
  BY DEF RingInv, XmitKick
<1>1. /\ TDH \in 0..SendSlots - 1 /\ TDT \in 0..NB_SND_DESC - 1
      /\ queued \in Nat /\ passed \in Nat
  BY DEF IInv, TypeOK
<1>2. ~ overrun /\ ~ (queued + 1 - passed >= NB_SND_DESC)
  BY Zenon DEF XmitKick
<1>3. Window /\ tail = TDT
  BY <1>2 DEF IInv, RingInv, XmitInv, XmitKick
<1>4. TDT' = IF TDT + 1 = NB_SND_DESC THEN 0 ELSE TDT + 1
  BY <1>1, <1>3, NextTail DEF XmitKick
<1>5. queued' = queued + 1 /\ passed' = passed /\ TDH' = TDH
  BY DEF XmitKick
<1> QED  BY <1>1, <1>2, <1>3, <1>4, <1>5 DEF Window

\* The card passes one descriptor.
LEMMA SendInv == ASSUME IInv, CardSend PROVE RingInv'
<1> SUFFICES ASSUME ~ overrun PROVE Window' /\ queued' - passed' < NB_SND_DESC
  BY DEF RingInv, CardSend
<1>1. /\ TDH \in 0..SendSlots - 1 /\ TDT \in 0..NB_SND_DESC - 1
      /\ queued \in Nat /\ passed \in Nat
  BY DEF IInv, TypeOK
<1>2. Window /\ queued - passed < NB_SND_DESC
  BY DEF IInv, RingInv, CardSend
<1>3. /\ TDH # TDT /\ TDT' = TDT /\ queued' = queued
      /\ passed' = IF TDH < NB_SND_DESC THEN passed + 1 ELSE passed
      /\ TDH' = IF TDH + 1 = SendSlots THEN 0 ELSE TDH + 1
  BY DEF CardSend
<1> QED  BY <1>1, <1>2, <1>3 DEF Window

LEMMA InvNext == IInv /\ [Next]_vars => IInv'
<1> SUFFICES ASSUME IInv, [Next]_vars PROVE IInv'
  OBVIOUS
<1>1. CASE UNCHANGED vars
  BY <1>1 DEF vars, IInv, TypeOK, XmitInv, RingInv, Window
<1>2. CASE Next
  <2>1. TypeOK'
    BY <1>2, TypeNext DEF IInv
  <2>2. XmitInv'
    BY <1>2 DEF IInv, XmitInv, Next, InitQueue, UninitQueue, Xmit, XmitBegin, XmitFill, XmitKick,
                CardSend, CardReceive
  <2>3. RingInv'
    <3>1. CASE InitQueue
      BY <3>1 DEF InitQueue, RingInv, Window
    <3>2. CASE UninitQueue \/ XmitBegin \/ XmitFill \/ CardReceive
      <4>1. UNCHANGED <<TDH, TDT, queued, passed, overrun>> /\ (open' => open)
        BY <3>2 DEF UninitQueue, XmitBegin, XmitFill, CardReceive
      <4> QED  BY <4>1 DEF IInv, RingInv, Window
    <3> QED  BY <1>2, <3>1, <3>2, KickInv, SendInv DEF Next, Xmit
  <2> QED  BY <2>1, <2>2, <2>3 DEF IInv
<1> QED  BY <1>1, <1>2

\* Every variable keeps its type; in particular the driver's tail, and with it
\* the buffer it copies a frame to, stays below NB_SND_DESC.
THEOREM TypeCorrect == Spec => []TypeOK
<1>1. IInv => TypeOK
  BY DEF IInv
<1> QED  BY <1>1, InvInit, InvNext, PTL DEF Spec

\* The card never takes the ring to be empty while descriptors that start_xmit
\* handed over lie ahead of it, whatever the sizes of the rings, as long as fewer
\* than NB_SND_DESC of them wait in the ring.
THEOREM NoneLeftBehind == Spec => []EmptyWhenPassed
<1>1. IInv => EmptyWhenPassed
  BY DEF IInv, TypeOK, RingInv, Window, EmptyWhenPassed
<1> QED  BY <1>1, InvInit, InvNext, PTL DEF Spec

-----------------------------------------------------------------------------
(* The life cycle, for any set of interrupt causes                         *)

\* Where open and close are, and what that says of the device.
Opening == lpc \in {"init_queue", "init_interrupt", "unmask", "opened"}
LifeInv ==
  /\ up \/ Opening => netdev /\ bar = "mapped" /\ ppc \in {"bound", "remove"}
  /\ Opening => ~ up /\ ppc # "remove"
  /\ lpc \in {"free_irq", "disable", "uninit_queue", "free_queue", "reset"} => up
  /\ ppc = "remove" /\ lpc = "idle" => ~ up
  /\ ppc = "unbound" => ~ netdev
  /\ netdev /\ bar = "mapped" => ppc \in {"bound", "remove"}
  /\ ppc \in {"bound", "remove"} => bar # "unset"
  /\ oops = "bar" => bar = "null" \/ ppc \in {"enable", "map", "failed"}

\* The ring of the card is allocated from init_queue until uninit_queue, which has
\* turned the card off by then, frees it.
LifeRing ==
  /\ open => ring = "alloc" /\ lpc # "free_queue"
  /\ lpc \in {"init_interrupt", "unmask", "opened"} \/ (up /\ lpc # "reset") => ring = "alloc"

\* The handler runs while it is installed, which ends with free_irq; there are
\* causes to read once they are unmasked.
LifeIrq ==
  /\ hpc # "idle" => irq
  /\ irq => (up /\ lpc \in {"idle", "free_irq"}) \/ lpc \in {"unmask", "opened"}
  /\ ims => up \/ lpc = "opened"
  /\ ~ ims => icr = {} /\ hpc = "idle"

\* The tasklet may run from init_interrupt to tasklet_disable.
TaskletMay == (up /\ lpc \in {"idle", "free_irq", "disable"}) \/ lpc = "opened"
LifeTasklet ==
  /\ sched /\ ~ disabled => TaskletMay
  /\ tpc # "idle" => TaskletMay

\* As long as no close has left the tasklet in the list: the list and the SCHED
\* bit agree, and a recorded cause that no test has found, and that came in before
\* its test, is still recorded and will be tested for.
LifeFresh ==
  ~ stale =>
    /\ listed => sched /\ TaskletMay
    /\ sched => listed
    /\ oops \notin {"tasklet", "freed"}
LifeCauses ==
  ~ stale =>
    /\ waiting # {} => listed \/ tpc # "idle" \/ hpc = "schedule"
    /\ unseen \ late \subseteq waiting
    /\ hpc = "store" => unseen \ late \subseteq old
    /\ tpc = "tests" => unseen \ late \subseteq untested

LifeIInv ==
  Life!TypeOK /\ LifeInv /\ LifeRing /\ LifeIrq /\ LifeTasklet /\ LifeFresh /\ LifeCauses

\* The type invariant in two parts: flags, and the other variables.
LifeFlags ==
  /\ netdev \in BOOLEAN /\ up \in BOOLEAN /\ open \in BOOLEAN /\ irq \in BOOLEAN /\ ims \in BOOLEAN
  /\ sched \in BOOLEAN /\ listed \in BOOLEAN /\ disabled \in BOOLEAN /\ stale \in BOOLEAN
LifeValues ==
  /\ ppc \in {"unbound", "enable", "map", "bound", "failed", "remove"}
  /\ bar \in {"unset", "null", "mapped"}
  /\ lpc \in {"idle", "init_queue", "init_interrupt", "unmask", "opened", "free_irq", "disable",
            "uninit_queue", "free_queue", "reset"}
  /\ ring \in {"none", "alloc", "freed"}
  /\ icr \in SUBSET Causes
  /\ hpc \in {"idle", "load", "store", "schedule"}
  /\ intr \in SUBSET Causes /\ old \in SUBSET Causes /\ waiting \in SUBSET Causes
  /\ tpc \in {"idle", "body", "tests"} /\ untested \in SUBSET Causes
  /\ oops \in {"no", "bar", "tasklet", "freed"}
  /\ unseen \in SUBSET Causes /\ late \in SUBSET Causes

USE DEF send, recv, lifeVars, ringVars, allVars,
        Life!pci, Life!queue, Life!handler, Life!tasklet, Life!seen, Life!vars, vars,
        Opening, TaskletMay

LEMMA LifeInit == Life!Init => LifeIInv
  BY Zenon DEF Life!Init, LifeIInv, Life!TypeOK, LifeInv, LifeRing, LifeIrq, LifeTasklet,
          LifeFresh, LifeCauses

LEMMA LifeProbeRemove == LifeIInv /\ oops = "no" /\ Life!ProbeRemove => LifeIInv'
<1> SUFFICES ASSUME LifeIInv, oops = "no", Life!ProbeRemove PROVE LifeIInv'
  OBVIOUS
<1>0. LifeFlags /\ LifeValues
  BY DEF LifeIInv, Life!TypeOK, LifeFlags, LifeValues
<1>1. Life!TypeOK'
  <2> USE <1>0
  <2>1. CASE Life!RegisterHw
    <3>1. LifeFlags'
      BY <2>1, Zenon DEF LifeFlags, Life!RegisterHw
    <3>2. LifeValues'
      BY <2>1 DEF LifeValues, Life!RegisterHw
    <3> QED  BY <3>1, <3>2 DEF Life!TypeOK, LifeFlags, LifeValues
  <2>2. CASE Life!EnableDevice
    <3>1. LifeFlags'
      BY <2>2, Zenon DEF LifeFlags, Life!EnableDevice
    <3>2. LifeValues'
      BY <2>2 DEF LifeValues, Life!EnableDevice
    <3> QED  BY <3>1, <3>2 DEF Life!TypeOK, LifeFlags, LifeValues
  <2>3. CASE Life!MapBar
    <3>1. LifeFlags'
      BY <2>3, Zenon DEF LifeFlags, Life!MapBar
    <3>2. LifeValues'
      BY <2>3 DEF LifeValues, Life!MapBar
    <3> QED  BY <3>1, <3>2 DEF Life!TypeOK, LifeFlags, LifeValues
  <2>4. CASE Life!RemoveBegin
    <3>1. LifeFlags'
      BY <2>4, Zenon DEF LifeFlags, Life!RemoveBegin
    <3>2. LifeValues'
      BY <2>4 DEF LifeValues, Life!RemoveBegin
    <3> QED  BY <3>1, <3>2 DEF Life!TypeOK, LifeFlags, LifeValues
  <2>5. CASE Life!RemoveEnd
    <3>1. LifeFlags'
      BY <2>5, Zenon DEF LifeFlags, Life!RemoveEnd
    <3>2. LifeValues'
      BY <2>5 DEF LifeValues, Life!RemoveEnd
    <3> QED  BY <3>1, <3>2 DEF Life!TypeOK, LifeFlags, LifeValues
  <2> QED  BY <2>1, <2>2, <2>3, <2>4, <2>5 DEF Life!ProbeRemove
<1> USE DEF Life!ProbeRemove, Life!RegisterHw, Life!EnableDevice, Life!MapBar,
            Life!RemoveBegin, Life!RemoveEnd, LifeIInv
<1>2. LifeInv'
  BY SMTT(20) DEF Life!TypeOK, LifeInv
<1>3. LifeRing'
  BY SMTT(20) DEF Life!TypeOK, LifeInv, LifeRing
<1>4. LifeIrq'
  BY SMTT(20) DEF Life!TypeOK, LifeInv, LifeIrq
<1>5. LifeTasklet'
  BY SMTT(20) DEF Life!TypeOK, LifeInv, LifeTasklet
<1>6. LifeFresh'
  BY SMTT(20) DEF Life!TypeOK, LifeInv, LifeTasklet, LifeFresh
<1>7. LifeCauses'
  BY SMTT(20) DEF Life!TypeOK, LifeInv, LifeTasklet, LifeFresh, LifeCauses
<1> QED  BY <1>1, <1>2, <1>3, <1>4, <1>5, <1>6, <1>7

LEMMA LifeOpen == LifeIInv /\ Life!Open => LifeIInv'
<1> SUFFICES ASSUME LifeIInv, Life!Open PROVE LifeIInv'
  OBVIOUS
<1>0. LifeFlags /\ LifeValues
  BY DEF LifeIInv, Life!TypeOK, LifeFlags, LifeValues
<1>1. Life!TypeOK'
  <2> USE <1>0
  <2>1. CASE Life!OpenInitHw
    <3>1. LifeFlags'
      BY <2>1, Zenon DEF LifeFlags, Life!OpenInitHw
    <3>2. LifeValues'
      BY <2>1 DEF LifeValues, Life!OpenInitHw
    <3> QED  BY <3>1, <3>2 DEF Life!TypeOK, LifeFlags, LifeValues
  <2>2. CASE Life!InitQueueFails
    <3>1. LifeFlags'
      BY <2>2, Zenon DEF LifeFlags, Life!InitQueueFails
    <3>2. LifeValues'
      BY <2>2 DEF LifeValues, Life!InitQueueFails
    <3> QED  BY <3>1, <3>2 DEF Life!TypeOK, LifeFlags, LifeValues
  <2>3. CASE Life!InitQueue
    <3>1. LifeFlags'
      BY <2>3, Zenon DEF LifeFlags, Life!InitQueue
    <3>2. LifeValues'
      BY <2>3 DEF LifeValues, Life!InitQueue
    <3> QED  BY <3>1, <3>2 DEF Life!TypeOK, LifeFlags, LifeValues
  <2>4. CASE Life!InitInterrupt
    <3>1. LifeFlags'
      BY <2>4, Zenon DEF LifeFlags, Life!InitInterrupt
    <3>2. LifeValues'
      BY <2>4 DEF LifeValues, Life!InitInterrupt
    <3> QED  BY <3>1, <3>2 DEF Life!TypeOK, LifeFlags, LifeValues
  <2>5. CASE Life!UnmaskInterrupts
    <3>1. LifeFlags'
      BY <2>5, Zenon DEF LifeFlags, Life!UnmaskInterrupts
    <3>2. LifeValues'
      BY <2>5 DEF LifeValues, Life!UnmaskInterrupts
    <3> QED  BY <3>1, <3>2 DEF Life!TypeOK, LifeFlags, LifeValues
  <2>6. CASE Life!OpenEnds
    <3>1. LifeFlags'
      BY <2>6, Zenon DEF LifeFlags, Life!OpenEnds
    <3>2. LifeValues'
      BY <2>6 DEF LifeValues, Life!OpenEnds
    <3> QED  BY <3>1, <3>2 DEF Life!TypeOK, LifeFlags, LifeValues
  <2> QED  BY <2>1, <2>2, <2>3, <2>4, <2>5, <2>6 DEF Life!Open
<1> USE DEF Life!Open, Life!OpenInitHw, Life!InitQueueFails, Life!InitQueue,
            Life!InitInterrupt, Life!UnmaskInterrupts, Life!OpenEnds, LifeIInv
<1>2. LifeInv'
  BY SMTT(20) DEF Life!TypeOK, LifeInv
<1>3. LifeRing'
  BY SMTT(20) DEF Life!TypeOK, LifeInv, LifeRing
<1>4. LifeIrq'
  BY SMTT(20) DEF Life!TypeOK, LifeInv, LifeIrq
<1>5. LifeTasklet'
  BY SMTT(20) DEF Life!TypeOK, LifeInv, LifeTasklet
<1>6. LifeFresh'
  BY SMTT(20) DEF Life!TypeOK, LifeInv, LifeTasklet, LifeFresh
<1>7. LifeCauses'
  BY SMTT(20) DEF Life!TypeOK, LifeInv, LifeTasklet, LifeFresh, LifeCauses
<1> QED  BY <1>1, <1>2, <1>3, <1>4, <1>5, <1>6, <1>7

LEMMA LifeClose == LifeIInv /\ (Life!Close \/ Life!Closing) => LifeIInv'
<1> SUFFICES ASSUME LifeIInv, Life!Close \/ Life!Closing PROVE LifeIInv'
  OBVIOUS
<1>0. LifeFlags /\ LifeValues
  BY DEF LifeIInv, Life!TypeOK, LifeFlags, LifeValues
<1>1. Life!TypeOK'
  <2> USE <1>0
  <2>1. CASE Life!Close
    <3>1. LifeFlags'
      BY <2>1, Zenon DEF LifeFlags, Life!Close
    <3>2. LifeValues'
      BY <2>1 DEF LifeValues, Life!Close
    <3> QED  BY <3>1, <3>2 DEF Life!TypeOK, LifeFlags, LifeValues
  <2>2. CASE Life!FreeIrq
    <3>1. LifeFlags'
      BY <2>2, Zenon DEF LifeFlags, Life!FreeIrq
    <3>2. LifeValues'
      BY <2>2 DEF LifeValues, Life!FreeIrq
    <3> QED  BY <3>1, <3>2 DEF Life!TypeOK, LifeFlags, LifeValues
  <2>3. CASE Life!TaskletDisable
    <3>1. LifeFlags'
      BY <2>3, Zenon DEF LifeFlags, Life!TaskletDisable
    <3>2. LifeValues'
      BY <2>3 DEF LifeValues, Life!TaskletDisable
    <3> QED  BY <3>1, <3>2 DEF Life!TypeOK, LifeFlags, LifeValues
  <2>4. CASE Life!UninitQueue
    <3>1. LifeFlags'
      BY <2>4, Zenon DEF LifeFlags, Life!UninitQueue
    <3>2. LifeValues'
      BY <2>4 DEF LifeValues, Life!UninitQueue
    <3> QED  BY <3>1, <3>2 DEF Life!TypeOK, LifeFlags, LifeValues
  <2>5. CASE Life!ResetCard
    <3>1. LifeFlags'
      BY <2>5, Zenon DEF LifeFlags, Life!ResetCard
    <3>2. LifeValues'
      BY SMTT(20), <2>5 DEF LifeValues, Life!ResetCard
    <3> QED  BY <3>1, <3>2 DEF Life!TypeOK, LifeFlags, LifeValues
  <2>6. CASE Life!FreeQueue
    <3>1. LifeFlags'
      BY <2>6, Zenon DEF LifeFlags, Life!FreeQueue
    <3>2. LifeValues'
      BY <2>6 DEF LifeValues, Life!FreeQueue
    <3> QED  BY <3>1, <3>2 DEF Life!TypeOK, LifeFlags, LifeValues
  <2> QED  BY <2>1, <2>2, <2>3, <2>4, <2>5, <2>6 DEF Life!Closing
<1> USE DEF Life!Close, Life!Closing, Life!FreeIrq, Life!TaskletDisable,
            Life!UninitQueue, Life!FreeQueue, Life!ResetCard, LifeIInv
<1>2. LifeInv'
  BY SMTT(20) DEF Life!TypeOK, LifeInv
<1>3. LifeRing'
  BY SMTT(20) DEF Life!TypeOK, LifeInv, LifeRing
<1>4. LifeIrq'
  BY SMTT(20) DEF Life!TypeOK, LifeInv, LifeRing, LifeIrq
<1>5. LifeTasklet'
  BY SMTT(20) DEF Life!TypeOK, LifeInv, LifeTasklet
<1>6. LifeFresh'
  BY SMTT(20) DEF Life!TypeOK, LifeInv, LifeTasklet, LifeFresh
<1>7. LifeCauses'
  BY SMTT(20) DEF Life!TypeOK, LifeInv, LifeTasklet, LifeFresh, LifeCauses
<1> QED  BY <1>1, <1>2, <1>3, <1>4, <1>5, <1>6, <1>7

LEMMA LifeInterrupt ==
  LifeIInv /\ (Life!CardInterrupts \/ Life!Handler \/ Life!Tasklet) => LifeIInv'
<1> SUFFICES ASSUME LifeIInv, Life!CardInterrupts \/ Life!Handler \/ Life!Tasklet PROVE LifeIInv'
  OBVIOUS
<1>0. LifeFlags /\ LifeValues
  BY DEF LifeIInv, Life!TypeOK, LifeFlags, LifeValues
<1>1. Life!TypeOK'
  <2> USE <1>0
  <2>1. CASE Life!CardInterrupts
    <3>1. LifeFlags'
      BY <2>1, Zenon DEF LifeFlags, Life!CardInterrupts
    <3>2. LifeValues'
      BY <2>1 DEF LifeValues, Life!CardInterrupts
    <3> QED  BY <3>1, <3>2 DEF Life!TypeOK, LifeFlags, LifeValues
  <2>2. CASE Life!HandlerRead
    <3>1. LifeFlags'
      BY <2>2, Zenon DEF LifeFlags, Life!HandlerRead
    <3>2. LifeValues'
      BY <2>2 DEF LifeValues, Life!HandlerRead
    <3> QED  BY <3>1, <3>2 DEF Life!TypeOK, LifeFlags, LifeValues
  <2>3. CASE Life!HandlerLoad
    <3>1. LifeFlags'
      BY <2>3, Zenon DEF LifeFlags, Life!HandlerLoad
    <3>2. LifeValues'
      BY <2>3 DEF LifeValues, Life!HandlerLoad
    <3> QED  BY <3>1, <3>2 DEF Life!TypeOK, LifeFlags, LifeValues
  <2>4. CASE Life!HandlerStore
    <3>1. LifeFlags'
      BY <2>4, Zenon DEF LifeFlags, Life!HandlerStore
    <3>2. LifeValues'
      BY <2>4 DEF LifeValues, Life!HandlerStore
    <3> QED  BY <3>1, <3>2 DEF Life!TypeOK, LifeFlags, LifeValues
  <2>5. CASE Life!HandlerSchedule
    <3>1. LifeFlags'
      BY <2>5, Zenon DEF LifeFlags, Life!HandlerSchedule
    <3>2. LifeValues'
      BY <2>5 DEF LifeValues, Life!HandlerSchedule
    <3> QED  BY <3>1, <3>2 DEF Life!TypeOK, LifeFlags, LifeValues
  <2>6. CASE Life!TaskletStart
    <3>1. LifeFlags'
      BY <2>6, Zenon DEF LifeFlags, Life!TaskletStart
    <3>2. LifeValues'
      <4>1. tpc' \in {tpc, "body"} /\ oops' \in {oops, "tasklet"}
        BY <2>6, Zenon DEF Life!TaskletStart
      <4>2. UNCHANGED <<ppc, bar, lpc, ring, icr, hpc, intr, old, waiting, untested, unseen, late>>
        BY <2>6, Zenon DEF Life!TaskletStart
      <4> QED  BY <4>1, <4>2 DEF LifeValues
    <3> QED  BY <3>1, <3>2 DEF Life!TypeOK, LifeFlags, LifeValues
  <2>7. CASE Life!IntrTask
    <3>1. LifeFlags'
      BY <2>7, Zenon DEF LifeFlags, Life!IntrTask
    <3>2. LifeValues'
      BY <2>7 DEF LifeValues, Life!IntrTask
    <3> QED  BY <3>1, <3>2 DEF Life!TypeOK, LifeFlags, LifeValues
  <2>8. CASE Life!IntrTaskClear
    <3>1. LifeFlags'
      BY <2>8, Zenon DEF LifeFlags, Life!IntrTaskClear
    <3>2. LifeValues'
      BY <2>8 DEF LifeValues, Life!IntrTaskClear
    <3> QED  BY <3>1, <3>2 DEF Life!TypeOK, LifeFlags, LifeValues
  <2>9. ASSUME NEW c \in Causes, Life!IntrTest(c) PROVE Life!TypeOK'
    <3>1. LifeFlags'
      BY <2>9, Zenon DEF LifeFlags, Life!IntrTest
    <3>2. LifeValues'
      BY <2>9 DEF LifeValues, Life!IntrTest
    <3> QED  BY <3>1, <3>2 DEF Life!TypeOK, LifeFlags, LifeValues
  <2> QED  BY <2>1, <2>2, <2>3, <2>4, <2>5, <2>6, <2>7, <2>8, <2>9 DEF Life!Handler, Life!Tasklet
<1>2. /\ UNCHANGED <<ppc, netdev, bar, lpc, up, open, ring, irq, ims, stale>>
      /\ oops' \in {oops, "tasklet"} /\ (hpc' # "idle" => irq)
  BY Zenon
     DEF LifeIInv, LifeIrq, Life!CardInterrupts, Life!Handler, Life!HandlerRead,
         Life!HandlerLoad, Life!HandlerStore, Life!HandlerSchedule, Life!Tasklet,
         Life!TaskletStart, Life!IntrTask, Life!IntrTest, Life!IntrTaskClear
<1>3. LifeInv' /\ LifeRing'
  BY <1>2 DEF LifeIInv, LifeInv, LifeRing
<1>a. ~ ims => icr' = {} /\ hpc' = "idle"
  BY SMTT(20)
     DEF LifeIInv, LifeIrq, Life!CardInterrupts, Life!Handler, Life!HandlerRead,
         Life!HandlerLoad, Life!HandlerStore, Life!HandlerSchedule, Life!Tasklet,
         Life!TaskletStart, Life!IntrTask, Life!IntrTest, Life!IntrTaskClear
<1>4. LifeIrq'
  BY SMTT(20), <1>2, <1>a DEF LifeIInv, LifeIrq
<1>5. LifeTasklet' /\ LifeFresh'
  <2>1. CASE Life!CardInterrupts \/ Life!HandlerRead \/ Life!HandlerLoad \/ Life!HandlerStore
    BY <2>1 DEF LifeIInv, LifeTasklet, LifeFresh, Life!CardInterrupts, Life!HandlerRead,
                Life!HandlerLoad, Life!HandlerStore
  <2>2. CASE Life!HandlerSchedule
    BY <2>2 DEF LifeIInv, LifeInv, LifeIrq, LifeTasklet, LifeFresh, Life!HandlerSchedule
  <2>3. CASE Life!TaskletStart
    BY <2>3 DEF LifeIInv, LifeTasklet, LifeFresh, Life!TaskletStart
  <2>4. CASE Life!IntrTask \/ Life!IntrTaskClear \/ (\E c \in Causes : Life!IntrTest(c))
    BY <2>4 DEF LifeIInv, LifeTasklet, LifeFresh, Life!IntrTask, Life!IntrTest, Life!IntrTaskClear
  <2> QED  BY <2>1, <2>2, <2>3, <2>4 DEF Life!Handler, Life!Tasklet
<1>6. LifeCauses'
  <2>1. CASE Life!CardInterrupts \/ Life!HandlerRead
    BY <2>1 DEF LifeIInv, LifeCauses, Life!CardInterrupts, Life!HandlerRead
  <2>2. CASE Life!HandlerLoad
    BY <2>2 DEF LifeIInv, LifeCauses, Life!HandlerLoad
  <2>3. CASE Life!HandlerStore
    BY <2>3 DEF LifeIInv, LifeCauses, Life!HandlerStore, Life!TestedFor
  <2>4. CASE Life!HandlerSchedule
    BY <2>4 DEF LifeIInv, LifeFresh, LifeCauses, Life!HandlerSchedule
  <2>5. CASE Life!TaskletStart
    BY <2>5 DEF LifeIInv, LifeFresh, LifeCauses, Life!TaskletStart
  <2>6. CASE Life!IntrTask
    BY <1>0, <2>6 DEF LifeIInv, LifeValues, LifeCauses, Life!IntrTask
  <2>7. ASSUME NEW c \in Causes, Life!IntrTest(c) PROVE LifeCauses'
    BY <2>7 DEF LifeIInv, LifeCauses, Life!IntrTest
  <2>8. CASE Life!IntrTaskClear
    BY <2>8 DEF LifeIInv, LifeCauses, Life!IntrTaskClear
  <2> QED  BY <2>1, <2>2, <2>3, <2>4, <2>5, <2>6, <2>7, <2>8 DEF Life!Handler, Life!Tasklet
<1> QED  BY <1>1, <1>3, <1>4, <1>5, <1>6 DEF LifeIInv

LEMMA LifeNext == LifeIInv /\ [Life!Next]_(Life!vars) => LifeIInv'
<1> SUFFICES ASSUME LifeIInv, [Life!Next]_(Life!vars) PROVE LifeIInv'
  BY SMTT(20)
<1>1. CASE UNCHANGED Life!vars
  BY <1>1 DEF Life!vars, LifeIInv, Life!TypeOK, LifeInv, LifeRing, LifeIrq, LifeTasklet,
          LifeFresh, LifeCauses
<1> QED  BY <1>1, LifeProbeRemove, LifeOpen, LifeClose, LifeInterrupt DEF Life!Next, Life!Crashed

\* Every variable of the driver keeps its type.
THEOREM LifeTypeCorrect == Life!Spec => []Life!TypeOK
<1>1. LifeIInv => Life!TypeOK
  BY DEF LifeIInv
<1> QED  BY <1>1, LifeInit, LifeNext, PTL DEF Life!Spec

\* The card never writes to a receive ring that e1000_close has freed.
THEOREM LifeRingSafe == Life!Spec => []Life!DmaSafe
<1>1. LifeIInv => Life!DmaSafe
  BY DEF LifeIInv, LifeRing, Life!DmaSafe
<1> QED  BY <1>1, LifeInit, LifeNext, PTL DEF Life!Spec

\* intr_task runs on a mapped card, with its queues, and never after remove.
THEOREM LifeTaskletSafe == Life!Spec => []Life!TaskletWhileOpen
<1>1. LifeIInv => Life!TaskletWhileOpen
  BY DEF LifeIInv, Life!TypeOK, LifeInv, LifeRing, LifeTasklet, Life!TaskletWhileOpen
<1> QED  BY <1>1, LifeInit, LifeNext, PTL DEF Life!Spec

\* A crash in the tasklet code takes a close that left the tasklet in the list,
\* a crash on opening a mapping that failed or is not made yet.
THEOREM LifeCrashExplained == Life!Spec => []Life!CrashNeedsCause
<1>1. LifeIInv => Life!CrashNeedsCause
  BY DEF LifeIInv, Life!TypeOK, LifeInv, LifeFresh, Life!CrashNeedsCause
<1> QED  BY <1>1, LifeInit, LifeNext, PTL DEF Life!Spec

\* A cause that the handler recorded before intr_task tested for it is recorded
\* until a test finds it, and there is such a test to come.
THEOREM LifeCausesKept == Life!Spec => []Life!NoCauseForgotten
<1>1. LifeIInv => Life!NoCauseForgotten
  BY Zenon DEF LifeIInv, Life!TypeOK, LifeCauses, Life!NoCauseForgotten
<1> QED  BY <1>1, LifeInit, LifeNext, PTL DEF Life!Spec

-----------------------------------------------------------------------------
(* The composed driver                                                     *)

\* A step of the driver is a step of its life cycle, or leaves that alone.
LEMMA LifeStep == [DriverNext]_allVars => [Life!Next]_(Life!vars)
<1> SUFFICES ASSUME [DriverNext]_allVars PROVE [Life!Next]_(Life!vars)
  OBVIOUS
<1> USE DEF Life!Next, Life!ProbeRemove, Life!Open, Life!Closing, Life!Handler
<1>1. CASE oops = "no" /\ (OpenQueues \/ CloseQueues)
  BY <1>1, Zenon DEF OpenQueues, CloseQueues
<1>2. CASE oops = "no" /\ (StopInterface \/ Manage \/ Shutdown)
  BY <1>2, Zenon DEF StopInterface, Manage, Shutdown
<1>3. CASE oops = "no" /\ (Interrupt \/ Handle \/ Softirq)
  BY <1>3, Zenon DEF Interrupt, Handle, Softirq
<1>4. CASE StartXmit \/ GoOnXmit \/ Send \/ Receive
  BY <1>4, Zenon DEF StartXmit, GoOnXmit, Send, Receive, XmitBegin, XmitFill, XmitKick,
              CardSend, CardReceive
<1>5. CASE UNCHANGED allVars
  BY <1>5, Zenon
<1>6. QED
  BY <1>1, <1>2, <1>3, <1>4, <1>5, Zenon DEF DriverNext, Crashed

\* A step of the driver is a step of its rings, or leaves those alone.
LEMMA RingStep == [DriverNext]_allVars => [Next]_vars
<1> SUFFICES ASSUME [DriverNext]_allVars PROVE [Next]_vars
  OBVIOUS
<1> USE DEF Next, Xmit
<1>1. CASE OpenQueues \/ CloseQueues
  BY <1>1, Zenon DEF OpenQueues, CloseQueues
<1>2. CASE StopInterface \/ Manage
  BY <1>2, Zenon DEF StopInterface, Manage, Life!Close, Life!RemoveBegin, Life!RegisterHw,
              Life!EnableDevice, Life!MapBar, Life!RemoveEnd, Life!OpenInitHw,
              Life!InitQueueFails, Life!InitInterrupt, Life!UnmaskInterrupts,
              Life!OpenEnds
<1>3. CASE Shutdown \/ Interrupt \/ Handle
  BY <1>3, Zenon DEF Shutdown, Interrupt, Handle, Life!FreeIrq, Life!TaskletDisable,
              Life!FreeQueue, Life!ResetCard, Life!CardInterrupts, Life!HandlerRead,
              Life!HandlerLoad, Life!HandlerStore, Life!HandlerSchedule
<1>4. CASE Softirq
  BY <1>4, Zenon DEF Softirq, Life!Tasklet, Life!TaskletStart, Life!IntrTask,
              Life!IntrTest, Life!IntrTaskClear
<1>5. CASE StartXmit \/ GoOnXmit \/ Send \/ Receive
  BY <1>5, Zenon DEF StartXmit, GoOnXmit, Send, Receive
<1>6. CASE UNCHANGED allVars
  BY <1>6, Zenon
<1>7. QED
  BY <1>1, <1>2, <1>3, <1>4, <1>5, <1>6, Zenon DEF DriverNext, Crashed

\* The composed driver implements the life cycle and the rings: composition
\* adds no behaviour to either, whatever the sizes and the causes.
THEOREM DriverImplementsParts == DriverSafety => Life!Spec /\ Spec
  BY LifeStep, RingStep, PTL DEF DriverSafety, DriverInit, Life!Spec, Spec

\* The invariants of both halves hold of the driver.
LEMMA PartsInv == DriverSafety => []LifeIInv /\ []IInv
  BY LifeInit, LifeNext, InvInit, InvNext, LifeStep, RingStep, PTL
     DEF DriverSafety, DriverInit

\* While start_xmit runs the interface is up and nobody opens or closes it.
XmitUp == xpc # "idle" => up /\ lpc = "idle"

LEMMA XmitUpStep == XmitUp /\ [DriverNext]_allVars => XmitUp'
<1> SUFFICES ASSUME XmitUp, [DriverNext]_allVars PROVE XmitUp'
  OBVIOUS
<1> USE DEF XmitUp
<1>1. CASE OpenQueues \/ CloseQueues
  BY <1>1 DEF OpenQueues, CloseQueues, InitQueue, UninitQueue
<1>2. CASE StopInterface
  BY <1>2 DEF StopInterface
<1>3. CASE Manage
  BY <1>3, ZenonT(30) DEF Manage, Life!RegisterHw, Life!EnableDevice, Life!MapBar, Life!RemoveEnd,
              Life!OpenInitHw, Life!InitQueueFails, Life!InitInterrupt, Life!UnmaskInterrupts,
              Life!OpenEnds
<1>4. CASE Shutdown \/ Interrupt \/ Handle
  BY <1>4 DEF Shutdown, Interrupt, Handle, Life!FreeIrq, Life!TaskletDisable,
              Life!FreeQueue, Life!ResetCard, Life!CardInterrupts, Life!HandlerRead,
              Life!HandlerLoad, Life!HandlerStore, Life!HandlerSchedule
<1>5. CASE Softirq
  BY <1>5, Zenon DEF Softirq, Life!Tasklet, Life!TaskletStart, Life!IntrTask,
          Life!IntrTest, Life!IntrTaskClear
<1>6. CASE StartXmit \/ GoOnXmit \/ Send \/ Receive
  BY <1>6, Zenon DEF StartXmit, GoOnXmit, Send, Receive, XmitBegin, XmitFill, XmitKick,
                     CardSend, CardReceive
<1>7. CASE UNCHANGED allVars
  BY <1>7
<1>8. QED
  BY SMTT(20), <1>1, <1>2, <1>3, <1>4, <1>5, <1>6, <1>7 DEF DriverNext, Crashed

\* start_xmit only ever works on rings that exist, on a card that is mapped and
\* on the descriptor the card will look at next, whatever of open, close, probe
\* and remove runs around it.
THEOREM XmitSafe == DriverSafety => []XmitOnLiveRing
<1>1. DriverInit => XmitUp
  BY SMTT(20) DEF DriverInit, Init, XmitUp
<1>2. LifeIInv /\ IInv /\ XmitUp => XmitOnLiveRing
  BY DEF LifeIInv, LifeInv, LifeRing, IInv, XmitInv, XmitUp, XmitOnLiveRing
<1>3. QED
  BY <1>1, <1>2, XmitUpStep, PartsInv, PTL DEF DriverSafety

\* The card never writes to a receive ring that uninit_queue has freed, whatever
\* start_xmit, interrupts and removals do meanwhile.
THEOREM DriverRingSafe == DriverSafety => []DmaSafe
<1>1. LifeIInv => DmaSafe
  BY DEF LifeIInv, LifeRing, DmaSafe, Life!DmaSafe
<1>2. QED
  BY <1>1, PartsInv, PTL

\* The tasklet of the driver works only while the interface is open.
THEOREM DriverTaskletSafe == DriverSafety => []TaskletWhileOpen
<1>1. LifeIInv => TaskletWhileOpen
  BY DEF LifeIInv, Life!TypeOK, LifeInv, LifeRing, LifeTasklet,
         TaskletWhileOpen, Life!TaskletWhileOpen
<1>2. QED
  BY <1>1, PartsInv, PTL

\* The kernel crashes only for the two causes the life cycle has: a tasklet that
\* an earlier close left in the list, and registers that probe has not mapped.
THEOREM DriverCrashExplained == DriverSafety => []CrashNeedsCause
<1>1. LifeIInv => CrashNeedsCause
  BY DEF LifeIInv, Life!TypeOK, LifeInv, LifeFresh, CrashNeedsCause,
         Life!CrashNeedsCause
<1>2. QED
  BY <1>1, PartsInv, PTL

\* In the driver as a whole, too, a recorded cause waits for a test of intr_task,
\* unless it came in between its test and the clear.
THEOREM DriverCausesKept == DriverSafety => []NoCauseForgotten
<1>1. LifeIInv => NoCauseForgotten
  BY DEF LifeIInv, Life!TypeOK, LifeCauses, NoCauseForgotten, Life!NoCauseForgotten
<1>2. QED
  BY <1>1, PartsInv, PTL

\* Across every open and close, until a call overruns the ring, the card passes
\* all that start_xmit handed over before it takes the ring to be empty.
THEOREM DriverNoneLeftBehind == DriverSafety => []EmptyWhenPassed
<1>1. IInv => EmptyWhenPassed
  BY DEF IInv, TypeOK, RingInv, Window, EmptyWhenPassed
<1>2. QED
  BY <1>1, PartsInv, PTL

=============================================================================
