----------------------------- MODULE E1000Queues -----------------------------
(***************************************************************************)
(* The transmit and receive rings of the Linux e1000 driver                *)
(* (doc/systems/e1000/Linux/mod.c): init_queue, e1000_start_xmit, which the*)
(* kernel calls under the transmit lock, and the card (external), which    *)
(* works on the rings at the same time.                                    *)
(*                                                                         *)
(* The card reads the send ring in descriptors of its own layout, which the*)
(* repository has in samples/e1000/old_e1000.blt; t_send_desc (e1000.h) is *)
(* four bytes longer and has its command byte elsewhere.                   *)
(*                                                                         *)
(* A frame is the number of the start_xmit call that queued it.  The call  *)
(* of e1000_read in intr_task is commented out, so the driver never takes  *)
(* a frame from the receive ring.                                          *)
(***************************************************************************)
EXTENDS Integers, Sequences

CONSTANTS
  NB_SND_DESC, NB_RCV_DESC, BUF_SIZE_BY_DESC,
  SizeofSend, SizeofRecv,   \* sizeof(t_send_desc), sizeof(t_recv_desc)
  OffsetofCommand,          \* offsetof(t_send_desc, command)
  CardDesc, CardCommand,    \* the card's descriptor: its size, its command byte
  Page,                     \* what sizes are aligned to
  MaxCalls                  \* bound: calls of start_xmit while the card is open

ALIGN(size, to) == ((size + to - 1) \div to) * to

\* init_queue: the sizes it asks dma_alloc_coherent for and tells the card.
RecvSizeDesc == ALIGN(SizeofRecv * NB_RCV_DESC, Page)
RecvSizeBuff == ALIGN(RecvSizeDesc, Page)
SendSizeDesc == ALIGN(SizeofSend * NB_SND_DESC, Page)
SendSizeBuff == ALIGN(BUF_SIZE_BY_DESC * NB_SND_DESC, Page)

\* The card wraps after the last descriptor of RDLEN and TDLEN.
RecvSlots == RecvSizeDesc \div CardDesc
SendSlots == SendSizeDesc \div CardDesc

ASSUME SendAssumption ==
  /\ NB_SND_DESC \in Nat /\ NB_SND_DESC > 0
  /\ SendSlots \in Nat /\ SendSlots >= NB_SND_DESC
  /\ MaxCalls \in Nat
ASSUME RecvAssumption ==
  /\ NB_RCV_DESC \in Nat /\ NB_RCV_DESC > 0
  /\ RecvSlots \in Nat /\ RecvSlots >= NB_RCV_DESC

VARIABLES
  open,           \* between open and close
  TDH, TDT, RDH, RDT,
  length, buff,   \* of each send descriptor: is its length set? and its frame
  received,       \* the receive descriptors the card has filled
  xpc, tail,      \* e1000_start_xmit and its local tail
  calls, queued,  \* history: calls of start_xmit, frames queued since open
  passed,         \* history: descriptors below NB_SND_DESC that the card has passed
  wire,           \* history: what the card has sent since open
  overrun         \* history: has the driver had NB_SND_DESC frames in the ring?

send == <<TDH, TDT, length, buff>>
recv == <<RDH, RDT, received>>
vars == <<open, send, recv, xpc, tail, calls, queued, passed, wire, overrun>>

\* What the card sends of a descriptor that it does not read as it was written:
\* other bytes, or nothing.
NoFrame == 0

Init ==
  /\ open = FALSE
  /\ TDH = 0 /\ TDT = 0 /\ RDH = 0 /\ RDT = 0
  /\ length = [s \in 0..NB_SND_DESC - 1 |-> FALSE]
  /\ buff = [s \in 0..NB_SND_DESC - 1 |-> 0]
  /\ received = {}
  /\ xpc = "idle" /\ tail = 0
  /\ calls = 0 /\ queued = 0 /\ passed = 0 /\ wire = << >> /\ overrun = FALSE
-----------------------------------------------------------------------------
\* e1000_open: init_queue gives the card both rings; the descriptors are zero.
\* The card may have rings already, from an open that failed later on.
InitQueue ==
  /\ xpc = "idle"
  /\ open' = TRUE
  /\ TDH' = 0 /\ TDT' = 0
  /\ RDH' = 0 /\ RDT' = NB_RCV_DESC - 1
  /\ length' = [s \in 0..NB_SND_DESC - 1 |-> FALSE]
  /\ received' = {}
  /\ calls' = 0 /\ queued' = 0 /\ passed' = 0 /\ wire' = << >> /\ overrun' = FALSE
  /\ UNCHANGED <<buff, xpc, tail>>

\* e1000_close: the kernel has stopped the queue and waited for start_xmit.
UninitQueue ==
  /\ open /\ xpc = "idle"
  /\ open' = FALSE
  /\ UNCHANGED <<send, recv, xpc, tail, calls, queued, passed, wire, overrun>>

\* e1000_start_xmit: a fragmented frame is dropped, and said to be sent.
XmitBegin ==
  /\ open /\ xpc = "idle" /\ calls < MaxCalls
  /\ calls' = calls + 1
  /\ \/ tail' = TDT /\ xpc' = "fill"
     \/ UNCHANGED <<tail, xpc>>
  /\ UNCHANGED <<open, send, recv, queued, passed, wire, overrun>>

\* The frame is copied and its descriptor filled ...
XmitFill ==
  /\ xpc = "fill"
  /\ buff' = [buff EXCEPT ![tail] = queued + 1]
  /\ length' = [length EXCEPT ![tail] = TRUE]
  /\ xpc' = "kick"
  /\ UNCHANGED <<open, TDH, TDT, recv, tail, calls, queued, passed, wire, overrun>>

\* Mutant: the tail skips a descriptor.
XmitKick_Skip ==
  /\ xpc = "kick"
  /\ TDT' = (tail + 2) % NB_SND_DESC
  /\ queued' = queued + 1
  /\ overrun' = (overrun \/ queued + 1 - passed >= NB_SND_DESC)
  /\ xpc' = "idle"
  /\ UNCHANGED <<open, TDH, length, buff, recv, tail, calls, passed, wire>>

\* Mutant: the tail wraps where the card does.
XmitKick_WrapLate ==
  /\ xpc = "kick"
  /\ TDT' = (tail + 1) % SendSlots
  /\ queued' = queued + 1
  /\ overrun' = (overrun \/ queued + 1 - passed >= NB_SND_DESC)
  /\ xpc' = "idle"
  /\ UNCHANGED <<open, TDH, length, buff, recv, tail, calls, passed, wire>>

\* ... before the card is told; nothing looks at TDH, so the ring may be full.
XmitKick ==
  /\ xpc = "kick"
  /\ TDT' = (tail + 1) % NB_SND_DESC
  /\ queued' = queued + 1
  /\ overrun' = (overrun \/ queued + 1 - passed >= NB_SND_DESC)
  /\ xpc' = "idle"
  /\ UNCHANGED <<open, TDH, length, buff, recv, tail, calls, passed, wire>>
-----------------------------------------------------------------------------
\* What the card reads at its descriptor k: a frame if one of the driver's filled
\* descriptors is there, with the command where the card looks for it.
CardFinds(k) ==
  LET Here == {d \in 0..NB_SND_DESC - 1 :
                 length[d] /\ k * CardDesc = d * SizeofSend /\ CardCommand = OffsetofCommand}
  IN  IF Here = {} THEN NoFrame ELSE buff[CHOOSE d \in Here : TRUE]

\* The card works on the descriptor at the head; it passes over the ones past the
\* driver's last, which hold nothing.
CardSend ==
  /\ open /\ TDH # TDT
  /\ wire' = IF TDH < NB_SND_DESC \/ CardFinds(TDH) # NoFrame
             THEN Append(wire, CardFinds(TDH)) ELSE wire
  /\ passed' = IF TDH < NB_SND_DESC THEN passed + 1 ELSE passed
  /\ TDH' = IF TDH + 1 = SendSlots THEN 0 ELSE TDH + 1
  /\ UNCHANGED <<open, TDT, length, buff, recv, xpc, tail, calls, queued, overrun>>

\* The card writes a frame to the buffer of the receive descriptor at the head.
CardReceive ==
  /\ open /\ RDH # RDT
  /\ received' = received \cup {RDH}
  /\ RDH' = IF RDH + 1 = RecvSlots THEN 0 ELSE RDH + 1
  /\ UNCHANGED <<open, send, RDT, xpc, tail, calls, queued, passed, wire, overrun>>

Xmit == XmitBegin \/ XmitFill \/ XmitKick
Next == InitQueue \/ UninitQueue \/ Xmit \/ CardSend \/ CardReceive

Spec == Init /\ [][Next]_vars
-----------------------------------------------------------------------------
\* The type invariant; the driver's tail stays below NB_SND_DESC, so start_xmit
\* fills descriptors and buffers of its own rings only.
TypeOK ==
  /\ open \in BOOLEAN /\ overrun \in BOOLEAN
  /\ TDH \in 0..SendSlots - 1 /\ TDT \in 0..NB_SND_DESC - 1 /\ tail \in 0..NB_SND_DESC - 1
  /\ RDH \in 0..RecvSlots - 1 /\ RDT \in 0..NB_RCV_DESC - 1
  /\ length \in [0..NB_SND_DESC - 1 -> BOOLEAN]
  /\ buff \in [0..NB_SND_DESC - 1 -> Nat]
  /\ received \in SUBSET (0..RecvSlots - 1)
  /\ xpc \in {"idle", "fill", "kick"}
  /\ calls \in Nat /\ queued \in Nat /\ passed \in Nat /\ wire \in Seq(Nat)

\* Until the ring has been overrun, the card does not take the ring to be empty
\* before it has passed every descriptor that start_xmit handed over, although
\* the card wraps at SendSlots and start_xmit at NB_SND_DESC.
EmptyWhenPassed == open /\ ~ overrun /\ TDH = TDT => passed = queued

\* The card sends the frames that start_xmit queued in order, each of them once:
\* its descriptors have the layout that the driver gives them.
SentInOrder == ~ overrun => \A i \in 1..Len(wire) : wire[i] = i

\* Every receive descriptor has BUF_SIZE_BY_DESC bytes of recv.buff to itself, so
\* the card writes frames to recv.buff only.
ReceiveInBuffer == \A s \in received : (s + 1) * BUF_SIZE_BY_DESC <= RecvSizeBuff
=============================================================================
