--------------------------- MODULE MySerialWrite ---------------------------
(***************************************************************************)
(* Transmit path of the Windows driver MySerial: the EvtIoWrite handlers   *)
(* of write.c, which the parallel default queue runs concurrently and      *)
(* which share the transmit register of the UART without a lock, and       *)
(* EvtIoDefault of read.c, which writes to the register without asking.    *)
(*                                                                         *)
(* The n-th byte that handler w has to write, over all its requests, is    *)
(* <<w, n>>.                                                               *)
(***************************************************************************)
EXTENDS Integers, FiniteSets, Sequences

CONSTANTS
    Writers,      \* handlers that run at once
    MaxRequest,    \* largest request, in bytes
    MaxCalls,     \* bound: requests
    Default,      \* model value: who writes the 'B' of EvtIoDefault
    Empty         \* model value: nothing in the transmit register

ASSUME RequestAssumption == MaxRequest \in Nat \ {0} /\ MaxCalls \in Nat
ASSUME DefaultAssumption == Default \notin Writers
ASSUME EmptyAssumption == Empty \notin (Writers \cup {Default}) \X Nat

VARIABLES
    thr,          \* transmit register of the UART
    sent,         \* what went out on the line
    lost,         \* history: bytes overwritten in the register
    wpc,          \* control point of each handler
    size,         \* buf_size of the request
    idx,          \* i, the index in buffer
    base,         \* history: bytes of the handler's earlier requests
    calls         \* number of requests so far

writeVars == <<thr, sent, lost, wpc, size, idx, base, calls>>

\* A byte, by who wrote it and its number.
TxByte == (Writers \cup {Default}) \X Nat

WriteInit ==
    /\ thr = Empty
    /\ sent = <<>>
    /\ lost = {}
    /\ wpc = [w \in Writers |-> "idle"]
    /\ size = [w \in Writers |-> 0]
    /\ idx = [w \in Writers |-> 0]
    /\ base = [w \in Writers |-> 0]
    /\ calls = 0

\* The register's byte goes out on the line (external).
LineSend ==
    /\ thr # Empty
    /\ sent' = Append(sent, thr)
    /\ thr' = Empty
    /\ UNCHANGED <<lost, wpc, size, idx, base, calls>>

\* UartWriteByte: what the register still held is lost.
UartWriteByte(b) ==
    /\ thr' = b
    /\ lost' = lost \cup ({thr} \ {Empty})

\* Lines 21-32; a request whose memory cannot be retrieved is completed at
\* once and changes nothing.
WriteBegin(w) ==
    /\ wpc[w] = "idle"
    /\ calls < MaxCalls
    /\ calls' = calls + 1
    /\ size' \in {[size EXCEPT ![w] = n] : n \in 1..MaxRequest}
    /\ idx' = [idx EXCEPT ![w] = 0]
    /\ wpc' = [wpc EXCEPT ![w] = "poll"]
    /\ UNCHANGED <<thr, sent, lost, base>>

\* Mutant: the handler does not wait for the register.
WritePoll_NoWait(w) ==
    /\ wpc[w] = "poll"
    /\ wpc' = [wpc EXCEPT ![w] = "out"]
    /\ UNCHANGED <<thr, sent, lost, size, idx, base, calls>>

\* Mutant: the handler also waits for the other requests to be completed.
WritePoll_Polite(w) ==
    /\ wpc[w] = "poll"
    /\ thr = Empty
    /\ \A v \in Writers \ {w} : wpc[v] = "idle"
    /\ wpc' = [wpc EXCEPT ![w] = "out"]
    /\ UNCHANGED <<thr, sent, lost, size, idx, base, calls>>

\* Line 35: wait until LSR_ETHR is set.
WritePoll(w) ==
    /\ wpc[w] = "poll"
    /\ thr = Empty
    /\ wpc' = [wpc EXCEPT ![w] = "out"]
    /\ UNCHANGED <<thr, sent, lost, size, idx, base, calls>>

\* Mutant: the buffer is sent from its end.
WriteOut_Backwards(w) ==
    /\ wpc[w] = "out"
    /\ UartWriteByte(<<w, base[w] + size[w] - 1 - idx[w]>>)
    /\ idx' = [idx EXCEPT ![w] = @ + 1]
    /\ wpc' = [wpc EXCEPT ![w] = IF idx'[w] < size[w] THEN "poll" ELSE "complete"]
    /\ UNCHANGED <<sent, size, base, calls>>

\* Lines 36-37 and the test of line 33.
WriteOut(w) ==
    /\ wpc[w] = "out"
    /\ UartWriteByte(<<w, base[w] + idx[w]>>)
    /\ idx' = [idx EXCEPT ![w] = @ + 1]
    /\ wpc' = [wpc EXCEPT ![w] = IF idx'[w] < size[w] THEN "poll" ELSE "complete"]
    /\ UNCHANGED <<sent, size, base, calls>>

\* Line 39: the request is completed with i bytes.
WriteComplete(w) ==
    /\ wpc[w] = "complete"
    /\ base' = [base EXCEPT ![w] = @ + idx[w]]
    /\ size' = [size EXCEPT ![w] = 0]
    /\ idx' = [idx EXCEPT ![w] = 0]
    /\ wpc' = [wpc EXCEPT ![w] = "idle"]
    /\ UNCHANGED <<thr, sent, lost, calls>>

\* A request of another kind: 'B' goes to the register, full or not.
EvtIoDefault ==
    /\ calls < MaxCalls
    /\ calls' = calls + 1
    /\ UartWriteByte(<<Default, calls>>)
    /\ UNCHANGED <<sent, wpc, size, idx, base>>

EvtIoWrite(w) == WritePoll(w) \/ WriteOut(w) \/ WriteComplete(w)

WriteNext ==
    \/ LineSend
    \/ EvtIoDefault
    \/ \E w \in Writers : WriteBegin(w) \/ EvtIoWrite(w)

WriteSpec == WriteInit /\ [][WriteNext]_writeVars

\* The UART sends what it holds; a handler that has work is scheduled.
WriteFairness == WF_writeVars(LineSend) /\ \A w \in Writers : WF_writeVars(EvtIoWrite(w))

WriteFairSpec == WriteSpec /\ WriteFairness

-----------------------------------------------------------------------------
(* Properties                                                              *)

\* Bytes handed to the register so far.
Written ==
    UNION {{<<w, n>> : n \in 0..(base[w] + idx[w] - 1)} : w \in Writers}

\* However the handlers interleave, the line gets the bytes of each of them
\* in the order of its buffers and no byte twice, and a byte that was written
\* is on the line, in the register or overwritten (write.c:33-38).
LineInOrder ==
    /\ \A j, k \in 1..Len(sent) :
          j < k /\ sent[j][1] = sent[k][1] => sent[j][2] < sent[k][2]
    /\ LET onLine == {sent[j] : j \in 1..Len(sent)}
       IN  /\ onLine \cap lost = {}
           /\ thr \notin onLine \cup lost
           /\ Written \subseteq onLine \cup lost \cup {thr}

\* The wait for an empty register protects a handler from itself: a byte is
\* only ever overwritten by another handler or by EvtIoDefault, which polled
\* nothing or polled too early (write.c:35-36, read.c:58).
LossNeedsTwo ==
    [][\A b \in lost' \ lost : b[1] = Default \/ b[1] # thr'[1]]_writeVars

\* Once no more requests come, as after MaxCalls of them, every write request that
\* was dispatched is completed.  While requests keep coming a handler may find the
\* register full at each of its polls, and none of them has a turn (write.c:35).
WritesComplete ==
    \A w \in Writers : (wpc[w] # "idle" /\ calls = MaxCalls) ~> wpc[w] = "idle"

=============================================================================
