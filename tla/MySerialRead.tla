---------------------------- MODULE MySerialRead ----------------------------
(***************************************************************************)
(* Receive path of the Windows RS-232 driver MySerial                      *)
(* (doc/systems/windows/rs232_polling/MySerial): the polling ReadThread of *)
(* device.c, the EvtIoRead handlers of read.c that the parallel default    *)
(* queue runs concurrently, the hardware set-up of pnp.c and uart.c that   *)
(* races with the thread, and the cleanup that tells the thread to stop.   *)
(*                                                                         *)
(* A byte is the number of its arrival on the line.  Junk is what a port   *)
(* read returns when it does not reach a full receive register: port base  *)
(* not assigned yet, divisor latch selected (DLAB), register empty.        *)
(***************************************************************************)
EXTENDS Integers, FiniteSets, TLC

CONSTANTS
    Readers,      \* concurrent read requests of the parallel queue
    BufMax,       \* MY_SERIAL_READ_BUFFER_MAX_LEN
    MaxLength,    \* largest Length of a read request
    MaxBytes,     \* bound: bytes that arrive on the line
    Junk          \* model value

ASSUME BufMaxAssumption == BufMax \in Nat \ {0}
ASSUME LengthAssumption == MaxLength \in Nat \ {0}
ASSUME BytesAssumption == MaxBytes \in Nat
ASSUME JunkAssumption == Junk \notin Nat
ASSUME ReadersAssumption == Readers \cap {"free", "thread"} = {}

VARIABLES
    hw,           \* how far EvtPrepareHardware got
    rbr,          \* receive register of the UART: 0 is empty
    arrived,      \* number of bytes that reached the UART so far
    overrun,      \* bytes the UART lost: they arrived on a full register
    mustExit,     \* devExt->mustExit
    tpc,          \* control point of ReadThread
    lock,         \* devExt->lock
    buf,          \* devExt->readBuffer, all BufMax cells
    len,          \* devExt->readBufferLength
    rpc,          \* control point of each EvtIoRead
    rlen,         \* Length of each request
    fin,          \* finalLength of each request
    delivered,    \* history: line bytes copied to requests
    dropped,      \* history: line bytes thrown away by the buffer reset
    lateJunk,     \* history: junk stored once the port was ready, capped at 2
    lateStores    \* history: stores once mustExit was set, capped at 2

uartVars == <<hw, rbr, arrived, overrun>>
reqVars == <<rpc, rlen, fin>>
history == <<delivered, dropped, lateJunk, lateStores>>
vars == <<uartVars, mustExit, tpc, lock, buf, len, reqVars, history>>

Bytes == 1..MaxBytes
Cells == 0..(BufMax - 1)

Init ==
    /\ hw = "unset"
    /\ rbr = 0
    /\ arrived = 0
    /\ overrun = {}
    /\ mustExit = FALSE
    /\ tpc = "poll"
    /\ lock = "free"
    /\ buf = [i \in Cells |-> Junk]
    /\ len = 0
    /\ rpc = [r \in Readers |-> "idle"]
    /\ rlen = [r \in Readers |-> 1]
    /\ fin = [r \in Readers |-> 0]
    /\ delivered = {}
    /\ dropped = {}
    /\ lateJunk = 0
    /\ lateStores = 0

-----------------------------------------------------------------------------
(* The UART (external) and its set-up                                      *)

\* The remote end sends a byte; a byte that finds the register full is lost.
LineReceive ==
    /\ arrived < MaxBytes
    /\ arrived' = arrived + 1
    /\ IF rbr = 0
       THEN rbr' = arrived + 1 /\ overrun' = overrun
       ELSE overrun' = overrun \cup {arrived + 1} /\ rbr' = rbr
    /\ UNCHANGED <<hw, mustExit, tpc, lock, buf, len, reqVars, history>>

\* Does a port access of the driver reach the receive register?
RbrVisible == hw \in {"ported", "ready"}

\* UartGetBit(LSR, LSR_DA): LSR does not depend on DLAB, but before portBase
\* is assigned the driver polls some other port and sees anything.
DataAvailable == IF hw = "unset" THEN BOOLEAN ELSE {rbr # 0}

\* UartReadRegister(RBR)
ReadRBR == IF RbrVisible /\ rbr # 0 THEN rbr ELSE Junk
RbrAfterRead == IF RbrVisible THEN 0 ELSE rbr

\* EvtPrepareHardware: portBase, then UartInit opens the divisor latch and
\* closes it again.
AssignPort == hw = "unset" /\ hw' = "ported"
SetDlab    == hw = "ported" /\ hw' = "dlab"
ClearDlab  == hw = "dlab" /\ hw' = "ready"

PrepareHardware ==
    /\ ~mustExit
    /\ AssignPort \/ SetDlab \/ ClearDlab
    /\ UNCHANGED <<rbr, arrived, overrun, mustExit, tpc, lock, buf, len,
                   reqVars, history>>

-----------------------------------------------------------------------------
(* ReadThread (device.c)                                                   *)

\* Mutant: the inner loop does not look at mustExit.
ThreadPoll_NoExitTest ==
    /\ tpc = "poll"
    /\ \E da \in DataAvailable : tpc' = IF da THEN "check" ELSE "poll"
    /\ UNCHANGED <<uartVars, mustExit, lock, buf, len, reqVars, history>>

\* Mutant: RBR is read without polling LSR first.
ThreadPoll_NoPoll ==
    /\ tpc = "poll"
    /\ tpc' = IF mustExit THEN "exited" ELSE "check"
    /\ UNCHANGED <<uartVars, mustExit, lock, buf, len, reqVars, history>>

\* Lines 21 and 23: leave when told to, otherwise poll LSR until data is seen.
ThreadPoll ==
    /\ tpc = "poll"
    /\ \E da \in DataAvailable :
          tpc' = IF mustExit THEN "exited" ELSE IF da THEN "check" ELSE "poll"
    /\ UNCHANGED <<uartVars, mustExit, lock, buf, len, reqVars, history>>

\* Line 27: mustExit is read once more before the lock is asked for.
ThreadCheck ==
    /\ tpc = "check"
    /\ tpc' = IF mustExit THEN "exited" ELSE "lock"
    /\ UNCHANGED <<uartVars, mustExit, lock, buf, len, reqVars, history>>

ThreadLock ==
    /\ tpc = "lock"
    /\ lock = "free"
    /\ lock' = "thread"
    /\ tpc' = "reset"
    /\ UNCHANGED <<uartVars, mustExit, buf, len, reqVars, history>>

\* The line bytes among the cells from..(len - 1).
LineBytes(from) == {buf[i] : i \in {j \in Cells : from <= j /\ j < len}} \ {Junk}

\* Mutant: the bound test is off by one and gives up a cell.
ThreadReset_Early ==
    /\ tpc = "reset"
    /\ tpc' = "put"
    /\ IF len >= BufMax - 1
       THEN len' = 0 /\ dropped' = dropped \cup LineBytes(0)
       ELSE UNCHANGED <<len, dropped>>
    /\ UNCHANGED <<uartVars, mustExit, lock, buf, reqVars, delivered, lateJunk,
                   lateStores>>

\* Lines 30-31: a full buffer is emptied, its bytes are lost.
ThreadReset ==
    /\ tpc = "reset"
    /\ tpc' = "put"
    /\ IF len >= BufMax
       THEN len' = 0 /\ dropped' = dropped \cup LineBytes(0)
       ELSE UNCHANGED <<len, dropped>>
    /\ UNCHANGED <<uartVars, mustExit, lock, buf, reqVars, delivered, lateJunk,
                   lateStores>>

\* Mutant: the thread goes on storing without a look at LSR and mustExit.
ThreadPut_NoPoll ==
    /\ tpc = "put"
    /\ buf' = [buf EXCEPT ![len] = ReadRBR]
    /\ len' = len + 1
    /\ rbr' = RbrAfterRead
    /\ lateJunk' = IF hw = "ready" /\ ReadRBR = Junk /\ lateJunk < 2
                   THEN lateJunk + 1 ELSE lateJunk
    /\ lateStores' = IF mustExit /\ lateStores < 2 THEN lateStores + 1 ELSE lateStores
    /\ lock' = "free"
    /\ tpc' = "lock"
    /\ UNCHANGED <<hw, arrived, overrun, mustExit, reqVars, delivered, dropped>>

\* Lines 32-33: store what RBR holds, release the lock.
ThreadPut ==
    /\ tpc = "put"
    /\ buf' = [buf EXCEPT ![len] = ReadRBR]
    /\ len' = len + 1
    /\ rbr' = RbrAfterRead
    /\ lateJunk' = IF hw = "ready" /\ ReadRBR = Junk /\ lateJunk < 2
                   THEN lateJunk + 1 ELSE lateJunk
    /\ lateStores' = IF mustExit /\ lateStores < 2 THEN lateStores + 1 ELSE lateStores
    /\ lock' = "free"
    /\ tpc' = "poll"
    /\ UNCHANGED <<hw, arrived, overrun, mustExit, reqVars, delivered, dropped>>

-----------------------------------------------------------------------------
(* EvtIoRead (read.c); requests are dispatched once the device is started  *)

ReadBegin(r) ==
    /\ rpc[r] = "idle"
    /\ hw = "ready"
    /\ ~mustExit
    /\ rpc' = [rpc EXCEPT ![r] = "lock"]
    /\ \E n \in 1..MaxLength : rlen' = [rlen EXCEPT ![r] = n]
    /\ UNCHANGED <<uartVars, mustExit, tpc, lock, buf, len, fin, history>>

\* Mutant: a read of an empty buffer waits for data.
ReadLock_WaitsForData(r) ==
    /\ rpc[r] = "lock"
    /\ lock = "free" /\ len > 0
    /\ lock' = r
    /\ fin' = [fin EXCEPT ![r] = IF len >= rlen[r] THEN rlen[r] ELSE len]
    /\ rpc' = [rpc EXCEPT ![r] = "copy"]
    /\ UNCHANGED <<uartVars, mustExit, tpc, buf, len, rlen, history>>

\* Lines 25-26: under the lock, finalLength = min(readBufferLength, Length).
ReadLock(r) ==
    /\ rpc[r] = "lock"
    /\ lock = "free"
    /\ lock' = r
    /\ fin' = [fin EXCEPT ![r] = IF len >= rlen[r] THEN rlen[r] ELSE len]
    /\ rpc' = [rpc EXCEPT ![r] = "copy"]
    /\ UNCHANGED <<uartVars, mustExit, tpc, buf, len, rlen, history>>

\* Lines 27-30: finalLength never exceeds the request's memory, so the copy
\* succeeds.
ReadCopy(r) ==
    /\ rpc[r] = "copy"
    /\ delivered' = delivered \cup ({buf[i] : i \in 0..(fin[r] - 1)} \ {Junk})
    /\ rpc' = [rpc EXCEPT ![r] = "shift"]
    /\ UNCHANGED <<uartVars, mustExit, tpc, lock, buf, len, rlen, fin, dropped,
                   lateJunk, lateStores>>

\* Mutant: memmove moves one byte too few.
Shifted_OneShort(n) ==
    [i \in Cells |-> IF i < BufMax - n - 1 THEN buf[i + n] ELSE buf[i]]

\* memmove(readBuffer, readBuffer + n, MAX - n): the last n cells stay.
Shifted(n) == [i \in Cells |-> IF i < BufMax - n THEN buf[i + n] ELSE buf[i]]

\* Lines 31-33
ReadShift(r) ==
    /\ rpc[r] = "shift"
    /\ len' = len - fin[r]
    /\ buf' = Shifted(fin[r])
    /\ lock' = "free"
    /\ rpc' = [rpc EXCEPT ![r] = "complete"]
    /\ UNCHANGED <<uartVars, mustExit, tpc, rlen, fin, history>>

ReadComplete(r) ==
    /\ rpc[r] = "complete"
    /\ rpc' = [rpc EXCEPT ![r] = "idle"]
    /\ UNCHANGED <<uartVars, mustExit, tpc, lock, buf, len, rlen, fin, history>>

-----------------------------------------------------------------------------
\* EvtDeviceContextCleanup: the framework has completed every request before
\* it deletes the device; the thread is not waited for.
DeviceContextCleanup ==
    /\ ~mustExit
    /\ \A r \in Readers : rpc[r] = "idle"
    /\ mustExit' = TRUE
    /\ UNCHANGED <<uartVars, tpc, lock, buf, len, reqVars, history>>

Thread == ThreadPoll \/ ThreadCheck \/ ThreadLock \/ ThreadReset \/ ThreadPut

Read(r) == ReadLock(r) \/ ReadCopy(r) \/ ReadShift(r) \/ ReadComplete(r)

Next ==
    \/ LineReceive
    \/ PrepareHardware
    \/ Thread
    \/ \E r \in Readers : ReadBegin(r) \/ Read(r)
    \/ DeviceContextCleanup

Spec == Init /\ [][Next]_vars

\* The thread is scheduled; a framework wait lock wakes its waiters in turn,
\* so a request that waits for it is not overtaken forever.
Fairness ==
    /\ WF_vars(Thread)
    /\ SF_vars(ThreadLock)
    /\ \A r \in Readers : WF_vars(Read(r)) /\ SF_vars(ReadLock(r))

FairSpec == Spec /\ Fairness

-----------------------------------------------------------------------------
(* Properties                                                              *)

\* Every variable keeps its type: in particular readBufferLength never passes
\* MY_SERIAL_READ_BUFFER_MAX_LEN and a request never takes more than it asked.
TypeOK ==
    /\ hw \in {"unset", "ported", "dlab", "ready"}
    /\ arrived \in 0..MaxBytes
    /\ rbr \in 0..MaxBytes
    /\ overrun \in SUBSET Bytes
    /\ mustExit \in BOOLEAN
    /\ tpc \in {"poll", "check", "lock", "reset", "put", "exited"}
    /\ lock \in {"free", "thread"} \cup Readers
    /\ buf \in [Cells -> Bytes \cup {Junk}]
    /\ len \in 0..BufMax
    /\ rpc \in [Readers -> {"idle", "lock", "copy", "shift", "complete"}]
    /\ rlen \in [Readers -> 1..MaxLength]
    /\ fin \in [Readers -> 0..MaxLength]
    /\ delivered \in SUBSET Bytes
    /\ dropped \in SUBSET Bytes
    /\ lateJunk \in 0..2
    /\ lateStores \in 0..2

\* The thread and the read handlers only touch the buffer while they own the
\* wait lock (device.c:29-33, read.c:25-33).
LockOwned ==
    /\ tpc \in {"reset", "put"} <=> lock = "thread"
    /\ \A r \in Readers : rpc[r] \in {"copy", "shift"} <=> lock = r

\* Number of leading cells already handed to a request that has not shifted
\* the buffer yet.
Taken == IF lock \in Readers /\ rpc[lock] = "shift" THEN fin[lock] ELSE 0

\* No byte of the line is duplicated or silently lost: whatever the order of
\* thread and handlers, a byte that arrived is in exactly one of the UART
\* overrun, the receive register, the buffer, the requests and the bytes the
\* reset of a full buffer threw away.
ByteAccounting ==
    LET parts == <<overrun, {rbr} \ {0}, LineBytes(Taken), delivered, dropped>>
    IN /\ UNION {parts[i] : i \in 1..5} = 1..arrived
       /\ \A i, j \in 1..5 : i # j => parts[i] \cap parts[j] = {}

\* What the buffer holds, without what a request has already copied.
Queue == [i \in 1..(len - Taken) |-> buf[i - 1 + Taken]]

Buffer == INSTANCE LossyBuffer
          WITH Capacity <- BufMax, queue <- Queue, taken <- delivered,
               lost <- dropped

\* Thread and handlers together are a bounded queue: a byte enters behind all
\* that entered before it, a request gets the oldest bytes although it copies
\* them in one step and moves the rest in another, and only a full buffer is
\* thrown away, as a whole (device.c:29-33, read.c:25-33).
ImplementsLossyBuffer == Buffer!Spec

\* The thread starts before EvtPrepareHardware assigned portBase and may see
\* data on a port that is not the UART's.  Once the UART is set up, the stale
\* poll costs at most one junk byte.
AtMostOneLateJunk == lateJunk <= 1

\* The cleanup callback sets mustExit and does not wait for the thread, which
\* then stores at most one byte more into the context the framework is about
\* to free (device.c:21-33 and 231).
AtMostOneLateStore == lateStores <= 1

\* After the cleanup callback the thread terminates.
ThreadStops == mustExit ~> tpc = "exited"

\* A read request that was dispatched is completed.
ReadsComplete == \A r \in Readers : rpc[r] = "lock" ~> rpc[r] = "idle"

=============================================================================
