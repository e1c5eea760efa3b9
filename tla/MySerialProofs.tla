--------------------------- MODULE MySerialProofs ---------------------------
(***************************************************************************)
(* Proofs about the two data paths of the Windows RS-232 driver: the       *)
(* transmit path, for every set of concurrent write requests of every      *)
(* size, and the receive path, for every buffer size, every set of         *)
(* concurrent read requests and every number of bytes on the line.         *)
(***************************************************************************)
EXTENDS MySerialRead, MySerialWrite, SequenceTheorems, TLAPS

-----------------------------------------------------------------------------
(* The transmit path (write.c and EvtIoDefault)                            *)

\* The number of the next byte that each writer hands to the register.
Count == [w \in Writers |-> base[w] + idx[w]]

\* A byte that was handed to the register, with count and calls as given.
Given(b, count, n) == IF b[1] = Default THEN b[2] < n ELSE b[2] < count[b[1]]

WriteType ==
    /\ sent \in Seq(TxByte) /\ lost \in SUBSET TxByte
    /\ thr \in TxByte \cup {Empty}
    /\ wpc \in [Writers -> {"idle", "poll", "out", "complete"}]
    /\ size \in [Writers -> Nat] /\ idx \in [Writers -> Nat] /\ base \in [Writers -> Nat]
    /\ calls \in Nat
    /\ \A w \in Writers : wpc[w] = "idle" => idx[w] = 0

\* What was sent, lost or is in the register was given to it; the bytes of one
\* writer are sent in order, and the one in the register comes after them.
OrderInv ==
    /\ \A j \in 1..Len(sent) : Given(sent[j], Count, calls)
    /\ \A b \in lost : Given(b, Count, calls)
    /\ thr # Empty => Given(thr, Count, calls)
    /\ \A j, k \in 1..Len(sent) :
          j < k /\ sent[j][1] = sent[k][1] => sent[j][2] < sent[k][2]
    /\ thr # Empty => \A j \in 1..Len(sent) : sent[j][1] = thr[1] => sent[j][2] < thr[2]

\* A byte is in one place.
PlaceInv ==
    /\ \A j \in 1..Len(sent) : sent[j] \notin lost
    /\ thr \notin lost
    /\ \A w \in Writers : \A n \in 0..(Count[w] - 1) :
          \/ \E j \in 1..Len(sent) : sent[j] = <<w, n>>
          \/ <<w, n>> \in lost
          \/ <<w, n>> = thr

\* A writer that has seen the register empty finds no byte of its own there.
OutInv == \A w \in Writers : wpc[w] = "out" => thr = Empty \/ thr[1] # w

WriteInv == WriteType /\ OrderInv /\ PlaceInv /\ OutInv

LEMMA TxByteFacts ==
  /\ \A b \in TxByte : b[1] \in Writers \cup {Default} /\ b[2] \in Nat /\ b # Empty
  /\ \A w \in Writers \cup {Default}, n \in Nat : <<w, n>> \in TxByte
  BY EmptyAssumption, Zenon DEF TxByte

LEMMA WriteInvInit == WriteInit => WriteInv
  BY EmptyAssumption DEF WriteInit, WriteInv, WriteType, OrderInv, PlaceInv, OutInv, TxByte, Count

\* A new byte in the register.
LEMMA NewByte ==
  ASSUME WriteInv, NEW b \in TxByte, UartWriteByte(b), sent' = sent, wpc' \in [Writers -> {"idle", "poll", "out", "complete"}],
         size' = size, base' = base, idx' \in [Writers -> Nat], calls' \in Nat, calls <= calls',
         \A w \in Writers : idx[w] <= idx'[w],
         \A w \in Writers : wpc'[w] = "idle" => idx'[w] = 0,
         \A w \in Writers : wpc'[w] = "out" => b[1] # w,
         ~ Given(b, Count, calls), Given(b, Count', calls'),
         \A w \in Writers : \A n \in 0..(Count'[w] - 1) : n < Count[w] \/ b = <<w, n>>
  PROVE  WriteInv'
<1> USE TxByteFacts DEF Count
<1>1. \A c \in TxByte : Given(c, Count, calls) => Given(c, Count', calls')
  BY DefaultAssumption DEF Given, WriteInv, WriteType
<1>2. thr' = b /\ lost' = lost \cup ({thr} \ {Empty}) /\ b # Empty
  BY Zenon DEF UartWriteByte
<1>3. WriteType'
  BY <1>2, Zenon DEF WriteInv, WriteType
<1>4. \A j \in 1..Len(sent) : sent[j] \in TxByte /\ Given(sent[j], Count, calls) /\ sent[j] # b
  BY DEF WriteInv, WriteType, OrderInv
<1>5. \A c \in lost' : c \in TxByte /\ Given(c, Count, calls) /\ c # b
  BY <1>2, Zenon DEF WriteInv, WriteType, OrderInv
<1>6. \A c \in TxByte : Given(c, Count, calls) /\ c[1] = b[1] => c[2] < b[2]
  <2>1. /\ \A w \in Writers : Count[w] \in Nat
        /\ calls \in Nat
    BY DEF WriteInv, WriteType
  <2> HIDE DEF Count
  <2> SUFFICES ASSUME NEW c \in TxByte, Given(c, Count, calls), c[1] = b[1] PROVE c[2] < b[2]
    BY Zenon
  <2>2. c[2] \in Nat /\ b[2] \in Nat /\ b[1] \in Writers \cup {Default}
    BY Zenon
  <2>3. CASE b[1] = Default
    BY <2>1, <2>2, <2>3 DEF Given
  <2>4. CASE b[1] # Default
    BY <2>1, <2>2, <2>4 DEF Given
  <2> QED BY <2>3, <2>4, Zenon
<1>7. OrderInv'
  BY <1>1, <1>2, <1>4, <1>5, <1>6, Zenon DEF WriteInv, OrderInv
<1>8. \A j \in 1..Len(sent) : sent[j] \notin lost'
  <2>1. thr # Empty => \A j \in 1..Len(sent) : sent[j] # thr
    <3> SUFFICES ASSUME thr # Empty, NEW j \in 1..Len(sent), sent[j] = thr PROVE FALSE
      BY Zenon
    <3>1. thr[2] \in Nat /\ thr[2] < thr[2]
      BY Zenon DEF WriteInv, OrderInv, WriteType
    <3> QED BY <3>1
  <2> QED BY <1>2, <2>1, Zenon DEF WriteInv, PlaceInv
<1>9. \A w \in Writers : \A n \in 0..(Count'[w] - 1) :
          \/ \E j \in 1..Len(sent) : sent[j] = <<w, n>>
          \/ <<w, n>> \in lost'
          \/ <<w, n>> = thr'
  <2> SUFFICES ASSUME NEW w \in Writers, NEW n \in 0..(Count'[w] - 1), b # <<w, n>>
               PROVE  \/ \E j \in 1..Len(sent) : sent[j] = <<w, n>>
                      \/ <<w, n>> \in lost'
    BY <1>2, Zenon
  <2>1. <<w, n>> # Empty
    BY <1>3 DEF WriteType
  <2>2. n \in 0..(Count[w] - 1)
    BY <1>3 DEF WriteInv, WriteType
  <2> QED BY <1>2, <2>1, <2>2, Zenon DEF WriteInv, PlaceInv
<1>10. PlaceInv'
  <2>1. thr' \notin lost'
    BY <1>2, <1>5, Zenon
  <2>2. \A j \in 1..Len(sent') : sent'[j] \notin lost'
    BY <1>8, Zenon
  <2> HIDE DEF Count
  <2>3. \A w \in Writers : \A n \in 0..(Count'[w] - 1) :
          \/ \E j \in 1..Len(sent') : sent'[j] = <<w, n>>
          \/ <<w, n>> \in lost'
          \/ <<w, n>> = thr'
    BY <1>9, Zenon DEF Count
  <2> QED BY <2>1, <2>2, <2>3, Zenon DEF PlaceInv
<1> QED BY <1>2, <1>3, <1>7, <1>10, Zenon DEF WriteInv, OutInv

\* A step that leaves the bytes and their counts alone.
LEMMA SameBytes ==
  ASSUME WriteType, OrderInv, PlaceInv, UNCHANGED <<sent, lost, thr>>, calls' \in Nat, calls <= calls',
         \A w \in Writers : Count'[w] = Count[w]
  PROVE  OrderInv' /\ PlaceInv'
<1>1. \A c \in TxByte : Given(c, Count, calls) => Given(c, Count', calls')
  BY TxByteFacts DEF Given, WriteType
<1>2. OrderInv'
  <2>1. \A j \in 1..Len(sent) : Given(sent'[j], Count', calls')
    BY <1>1 DEF OrderInv, WriteType
  <2> QED BY <1>1, <2>1, Zenon DEF OrderInv, WriteType
<1>3. PlaceInv'
  BY Zenon DEF PlaceInv
<1> QED BY <1>2, <1>3, Zenon

LEMMA WriteInvNext == WriteInv /\ [WriteNext]_writeVars => WriteInv'
<1> SUFFICES ASSUME WriteInv, [WriteNext]_writeVars PROVE WriteInv'
  BY Zenon
<1> USE RequestAssumption, DefaultAssumption, TxByteFacts
<1>1. CASE LineSend
  <2> DEFINE n == Len(sent)
  <2>1. /\ sent' \in Seq(TxByte) /\ Len(sent') = n + 1 /\ sent'[n + 1] = thr
        /\ \A j \in 1..n : sent'[j] = sent[j]
        /\ thr # Empty /\ thr \in TxByte /\ thr' = Empty /\ n \in Nat
    BY <1>1 DEF LineSend, WriteInv, WriteType
  <2>2. /\ UNCHANGED <<lost, wpc, size, idx, base, calls>>
        /\ \A c \in TxByte : Given(c, Count, calls) => Given(c, Count', calls')
    BY <1>1, Zenon DEF LineSend, Given, Count
  <2>3. WriteType'
    BY <2>1, <2>2, Zenon DEF WriteInv, WriteType
  <2>4. OrderInv'
    <3>1. \A j \in 1..n : sent[j] \in TxByte /\ Given(sent[j], Count, calls)
      BY DEF WriteInv, WriteType, OrderInv
    <3>2. \A j \in 1..(n + 1) : Given(sent'[j], Count', calls')
      BY <2>1, <2>2, <3>1 DEF WriteInv, OrderInv
    <3>3. \A b \in lost' : Given(b, Count', calls')
      BY <2>2, Zenon DEF WriteInv, WriteType, OrderInv
    <3>4. \A j, k \in 1..(n + 1) :
            j < k /\ sent'[j][1] = sent'[k][1] => sent'[j][2] < sent'[k][2]
      <4> SUFFICES ASSUME NEW j \in 1..(n + 1), NEW k \in 1..(n + 1), j < k,
                          sent'[j][1] = sent'[k][1]
                   PROVE  sent'[j][2] < sent'[k][2]
        BY Zenon
      <4>1. j \in 1..n /\ sent'[j] = sent[j]
        BY <2>1
      <4>2. CASE k = n + 1
        BY <2>1, <4>1, <4>2, Zenon DEF WriteInv, OrderInv
      <4>3. CASE k \in 1..n
        <5>1. sent'[k] = sent[k]
          BY <2>1, <4>3, Zenon
        <5> QED BY <4>1, <4>3, <5>1, Zenon DEF WriteInv, OrderInv
      <4> QED BY <2>1, <4>2, <4>3
    <3> QED BY <2>1, <3>2, <3>3, <3>4, Zenon DEF OrderInv
  <2>5. PlaceInv'
    <3>1. \A j \in 1..(n + 1) : sent'[j] \notin lost'
      <4>1. \A j \in 1..n : sent[j] \notin lost
        BY Zenon DEF WriteInv, PlaceInv
      <4>2. ASSUME NEW j \in 1..(n + 1) PROVE sent'[j] \notin lost'
        <5>1. CASE j = n + 1
          BY <2>1, <2>2, <5>1, Zenon DEF WriteInv, PlaceInv
        <5>2. CASE j \in 1..n
          BY <2>1, <2>2, <4>1, <5>2, Zenon
        <5> QED BY <2>1, <5>1, <5>2
      <4> QED BY <4>2, Zenon
    <3>2. thr' \notin lost'
      BY <2>1, <2>2, Zenon DEF WriteInv, WriteType
    <3>3. ASSUME NEW w \in Writers, NEW m \in 0..(Count[w] - 1)
          PROVE  \/ \E j \in 1..(n + 1) : sent'[j] = <<w, m>>
                 \/ <<w, m>> \in lost'
      <4>1. CASE <<w, m>> = thr
        BY <2>1, <4>1
      <4>2. CASE <<w, m>> # thr /\ <<w, m>> \notin lost
        <5>1. PICK j \in 1..n : sent[j] = <<w, m>>
          BY <4>2, Zenon DEF WriteInv, PlaceInv
        <5>2. j \in 1..(n + 1) /\ sent'[j] = sent[j]
          BY <2>1
        <5> QED BY <5>1, <5>2, Zenon
      <4> QED BY <2>2, <4>1, <4>2, Zenon
    <3>4. \A w \in Writers : Count'[w] = Count[w]
      BY <2>2, Zenon DEF Count
    <3> QED BY <2>1, <3>1, <3>2, <3>3, <3>4, Zenon DEF PlaceInv
  <2> QED BY <2>1, <2>3, <2>4, <2>5, Zenon DEF WriteInv, OutInv
<1>2. CASE EvtIoDefault
  <2> DEFINE b == <<Default, calls>>
  <2>1. b \in TxByte /\ UartWriteByte(b)
    BY <1>2, Zenon DEF EvtIoDefault, WriteInv, WriteType
  <2>2. UNCHANGED <<sent, wpc, size, idx, base>> /\ calls' = calls + 1
    BY <1>2, Zenon DEF EvtIoDefault
  <2>3. ~ Given(b, Count, calls) /\ Given(b, Count', calls') /\ calls \in Nat
    BY <2>1, <2>2 DEF WriteInv, WriteType, Given
  <2>4. \A w \in Writers : Count'[w] = Count[w] /\ Count[w] \in Nat
    BY <2>2 DEF WriteInv, WriteType, Count
  <2>5. /\ calls' \in Nat /\ calls <= calls' /\ idx' \in [Writers -> Nat]
        /\ wpc' \in [Writers -> {"idle", "poll", "out", "complete"}]
        /\ \A w \in Writers : idx[w] <= idx'[w] /\ (wpc'[w] = "idle" => idx'[w] = 0) /\ b[1] # w
    BY <2>2 DEF WriteInv, WriteType
  <2>6. \A w \in Writers : \A n \in 0..(Count'[w] - 1) : n < Count[w] \/ b = <<w, n>>
    BY <2>4
  <2> HIDE DEF b
  <2> QED BY <2>1, <2>2, <2>3, <2>5, <2>6, NewByte, Zenon
<1>3. ASSUME NEW w \in Writers, WriteBegin(w) PROVE WriteInv'
  <2>1. PICK n \in 1..MaxRequest : size' = [size EXCEPT ![w] = n]
    BY <1>3, Zenon DEF WriteBegin
  <2>2. /\ UNCHANGED <<thr, sent, lost, base>> /\ idx' = [idx EXCEPT ![w] = 0]
        /\ wpc' = [wpc EXCEPT ![w] = "poll"] /\ idx[w] = 0
        /\ calls' \in Nat /\ calls <= calls'
    BY <1>3 DEF WriteBegin, WriteInv, WriteType
  <2>3. \A v \in Writers : Count'[v] = Count[v]
    BY <2>2, Zenon DEF WriteInv, WriteType, Count
  <2>4. WriteType'
    BY <2>1, <2>2 DEF WriteInv, WriteType
  <2>5. OutInv'
    BY <2>2, Zenon DEF WriteInv, WriteType, OutInv
  <2>6. OrderInv' /\ PlaceInv'
    BY <2>2, <2>3, SameBytes, Zenon DEF WriteInv
  <2> QED BY <2>4, <2>5, <2>6, Zenon DEF WriteInv
<1>4. ASSUME NEW w \in Writers, WritePoll(w) PROVE WriteInv'
  <2>1. WriteType' /\ OutInv'
    BY <1>4, Zenon DEF WritePoll, WriteInv, WriteType, OutInv
  <2>2. UNCHANGED <<thr, sent, lost>> /\ calls' = calls /\ \A v \in Writers : Count'[v] = Count[v]
    BY <1>4, Zenon DEF WritePoll, Count
  <2>3. calls' \in Nat /\ calls <= calls'
    BY <2>2 DEF WriteInv, WriteType
  <2>4. OrderInv' /\ PlaceInv'
    BY <2>2, <2>3, SameBytes, Zenon DEF WriteInv
  <2> QED BY <2>1, <2>4, Zenon DEF WriteInv
<1>5. ASSUME NEW w \in Writers, WriteOut(w) PROVE WriteInv'
  <2> DEFINE b == <<w, Count[w]>>
  <2>1. b \in TxByte /\ UartWriteByte(b)
    BY <1>5 DEF WriteOut, WriteInv, WriteType, Count
  <2>2. /\ UNCHANGED <<sent, size, base, calls>> /\ idx' = [idx EXCEPT ![w] = @ + 1]
        /\ wpc' \in [Writers -> {"idle", "poll", "out", "complete"}] /\ wpc'[w] \in {"poll", "complete"}
        /\ \A v \in Writers : v # w => wpc'[v] = wpc[v]
    BY <1>5, Zenon DEF WriteOut, WriteInv, WriteType
  <2>3. Count'[w] = Count[w] + 1 /\ \A v \in Writers : Count[v] \in Nat /\ (v # w => Count'[v] = Count[v])
    BY <2>2 DEF WriteInv, WriteType, Count
  <2>4. ~ Given(b, Count, calls) /\ Given(b, Count', calls')
    BY <2>1, <2>3 DEF Given
  <2>5. /\ \A v \in Writers : idx[v] <= idx'[v] /\ (wpc'[v] = "idle" => idx'[v] = 0)
        /\ \A v \in Writers : wpc'[v] = "out" => b[1] # v
        /\ idx' \in [Writers -> Nat]
    BY <2>2 DEF WriteInv, WriteType
  <2>6. \A v \in Writers : \A n \in 0..(Count'[v] - 1) : n < Count[v] \/ b = <<v, n>>
    BY <2>3
  <2>7. calls' \in Nat /\ calls <= calls'
    BY <2>2 DEF WriteInv, WriteType
  <2> HIDE DEF b
  <2> QED BY <2>1, <2>2, <2>4, <2>5, <2>6, <2>7, NewByte, Zenon
<1>6. ASSUME NEW w \in Writers, WriteComplete(w) PROVE WriteInv'
  <2>1. WriteType' /\ \A v \in Writers : Count'[v] = Count[v]
    BY <1>6 DEF WriteComplete, WriteInv, WriteType, Count
  <2>2. OutInv'
    BY <1>6, Zenon DEF WriteComplete, WriteInv, WriteType, OutInv
  <2>3. UNCHANGED <<thr, sent, lost>> /\ calls' \in Nat /\ calls <= calls'
    BY <1>6 DEF WriteComplete, WriteInv, WriteType
  <2>4. OrderInv' /\ PlaceInv'
    BY <2>1, <2>3, SameBytes, Zenon DEF WriteInv
  <2> QED BY <2>1, <2>2, <2>4, Zenon DEF WriteInv
<1>7. CASE UNCHANGED writeVars
  BY <1>7, SameBytes DEF writeVars, WriteInv, WriteType, OutInv, Count
<1> QED BY <1>1, <1>2, <1>3, <1>4, <1>5, <1>6, <1>7, Zenon DEF WriteNext, EvtIoWrite

\* However the handlers of write.c and EvtIoDefault interleave, for every
\* number of them and requests of every size: the line gets the bytes of each
\* handler in the order of its buffers and none twice, and a byte handed to
\* the register is on the line, still in the register or overwritten.
THEOREM BytesInOrder == WriteSpec => []LineInOrder
<1>1. WriteInv => LineInOrder
  <2> SUFFICES ASSUME WriteInv PROVE LineInOrder
    BY Zenon
  <2> DEFINE onLine == {sent[j] : j \in 1..Len(sent)}
  <2>1. onLine \cap lost = {}
    BY Zenon DEF WriteInv, PlaceInv
  <2>2. thr \notin onLine \cup lost
    <3> SUFFICES ASSUME NEW j \in 1..Len(sent), thr = sent[j] PROVE FALSE
      BY Zenon DEF WriteInv, PlaceInv
    <3>1. thr \in TxByte
      BY DEF WriteInv, WriteType
    <3>2. thr[2] \in Nat /\ thr[2] < thr[2]
      BY <3>1, TxByteFacts, Zenon DEF WriteInv, OrderInv
    <3> QED BY <3>2
  <2>3. Written \subseteq onLine \cup lost \cup {thr}
    <3> SUFFICES ASSUME NEW b \in Written PROVE b \in onLine \cup lost \cup {thr}
      BY Zenon
    <3>0. PICK s \in {{<<w, n>> : n \in 0..(base[w] + idx[w] - 1)} : w \in Writers} : b \in s
      BY Zenon DEF Written
    <3>1. PICK w \in Writers : b \in {<<w, n>> : n \in 0..(base[w] + idx[w] - 1)}
      BY <3>0, Zenon
    <3>2. PICK n \in 0..(base[w] + idx[w] - 1) : b = <<w, n>>
      BY <3>1, Zenon
    <3>3. n \in 0..(Count[w] - 1)
      BY DEF Count, WriteInv, WriteType
    <3> QED BY <3>2, <3>3, Zenon DEF WriteInv, PlaceInv
  <2> QED BY <2>1, <2>2, <2>3, Zenon DEF LineInOrder, WriteInv, OrderInv
<1> QED BY <1>1, WriteInvInit, WriteInvNext, PTL DEF WriteSpec

\* The wait for LSR_ETHR (write.c:35) protects a handler from itself: a byte
\* is only ever overwritten by another handler or by EvtIoDefault.
THEOREM LossFromOthers == WriteSpec => LossNeedsTwo
<1>1. WriteInv /\ [WriteNext]_writeVars =>
        [\A b \in lost' \ lost : b[1] = Default \/ b[1] # thr'[1]]_writeVars
  <2> SUFFICES ASSUME WriteInv, WriteNext, NEW b \in lost' \ lost
               PROVE  b[1] = Default \/ b[1] # thr'[1]
    BY Zenon
  <2>1. CASE EvtIoDefault
    BY <2>1, Zenon DEF EvtIoDefault, UartWriteByte
  <2>2. ASSUME NEW w \in Writers, WriteOut(w) PROVE b[1] # thr'[1]
    BY <2>2, Zenon DEF WriteOut, UartWriteByte, WriteInv, OutInv
  <2>3. lost' # lost => EvtIoDefault \/ \E w \in Writers : WriteOut(w)
    BY Zenon DEF WriteNext, EvtIoWrite, LineSend, WriteBegin, WritePoll, WriteComplete
  <2> QED BY <2>1, <2>2, <2>3, Zenon
<1> QED BY <1>1, WriteInvInit, WriteInvNext, PTL DEF WriteSpec, LossNeedsTwo

-----------------------------------------------------------------------------
(* The receive path (device.c and read.c)                                  *)

USE BufMaxAssumption, LengthAssumption, BytesAssumption, JunkAssumption,
    ReadersAssumption DEF Cells, Bytes

-----------------------------------------------------------------------------
(* The strengthening that makes the type invariant inductive               *)

\* The cell the thread is about to fill exists (device.c:30-32).
RoomToPut == tpc = "put" => len < BufMax

\* What a handler holding the lock is about to take is still in the buffer
\* (read.c:26-31).
FinInBuffer == \A r \in Readers : rpc[r] \in {"copy", "shift"} => fin[r] <= len

BufferInv == TypeOK /\ LockOwned /\ RoomToPut /\ FinInBuffer

LEMMA InitBufferInv == Init => BufferInv
<1> SUFFICES ASSUME Init PROVE BufferInv
  BY Zenon
<1>1. TypeOK
  <2>1. rlen \in [Readers -> 1..MaxLength] /\ fin \in [Readers -> 0..MaxLength]
    BY DEF Init
  <2>2. buf \in [Cells -> Bytes \cup {Junk}]
    BY Zenon DEF Init
  <2>3. overrun \subseteq Bytes /\ delivered \subseteq Bytes /\ dropped \subseteq Bytes
    BY Zenon DEF Init
  <2>4. hw \in {"unset", "ported", "dlab", "ready"} /\ arrived \in 0..MaxBytes
        /\ rbr \in 0..MaxBytes /\ len \in 0..BufMax /\ lateJunk \in 0..2
        /\ lateStores \in 0..2
    BY DEF Init
  <2>5. rpc \in [Readers -> {"idle", "lock", "copy", "shift", "complete"}]
    BY Zenon DEF Init
  <2>6. QED
    BY <2>1, <2>2, <2>3, <2>4, <2>5, Zenon DEF Init, TypeOK
<1>2. LockOwned
  BY Zenon DEF Init, LockOwned
<1>3. QED
  BY <1>1, <1>2, Zenon DEF Init, BufferInv, RoomToPut, FinInBuffer

LEMMA RbrTypes ==
  ASSUME TypeOK
  PROVE  ReadRBR \in Bytes \cup {Junk} /\ RbrAfterRead \in {0, rbr}
  BY DEF TypeOK, ReadRBR, RbrAfterRead

LEMMA LineBytesType ==
  ASSUME TypeOK, NEW from \in Nat
  PROVE  LineBytes(from) \in SUBSET Bytes
  BY Zenon DEF TypeOK, LineBytes

LEMMA ShiftedType ==
  ASSUME TypeOK, NEW n \in Nat
  PROVE  Shifted(n) \in [Cells -> Bytes \cup {Junk}]
  BY DEF TypeOK, Shifted

\* Every step of the thread, the handlers and the environment preserves it.
LEMMA NextBufferInv == BufferInv /\ [Next]_vars => BufferInv'
<1> SUFFICES ASSUME BufferInv, [Next]_vars PROVE BufferInv'
  BY Zenon
<1> USE DEF BufferInv, TypeOK, LockOwned, RoomToPut, FinInBuffer,
            uartVars, reqVars, history
<1>1. CASE LineReceive
  <2>1. arrived' \in 0..MaxBytes /\ rbr' \in 0..MaxBytes
    BY <1>1 DEF LineReceive
  <2>2. overrun' \in SUBSET Bytes
    <3>1. arrived + 1 \in Bytes
      BY <1>1 DEF LineReceive
    <3> HIDE DEF Bytes
    <3>2. QED
      BY <1>1, <3>1, Zenon DEF LineReceive
  <2>3. QED
    BY <1>1, <2>1, <2>2, Zenon DEF LineReceive
<1>2. CASE PrepareHardware
  BY <1>2, Zenon DEF PrepareHardware, AssignPort, SetDlab, ClearDlab
<1>3. CASE ThreadPoll
  BY <1>3, Zenon DEF ThreadPoll
<1>4. CASE ThreadCheck
  BY <1>4, Zenon DEF ThreadCheck
<1>5. CASE ThreadLock
  BY <1>5, Zenon DEF ThreadLock
<1>6. CASE ThreadReset
  <2>1. LineBytes(0) \in SUBSET Bytes
    BY LineBytesType, Zenon
  <2>2. dropped' \in SUBSET Bytes
    BY <1>6, <2>1, Zenon DEF ThreadReset
  <2>5. len' \in 0..BufMax /\ len' < BufMax
    BY <1>6 DEF ThreadReset
  <2>3. \A r \in Readers : rpc[r] \notin {"copy", "shift"}
    BY <1>6, Zenon DEF ThreadReset
  <2>4. QED
    BY <1>6, <2>2, <2>3, <2>5, Zenon DEF ThreadReset
<1>7. CASE ThreadPut
  <2>1. buf' \in [Cells -> Bytes \cup {Junk}] /\ rbr' \in 0..MaxBytes
    BY <1>7, RbrTypes DEF ThreadPut
  <2>2. len' \in 0..BufMax /\ lateJunk' \in 0..2 /\ lateStores' \in 0..2
    BY <1>7 DEF ThreadPut
  <2>3. \A r \in Readers : rpc[r] \notin {"copy", "shift"}
    BY <1>7, Zenon DEF ThreadPut
  <2>4. QED
    BY <1>7, <2>1, <2>2, <2>3, Zenon DEF ThreadPut
<1>8. ASSUME NEW r \in Readers, ReadBegin(r) PROVE BufferInv'
  BY <1>8 DEF ReadBegin
<1>9. ASSUME NEW r \in Readers, ReadLock(r) PROVE BufferInv'
  BY <1>9 DEF ReadLock
<1>10. ASSUME NEW r \in Readers, ReadCopy(r) PROVE BufferInv'
  <2>1. 0..(fin[r] - 1) \subseteq Cells
    BY <1>10 DEF ReadCopy
  <2>2. {buf[i] : i \in 0..(fin[r] - 1)} \ {Junk} \subseteq Bytes
    BY <2>1, Zenon
  <2>3. delivered' \in SUBSET Bytes
    BY <1>10, <2>2, Zenon DEF ReadCopy
  <2>4. QED
    BY <1>10, <2>3, Zenon DEF ReadCopy
<1>11. ASSUME NEW r \in Readers, ReadShift(r) PROVE BufferInv'
  <2>1. fin[r] \in Nat /\ fin[r] <= len
    BY <1>11 DEF ReadShift
  <2>2. buf' \in [Cells -> Bytes \cup {Junk}]
    BY <1>11, <2>1, ShiftedType, Zenon DEF ReadShift
  <2>3. TypeOK'
    BY <1>11, <2>1, <2>2 DEF ReadShift
  <2>4. LockOwned' /\ RoomToPut'
    BY <1>11, <2>1, Zenon DEF ReadShift
  <2>5. FinInBuffer'
    BY <1>11, <2>1, Zenon DEF ReadShift
  <2>6. QED
    BY <2>3, <2>4, <2>5, Zenon
<1>12. ASSUME NEW r \in Readers, ReadComplete(r) PROVE BufferInv'
  BY <1>12, Zenon DEF ReadComplete
<1>13. CASE DeviceContextCleanup
  BY <1>13, Zenon DEF DeviceContextCleanup
<1>14. CASE UNCHANGED vars
  BY <1>14, Zenon DEF vars
<1>15. QED
  BY <1>1, <1>2, <1>3, <1>4, <1>5, <1>6, <1>7, <1>8, <1>9, <1>10, <1>11,
     <1>12, <1>13, <1>14, Zenon DEF Next, Thread, Read

\* The length of the read buffer stays within its array, requests never take
\* more than the buffer holds or than they asked for, and buffer and length
\* are only touched by the owner of the wait lock.
THEOREM TypeCorrect == Spec => []TypeOK /\ []LockOwned
<1>1. BufferInv => TypeOK /\ LockOwned
  BY Zenon DEF BufferInv
<1>2. QED
  BY InitBufferInv, NextBufferInv, <1>1, PTL DEF Spec

-----------------------------------------------------------------------------
(* The junk byte of the start-up race                                      *)

\* Once the port is ready, a junk byte can only come from a poll that was
\* answered before; the thread spends that poll with its first store.
JunkInv ==
    /\ lateJunk <= 1
    /\ lateJunk = 1 => /\ hw = "ready"
                       /\ tpc \in {"check", "lock", "reset", "put"} => rbr # 0

LEMMA NextJunkInv == TypeOK /\ JunkInv /\ [Next]_vars => JunkInv'
<1> SUFFICES ASSUME TypeOK, JunkInv, [Next]_vars PROVE JunkInv'
  BY Zenon
<1> USE DEF JunkInv, TypeOK, uartVars, reqVars, history
<1>1. CASE LineReceive
  BY <1>1, Zenon DEF LineReceive
<1>2. CASE PrepareHardware
  BY <1>2, Zenon DEF PrepareHardware, AssignPort, SetDlab, ClearDlab
<1>3. CASE ThreadPoll
  BY <1>3, Zenon DEF ThreadPoll, DataAvailable
<1>4. CASE ThreadCheck \/ ThreadLock \/ ThreadReset
  BY <1>4, Zenon DEF ThreadCheck, ThreadLock, ThreadReset
<1>5. CASE ThreadPut
  BY <1>5 DEF ThreadPut, ReadRBR, RbrVisible, RbrAfterRead
<1>6. ASSUME NEW r \in Readers, ReadBegin(r) \/ Read(r) PROVE JunkInv'
  BY <1>6, Zenon DEF ReadBegin, Read, ReadLock, ReadCopy, ReadShift, ReadComplete
<1>7. CASE DeviceContextCleanup
  BY <1>7, Zenon DEF DeviceContextCleanup
<1>8. CASE UNCHANGED vars
  BY <1>8, Zenon DEF vars
<1>9. QED
  BY <1>1, <1>2, <1>3, <1>4, <1>5, <1>6, <1>7, <1>8, Zenon DEF Next, Thread

\* However thread and set-up interleave, at most one byte that the line never
\* sent is stored after EvtPrepareHardware has finished with the UART.
THEOREM LateJunkBounded == Spec => []AtMostOneLateJunk
<1>1. Init => JunkInv
  BY DEF Init, JunkInv
<1>2. JunkInv => AtMostOneLateJunk
  BY Zenon DEF JunkInv, AtMostOneLateJunk
<1>3. QED
  BY TypeCorrect, NextJunkInv, <1>1, <1>2, PTL DEF Spec

-----------------------------------------------------------------------------
(* The thread that cleanup does not wait for                               *)

\* Once the thread has stored a byte after mustExit was set, it is back in the
\* loop that looks at mustExit.
StoreInv ==
    /\ lateStores <= 1
    /\ lateStores = 1 => mustExit /\ tpc \in {"poll", "exited"}

LEMMA NextStoreInv == TypeOK /\ StoreInv /\ [Next]_vars => StoreInv'
<1> SUFFICES ASSUME TypeOK, StoreInv, [Next]_vars PROVE StoreInv'
  OBVIOUS
<1> USE DEF StoreInv, TypeOK, uartVars, reqVars, history
<1>1. CASE LineReceive \/ PrepareHardware
  BY <1>1, Zenon DEF LineReceive, PrepareHardware
<1>2. CASE ThreadPoll
  BY <1>2, Zenon DEF ThreadPoll
<1>3. CASE ThreadCheck \/ ThreadLock \/ ThreadReset
  BY <1>3, Zenon DEF ThreadCheck, ThreadLock, ThreadReset
<1>4. CASE ThreadPut
  BY <1>4 DEF ThreadPut
<1>5. ASSUME NEW r \in Readers, ReadBegin(r) \/ Read(r) PROVE StoreInv'
  BY <1>5, Zenon DEF ReadBegin, Read, ReadLock, ReadCopy, ReadShift, ReadComplete
<1>6. CASE DeviceContextCleanup
  BY <1>6, Zenon DEF DeviceContextCleanup
<1>7. CASE UNCHANGED vars
  BY <1>7, Zenon DEF vars
<1>8. QED
  BY <1>1, <1>2, <1>3, <1>4, <1>5, <1>6, <1>7, Zenon DEF Next, Thread

\* The thread stores at most one byte into the device context after the
\* cleanup callback, whatever it was doing when mustExit was set.
THEOREM LateStoresBounded == Spec => []AtMostOneLateStore
<1>1. Init => StoreInv
  BY DEF Init, StoreInv
<1>2. StoreInv => AtMostOneLateStore
  BY Zenon DEF StoreInv, AtMostOneLateStore
<1>3. QED
  BY TypeCorrect, NextStoreInv, <1>1, <1>2, PTL DEF Spec

-----------------------------------------------------------------------------
(* The bounded queue                                                       *)

\* Everything that ever entered the buffer arrived before what the receive
\* register holds.
Older(b) == b <= arrived /\ (rbr # 0 => b < rbr)

AgeInv ==
    /\ rbr <= arrived
    /\ \A i \in Cells : i < len /\ buf[i] # Junk => Older(buf[i])
    /\ \A b \in delivered \cup dropped : Older(b)

LEMMA AgeUnchanged ==
  ASSUME AgeInv, UNCHANGED <<arrived, rbr, buf, len, delivered, dropped>>
  PROVE  AgeInv'
  BY Zenon DEF AgeInv, Older

LEMMA NextAgeInv == BufferInv /\ AgeInv /\ [Next]_vars => AgeInv'
<1> SUFFICES ASSUME BufferInv, AgeInv, [Next]_vars PROVE AgeInv'
  BY Zenon
<1> USE DEF BufferInv, AgeInv, Older, TypeOK, uartVars, reqVars, history
<1>1. CASE LineReceive
  <2>1. buf' = buf /\ len' = len /\ delivered' = delivered /\ dropped' = dropped
    BY <1>1, Zenon DEF LineReceive
  <2>2. arrived' = arrived + 1 /\ rbr' \in {rbr, arrived + 1} /\ (rbr # 0 => rbr' = rbr)
    BY <1>1, Zenon DEF LineReceive
  <2>3. \A b \in Nat : Older(b) => Older(b)'
    BY <2>2
  <2>4. QED
    BY <2>1, <2>2, <2>3
<1>2. CASE PrepareHardware
  BY <1>2, AgeUnchanged, Zenon DEF PrepareHardware
<1>3. CASE ThreadPoll \/ ThreadCheck \/ ThreadLock
  <2>1. UNCHANGED <<arrived, rbr, buf, len, delivered, dropped>>
    BY <1>3, Zenon DEF ThreadPoll, ThreadCheck, ThreadLock
  <2>2. QED
    BY <2>1, AgeUnchanged, Zenon
<1>4. CASE ThreadReset
  <2>1. \A b \in LineBytes(0) : Older(b)
    BY Zenon DEF LineBytes
  <2>2. \A b \in delivered' \cup dropped' : Older(b)
    BY <1>4, <2>1, Zenon DEF ThreadReset
  <2>3. arrived' = arrived /\ rbr' = rbr /\ buf' = buf /\ (len' = len \/ len' = 0)
    BY <1>4, Zenon DEF ThreadReset
  <2>4. QED
    BY <2>2, <2>3
<1>5. CASE ThreadPut
  BY <1>5 DEF ThreadPut, ReadRBR, RbrAfterRead, RbrVisible, RoomToPut
<1>6. ASSUME NEW r \in Readers, ReadBegin(r) \/ ReadLock(r) \/ ReadComplete(r)
      PROVE  AgeInv'
  <2>1. UNCHANGED <<arrived, rbr, buf, len, delivered, dropped>>
    BY <1>6, Zenon DEF ReadBegin, ReadLock, ReadComplete
  <2>2. QED
    BY <2>1, AgeUnchanged, Zenon
<1>7. ASSUME NEW r \in Readers, ReadCopy(r) PROVE AgeInv'
  <2>1. 0..(fin[r] - 1) \subseteq Cells /\ \A i \in 0..(fin[r] - 1) : i < len
    BY <1>7 DEF ReadCopy, FinInBuffer
  <2>2. \A b \in {buf[i] : i \in 0..(fin[r] - 1)} \ {Junk} : Older(b)
    BY <2>1, Zenon
  <2>3. \A b \in delivered' \cup dropped' : Older(b)
    BY <1>7, <2>2, Zenon DEF ReadCopy
  <2>4. arrived' = arrived /\ rbr' = rbr /\ buf' = buf /\ len' = len
    BY <1>7, Zenon DEF ReadCopy
  <2>5. QED
    BY <2>3, <2>4, Zenon
<1>8. ASSUME NEW r \in Readers, ReadShift(r) PROVE AgeInv'
  <2>1. fin[r] \in Nat /\ fin[r] <= len
    BY <1>8 DEF ReadShift, FinInBuffer
  <2>2. \A i \in Cells : i < len' => i + fin[r] \in Cells /\ i + fin[r] < len
                                     /\ buf'[i] = buf[i + fin[r]]
    BY <1>8, <2>1 DEF ReadShift, Shifted
  <2>3. QED
    BY <1>8, <2>2, Zenon DEF ReadShift
<1>9. CASE DeviceContextCleanup
  BY <1>9, Zenon DEF DeviceContextCleanup
<1>10. CASE UNCHANGED vars
  BY <1>10, Zenon DEF vars
<1>11. QED
  BY <1>1, <1>2, <1>3, <1>4, <1>5, <1>6, <1>7, <1>8, <1>9, <1>10, Zenon
     DEF Next, Thread, Read

\* The queue is a sequence, and its elements are cells of the buffer.
QueueShape ==
    /\ Taken \in Nat /\ Taken <= len
    /\ Queue \in Seq(Bytes \cup {Junk})
    /\ Len(Queue) = len - Taken
    /\ \A i \in 1..(len - Taken) :
          i - 1 + Taken \in Cells /\ Queue[i] = buf[i - 1 + Taken]

LEMMA QueueIsSequence == BufferInv => QueueShape
<1> SUFFICES ASSUME BufferInv PROVE QueueShape
  BY Zenon
<1> USE DEF BufferInv, TypeOK, LockOwned, FinInBuffer
<1>1. Taken \in Nat /\ Taken <= len
  BY DEF Taken
<1>2. \A i \in 1..(len - Taken) : i - 1 + Taken \in Cells
  BY <1>1
<1>3. \A i \in 1..(len - Taken) : buf[i - 1 + Taken] \in Bytes \cup {Junk}
  BY <1>2, Zenon
<1>4. len - Taken \in Nat
  BY <1>1
<1>5. Queue \in [1..(len - Taken) -> Bytes \cup {Junk}]
  BY <1>3, Zenon DEF Queue
<1>6. Queue \in Seq(Bytes \cup {Junk}) /\ Len(Queue) = len - Taken
  BY <1>4, <1>5
<1>7. QED
  BY <1>1, <1>2, <1>6, Zenon DEF Queue, QueueShape

\* A line byte that the queue holds is in a cell of the buffer.
LEMMA PrefixInCells ==
  ASSUME QueueShape, NEW n \in Nat, n <= len - Taken
  PROVE  Buffer!Prefix(n) =
            {buf[i] : i \in {j \in Cells : Taken <= j /\ j < Taken + n}} \ {Junk}
<1> DEFINE C == {j \in Cells : Taken <= j /\ j < Taken + n}
<1>1. ASSUME NEW i \in 1..n PROVE i - 1 + Taken \in C /\ Queue[i] = buf[i - 1 + Taken]
  BY DEF QueueShape
<1>2. ASSUME NEW j \in C PROVE j - Taken + 1 \in 1..n /\ Queue[j - Taken + 1] = buf[j]
  BY DEF QueueShape
<1> HIDE DEF C
<1>3. {Queue[i] : i \in 1..n} \subseteq {buf[j] : j \in C}
  BY <1>1, Zenon
<1>4. {buf[j] : j \in C} \subseteq {Queue[i] : i \in 1..n}
  BY <1>2, Zenon
<1>5. {Queue[i] : i \in 1..n} = {buf[j] : j \in C}
  BY <1>3, <1>4, Zenon
<1>6. QED
  BY <1>5, Zenon DEF C, Buffer!Prefix

\* A sequence that agrees with another and has one element more.
LEMMA AppendEqual ==
  ASSUME NEW S, NEW q \in Seq(S), NEW t \in Seq(S), NEW e \in S,
         Len(t) = Len(q) + 1, \A i \in 1..Len(q) : t[i] = q[i], t[Len(q) + 1] = e
  PROVE  t = Append(q, e)
<1>1. Len(q) \in Nat
  BY LenProperties, Zenon
<1>2. Append(q, e) \in Seq(S) /\ Len(Append(q, e)) = Len(q) + 1
  BY AppendProperties, Zenon
<1>3. ASSUME NEW i \in 1..Len(t) PROVE t[i] = Append(q, e)[i]
  <2>1. CASE i = Len(q) + 1
    BY <2>1, AppendProperties
  <2>2. CASE i \in 1..Len(q)
    BY <2>2, AppendProperties
  <2>3. QED
    BY <1>1, <2>1, <2>2
<1>4. QED
  BY <1>2, <1>3, SeqEqual, Zenon

\* A sequence that agrees with the rest of another.
LEMMA RestEqual ==
  ASSUME NEW S, NEW q \in Seq(S), NEW t \in Seq(S), NEW n \in 0..Len(q),
         Len(t) = Len(q) - n, \A i \in 1..Len(t) : t[i] = q[i + n]
  PROVE  t = SubSeq(q, n + 1, Len(q))
<1> DEFINE u == SubSeq(q, n + 1, Len(q))
<1>1. Len(q) \in Nat /\ \A i \in (n + 1)..Len(q) : q[i] \in S
  BY LenProperties
<1>2. /\ u \in Seq(S)
      /\ Len(u) = IF n + 1 <= Len(q) THEN Len(q) - (n + 1) + 1 ELSE 0
      /\ \A i \in 1..(Len(q) - (n + 1) + 1) : u[i] = q[n + 1 + i - 1]
  BY <1>1, SubSeqProperties
<1>3. Len(t) = Len(u) /\ \A i \in 1..Len(t) : t[i] = u[i]
  BY <1>1, <1>2
<1>4. QED
  BY <1>2, <1>3, SeqEqual, Zenon

\* Storing a byte.
LEMMA PutStep ==
  ASSUME BufferInv, AgeInv, QueueShape, QueueShape', ThreadPut
  PROVE  \E b \in Bytes \cup {Junk} : Buffer!Put(b)
<1> USE DEF BufferInv, TypeOK, LockOwned, RoomToPut
<1>1. Taken = 0 /\ Taken' = 0
  BY Zenon DEF ThreadPut, Taken
<1>2. ReadRBR \in Bytes \cup {Junk}
  BY RbrTypes, Zenon
<1>3. Queue' = Append(Queue, ReadRBR)
  <2>1. Len(Queue) = len /\ Len(Queue') = len' /\ len \in Cells
    BY <1>1 DEF QueueShape, ThreadPut
  <2>2. \A i \in 1..len : Queue[i] = buf[i - 1]
    BY <1>1 DEF QueueShape
  <2>3. len' = len + 1 /\ buf' = [buf EXCEPT ![len] = ReadRBR]
    BY Zenon DEF ThreadPut
  <2>4. \A i \in 1..(len + 1) : Queue'[i] = buf'[i - 1]
    BY <1>1, <2>1, <2>3 DEF QueueShape
  <2>5. \A i \in 1..len : Queue'[i] = Queue[i]
    BY <2>1, <2>2, <2>3, <2>4
  <2>6. Queue'[len + 1] = ReadRBR
    BY <2>1, <2>3, <2>4
  <2>7. Queue \in Seq(Bytes \cup {Junk}) /\ Queue' \in Seq(Bytes \cup {Junk})
    BY Zenon DEF QueueShape
  <2> HIDE DEF BufferInv
  <2>8. QED
    BY <1>2, <2>1, <2>3, <2>5, <2>6, <2>7, AppendEqual
<1>4. Len(Queue) < BufMax
  BY <1>1 DEF QueueShape, ThreadPut
<1>5. ASSUME ReadRBR # Junk,
             NEW c \in Buffer!Prefix(Len(Queue)) \cup delivered \cup dropped
      PROVE  c < ReadRBR
  <2>1. ReadRBR = rbr /\ rbr # 0
    BY <1>5, Zenon DEF ReadRBR
  <2>2. CASE c \in delivered \cup dropped
    BY <2>1, <2>2, Zenon DEF AgeInv, Older
  <2>3. CASE c \in Buffer!Prefix(Len(Queue))
    <3>1. PICK i \in Cells : i < len /\ c = buf[i] /\ buf[i] # Junk
      <4>1. Len(Queue) = len /\ Taken = 0 /\ len \in Nat
        BY <1>1 DEF QueueShape
      <4> HIDE DEF BufferInv
      <4>2. Buffer!Prefix(len) = {buf[i] : i \in {j \in Cells : 0 <= j /\ j < 0 + len}} \ {Junk}
        BY <4>1, PrefixInCells
      <4>3. PICK i \in {j \in Cells : 0 <= j /\ j < 0 + len} : c = buf[i] /\ buf[i] # Junk
        BY <2>3, <4>1, <4>2, Zenon
      <4> QED BY <4>1, <4>3
    <3>2. QED
      BY <2>1, <3>1, Zenon DEF AgeInv, Older
  <2>4. QED
    BY <1>5, <2>2, <2>3, Zenon
<1>6. UNCHANGED <<delivered, dropped>>
  BY Zenon DEF ThreadPut
<1>7. QED
  BY <1>2, <1>3, <1>4, <1>5, <1>6, Zenon DEF Buffer!Put

\* Emptying a full buffer; a reset that finds room changes nothing.
LEMMA ResetStep ==
  ASSUME BufferInv, QueueShape, QueueShape', ThreadReset
  PROVE  Buffer!Drop \/ UNCHANGED <<Queue, delivered, dropped>>
<1> USE DEF BufferInv, TypeOK, LockOwned
<1>1. Taken = 0 /\ Taken' = 0
  BY Zenon DEF ThreadReset, Taken
<1>2. CASE len >= BufMax
  <2>1. len = BufMax /\ len' = 0 /\ dropped' = dropped \cup LineBytes(0)
        /\ delivered' = delivered
    BY <1>2 DEF ThreadReset
  <2>2. Len(Queue) = BufMax
    BY <1>1, <2>1 DEF QueueShape
  <2>3. Queue' = <<>>
    BY <1>1, <2>1, EmptySeq DEF QueueShape
  <2>4. Buffer!Prefix(Len(Queue)) = LineBytes(0)
    <3>1. Buffer!Prefix(len) =
            {buf[i] : i \in {j \in Cells : 0 <= j /\ j < 0 + len}} \ {Junk}
      BY <1>1, PrefixInCells
    <3>2. QED
      BY <2>1, <2>2, <3>1 DEF LineBytes
  <2>5. QED
    BY <2>1, <2>2, <2>3, <2>4, Zenon DEF Buffer!Drop
<1>3. CASE ~(len >= BufMax)
  <2>1. len' = len /\ buf' = buf /\ delivered' = delivered /\ dropped' = dropped
    BY <1>3, Zenon DEF ThreadReset
  <2>2. QED
    BY <1>1, <2>1, Zenon DEF Queue
<1>4. QED
  BY <1>2, <1>3, Zenon

\* The copy of a request is the moment its bytes leave the queue.
LEMMA CopyStep ==
  ASSUME BufferInv, QueueShape, QueueShape', NEW r \in Readers, ReadCopy(r)
  PROVE  (\E n \in 1..Len(Queue) : Buffer!Take(n))
         \/ UNCHANGED <<Queue, delivered, dropped>>
<1> DEFINE n == fin[r]
<1>1. Taken = 0 /\ Taken' = n /\ n \in Nat /\ n <= len /\ len \in Nat
  BY DEF BufferInv, TypeOK, LockOwned, FinInBuffer, ReadCopy, Taken
<1>2. len' = len /\ buf' = buf /\ dropped' = dropped
      /\ delivered' = delivered \cup ({buf[i] : i \in 0..(n - 1)} \ {Junk})
  BY Zenon DEF ReadCopy
<1>3. Len(Queue) = len /\ Len(Queue') = len - n
  BY <1>1, <1>2 DEF QueueShape
<1>4. \A i \in 1..len : Queue[i] = buf[i - 1]
  BY <1>1 DEF QueueShape
<1>5. \A i \in 1..(len - n) : Queue'[i] = buf[i - 1 + n]
  BY <1>1, <1>2, Zenon DEF QueueShape
<1>6. Queue \in Seq(Bytes \cup {Junk}) /\ Queue' \in Seq(Bytes \cup {Junk})
  BY Zenon DEF QueueShape
<1> HIDE DEF n
<1>7. Queue' = SubSeq(Queue, n + 1, Len(Queue))
  <2>1. \A i \in 1..(len - n) : Queue'[i] = Queue[i + n]
    BY <1>1, <1>4, <1>5
  <2>2. QED
    <3>1. Len(Queue') = Len(Queue) - n /\ n \in 0..Len(Queue)
      BY <1>1, <1>3
    <3>2. \A i \in 1..Len(Queue') : Queue'[i] = Queue[i + n]
      BY <1>3, <2>1, Zenon
    <3>3. QED
      BY <1>6, <3>1, <3>2, RestEqual, Zenon
<1>8. delivered' = delivered \cup Buffer!Prefix(n)
  <2>1. Buffer!Prefix(n) =
            {buf[i] : i \in {j \in Cells : 0 <= j /\ j < 0 + n}} \ {Junk}
    BY <1>1, PrefixInCells
  <2>2. {j \in Cells : 0 <= j /\ j < 0 + n} = 0..(n - 1)
    BY <1>1 DEF BufferInv, TypeOK
  <2>3. QED
    BY <1>2, <2>1, <2>2, Zenon
<1>9. CASE n = 0
  <2>1. Queue' = Queue
    BY <1>1, <1>2, <1>9, Zenon DEF Queue
  <2>2. delivered' = delivered
    BY <1>2, <1>9
  <2>3. QED
    BY <1>2, <2>1, <2>2, Zenon
<1>10. CASE n # 0
  <2>1. n \in 1..Len(Queue)
    BY <1>1, <1>3, <1>10
  <2>2. Buffer!Take(n)
    BY <1>2, <1>7, <1>8, Zenon DEF Buffer!Take
  <2>3. QED
    BY <2>1, <2>2, Zenon
<1>11. QED
  BY <1>9, <1>10, Zenon

\* The move that follows leaves the queue as the copy left it.
LEMMA ShiftStep ==
  ASSUME BufferInv, QueueShape, QueueShape', NEW r \in Readers, ReadShift(r)
  PROVE  UNCHANGED <<Queue, delivered, dropped>>
<1> DEFINE n == fin[r]
<1>1. Taken = n /\ Taken' = 0 /\ n \in Nat /\ n <= len /\ len \in 0..BufMax
  BY DEF BufferInv, TypeOK, LockOwned, FinInBuffer, ReadShift, Taken
<1>2. len' = len - n /\ buf' = Shifted(n)
  BY Zenon DEF ReadShift
<1> HIDE DEF n
<1>3. \A i \in 1..(len - n) : Shifted(n)[i - 1] = buf[i - 1 + n]
  BY <1>1 DEF Shifted
<1>4. Queue' = Queue
  BY <1>1, <1>2, <1>3 DEF Queue
<1>5. QED
  BY <1>4, Zenon DEF ReadShift, history

\* The other steps leave the queue alone.
LEMMA OtherSteps ==
  ASSUME BufferInv, UNCHANGED <<buf, len, delivered, dropped>>,
         \/ UNCHANGED <<lock, rpc, fin>>
         \/ ThreadLock
         \/ \E r \in Readers : ReadBegin(r) \/ ReadLock(r) \/ ReadComplete(r)
  PROVE  UNCHANGED <<Queue, delivered, dropped>>
<1>1. Taken' = Taken
  BY DEF BufferInv, TypeOK, LockOwned, Taken, ThreadLock, ReadBegin, ReadLock,
         ReadComplete, reqVars
<1>2. QED
  BY <1>1, Zenon DEF Queue

LEMMA StepRefines ==
  BufferInv /\ BufferInv' /\ AgeInv /\ [Next]_vars => [Buffer!Next]_(Buffer!vars)
<1> SUFFICES ASSUME BufferInv, BufferInv', AgeInv, [Next]_vars,
                    ~UNCHANGED <<Queue, delivered, dropped>>
             PROVE  Buffer!Next
  BY Zenon DEF Buffer!vars
<1>1. QueueShape
  BY QueueIsSequence, Zenon
<1>2. QueueShape'
  BY QueueIsSequence, PTL
<1> USE DEF uartVars, reqVars, history
<1>3. CASE LineReceive
  BY <1>3, OtherSteps, Zenon DEF LineReceive
<1>4. CASE PrepareHardware
  BY <1>4, OtherSteps, Zenon DEF PrepareHardware
<1>5. CASE ThreadPoll \/ ThreadCheck
  BY <1>5, OtherSteps, Zenon DEF ThreadPoll, ThreadCheck
<1>6. CASE ThreadLock
  BY <1>6, OtherSteps, Zenon DEF ThreadLock
<1>7. CASE ThreadReset
  BY <1>1, <1>2, <1>7, ResetStep, Zenon DEF Buffer!Next
<1>8. CASE ThreadPut
  BY <1>1, <1>2, <1>8, PutStep, Zenon DEF Buffer!Next
<1>9. ASSUME NEW r \in Readers, ReadBegin(r) \/ ReadLock(r) \/ ReadComplete(r)
      PROVE  Buffer!Next
  <2>1. UNCHANGED <<buf, len, delivered, dropped>>
    BY <1>9, Zenon DEF ReadBegin, ReadLock, ReadComplete
  <2>2. QED
    BY <1>9, <2>1, OtherSteps, Zenon
<1>10. ASSUME NEW r \in Readers, ReadCopy(r) PROVE Buffer!Next
  BY <1>1, <1>2, <1>10, CopyStep, Zenon DEF Buffer!Next
<1>11. ASSUME NEW r \in Readers, ReadShift(r) PROVE Buffer!Next
  BY <1>1, <1>2, <1>11, ShiftStep, Zenon
<1>12. CASE DeviceContextCleanup
  BY <1>12, OtherSteps, Zenon DEF DeviceContextCleanup
<1>13. CASE UNCHANGED vars
  BY <1>13, OtherSteps, Zenon DEF vars
<1>14. QED
  BY <1>3, <1>4, <1>5, <1>6, <1>7, <1>8, <1>9, <1>10, <1>11, <1>12, <1>13, Zenon
     DEF Next, Thread, Read

\* For every buffer size, every set of concurrent requests and every number of
\* bytes, the polling thread and the read handlers implement the bounded queue
\* of LossyBuffer: order, atomic takes, and losses only of a full buffer.
THEOREM ReadRefines == Spec => ImplementsLossyBuffer
<1>1. Init => Buffer!Init
  BY DEF Init, Buffer!Init, Queue, Taken
<1>2. Init => BufferInv /\ AgeInv
  BY InitBufferInv DEF Init, AgeInv, Older
<1>3. QED
  BY <1>1, <1>2, NextBufferInv, NextAgeInv, StepRefines, PTL
     DEF Spec, ImplementsLossyBuffer, Buffer!Spec

-----------------------------------------------------------------------------
(* Where the bytes are                                                     *)

\* No line byte is in two cells, so a copy and the rest of the buffer share
\* none.
CellsDistinct ==
    \A i, j \in Cells :
        i < j /\ j < len /\ buf[i] # Junk /\ buf[j] # Junk => buf[i] # buf[j]

\* The five places of ByteAccounting, for any sets.
Partition(n, o, r, l, d, t) ==
    /\ o \cup r \cup l \cup d \cup t = 1..n
    /\ o \cap r = {} /\ o \cap l = {} /\ o \cap d = {} /\ o \cap t = {}
    /\ r \cap l = {} /\ r \cap d = {} /\ r \cap t = {}
    /\ l \cap d = {} /\ l \cap t = {} /\ d \cap t = {}

PartitionInv ==
    Partition(arrived, overrun, {rbr} \ {0}, LineBytes(Taken), delivered, dropped)

LEMMA PartitionIsAccounting == PartitionInv => ByteAccounting
<1> DEFINE L == LineBytes(Taken)
           R == {rbr} \ {0}
           parts == <<overrun, R, L, delivered, dropped>>
<1> SUFFICES ASSUME PartitionInv PROVE ByteAccounting
  BY Zenon
<1>1. Partition(arrived, overrun, R, L, delivered, dropped)
  BY Zenon DEF PartitionInv
<1>2. parts[1] = overrun /\ parts[2] = R /\ parts[3] = L
      /\ parts[4] = delivered /\ parts[5] = dropped
  BY Zenon
<1> HIDE DEF L, R, parts
<1>3. \A i \in 1..5 : i = 1 \/ i = 2 \/ i = 3 \/ i = 4 \/ i = 5
  OBVIOUS
<1>4. UNION {parts[i] : i \in 1..5} = overrun \cup R \cup L \cup delivered \cup dropped
  <2>1. ASSUME NEW b PROVE b \in UNION {parts[i] : i \in 1..5} <=>
                             \E i \in 1..5 : b \in parts[i]
    BY Zenon
  <2>2. ASSUME NEW b PROVE (\E i \in 1..5 : b \in parts[i]) <=>
                             b \in overrun \cup R \cup L \cup delivered \cup dropped
    BY <1>2, <1>3
  <2>3. QED
    BY <2>1, <2>2, Zenon
<1>5. ASSUME NEW i \in 1..5, NEW j \in 1..5, i # j PROVE parts[i] \cap parts[j] = {}
  BY <1>1, <1>2, <1>3, <1>5, Zenon DEF Partition
<1>6. QED
  BY <1>1, <1>4, <1>5, Zenon DEF ByteAccounting, Partition, parts, L, R

\* The steps of a partition: a byte arrives, and a part moves into another.
LEMMA PartitionGrows ==
  ASSUME NEW n \in Nat, NEW o, NEW r, NEW l, NEW d, NEW t,
         Partition(n, o, r, l, d, t)
  PROVE  /\ Partition(n + 1, o \cup {n + 1}, r, l, d, t)
         /\ r = {} => Partition(n + 1, o, {n + 1}, l, d, t)
<1>1. 1..(n + 1) = 1..n \cup {n + 1} /\ n + 1 \notin 1..n
  OBVIOUS
<1> DEFINE m == n + 1
           N == 1..n
<1> HIDE DEF m, N
<1>2. N \cup {m} = 1..m /\ m \notin N /\ N = 1..n
  BY <1>1, Zenon DEF m, N
<1>3. o \cup r \cup l \cup d \cup t = N
  BY <1>2, Zenon DEF Partition
<1>4. m \notin o /\ m \notin r /\ m \notin l /\ m \notin d /\ m \notin t
  BY <1>2, <1>3, Zenon
<1>5. (o \cup {m}) \cup r \cup l \cup d \cup t = 1..m
  BY <1>2, <1>3, Zenon
<1>6. r = {} => o \cup {m} \cup l \cup d \cup t = 1..m
  BY <1>2, <1>3, Zenon
<1>7. Partition(m, o \cup {m}, r, l, d, t)
  BY <1>4, <1>5 DEF Partition
<1>8. r = {} => Partition(m, o, {m}, l, d, t)
  BY <1>4, <1>6 DEF Partition
<1>9. QED
  BY <1>7, <1>8, Zenon DEF m

LEMMA PartitionMoves ==
  ASSUME NEW n, NEW o, NEW r, NEW l, NEW d, NEW t, NEW p,
         Partition(n, o, r, l, d, t)
  PROVE  /\ Partition(n, o, {}, l \cup r, d, t)
         /\ Partition(n, o, r, {}, d, t \cup l)
         /\ p \subseteq l => Partition(n, o, r, l \ p, d \cup p, t)
<1>1. Partition(n, o, {}, l \cup r, d, t)
  BY Zenon DEF Partition
<1>2. Partition(n, o, r, {}, d, t \cup l)
  BY Zenon DEF Partition
<1>3. p \subseteq l => Partition(n, o, r, l \ p, d \cup p, t)
  BY Zenon DEF Partition
<1>4. QED
  BY <1>1, <1>2, <1>3, Zenon

LEMMA NextCellsDistinct ==
  BufferInv /\ AgeInv /\ CellsDistinct /\ [Next]_vars => CellsDistinct'
<1> SUFFICES ASSUME BufferInv, AgeInv, CellsDistinct, [Next]_vars PROVE CellsDistinct'
  BY Zenon
<1> USE DEF uartVars, reqVars, history
<1>1. CASE UNCHANGED <<buf, len>>
  BY <1>1, Zenon DEF CellsDistinct
<1>2. CASE ThreadReset
  <2>1. buf' = buf /\ (len' = len \/ len' = 0)
    BY <1>2, Zenon DEF ThreadReset
  <2>2. QED
    BY <2>1 DEF CellsDistinct
<1>3. CASE ThreadPut
  <2>1. len' = len + 1 /\ buf' = [buf EXCEPT ![len] = ReadRBR] /\ len \in Cells
        /\ buf \in [Cells -> Bytes \cup {Junk}]
    BY <1>3 DEF ThreadPut, BufferInv, TypeOK, RoomToPut
  <2>2. \A i \in Cells : i < len /\ buf[i] # Junk /\ ReadRBR # Junk => buf[i] # ReadRBR
    BY <2>1 DEF ReadRBR, AgeInv, Older, BufferInv, TypeOK
  <2>3. SUFFICES ASSUME NEW i \in Cells, NEW j \in Cells, i < j, j < len',
                        buf'[i] # Junk, buf'[j] # Junk
                 PROVE  buf'[i] # buf'[j]
    BY Zenon DEF CellsDistinct
  <2>4. i # len /\ buf'[i] = buf[i] /\ i < len
    BY <2>1, <2>3
  <2>5. CASE j = len
    BY <2>1, <2>2, <2>3, <2>4, <2>5, Zenon
  <2>6. CASE j # len
    BY <2>1, <2>3, <2>4, <2>6 DEF CellsDistinct
  <2>7. QED
    BY <2>5, <2>6, Zenon
<1>4. ASSUME NEW r \in Readers, ReadShift(r) PROVE CellsDistinct'
  <2>1. fin[r] \in Nat /\ fin[r] <= len /\ len \in 0..BufMax /\ len' = len - fin[r]
    BY <1>4 DEF ReadShift, BufferInv, TypeOK, FinInBuffer
  <2>2. \A i \in Cells : i < len' => i + fin[r] \in Cells /\ i + fin[r] < len
                                     /\ buf'[i] = buf[i + fin[r]]
    BY <1>4, <2>1 DEF ReadShift, Shifted
  <2>3. QED
    BY <2>1, <2>2 DEF CellsDistinct
<1>5. ASSUME NEW r \in Readers, ReadBegin(r) \/ Read(r), ~ReadShift(r)
      PROVE  UNCHANGED <<buf, len>>
  BY <1>5, Zenon DEF ReadBegin, Read, ReadLock, ReadCopy, ReadComplete
<1>6. CASE LineReceive \/ PrepareHardware \/ ThreadPoll \/ ThreadCheck \/ ThreadLock
           \/ DeviceContextCleanup \/ UNCHANGED vars
  BY <1>1, <1>6, Zenon DEF LineReceive, PrepareHardware, ThreadPoll, ThreadCheck, ThreadLock,
                    DeviceContextCleanup, vars
<1>7. QED
  BY <1>1, <1>2, <1>3, <1>4, <1>5, <1>6, Zenon DEF Next, Thread

\* What a step does to the line bytes of the buffer.
LEMMA PutLineBytes ==
  ASSUME BufferInv, ThreadPut
  PROVE  LineBytes(0)' = LineBytes(0) \cup ({ReadRBR} \ {Junk})
<1>1. len' = len + 1 /\ buf' = [buf EXCEPT ![len] = ReadRBR] /\ len \in Cells
      /\ buf \in [Cells -> Bytes \cup {Junk}]
  BY DEF ThreadPut, BufferInv, TypeOK, RoomToPut
<1> DEFINE C == {j \in Cells : 0 <= j /\ j < len}
<1>2. {j \in Cells : 0 <= j /\ j < len'} = C \cup {len} /\ len \notin C
  BY <1>1
<1>3. \A i \in C : buf'[i] = buf[i]
  BY <1>1
<1>4. buf'[len] = ReadRBR
  BY <1>1, Zenon
<1> HIDE DEF C
<1>5. {buf'[i] : i \in C \cup {len}} = {buf[i] : i \in C} \cup {ReadRBR}
  BY <1>2, <1>3, <1>4
<1>6. QED
  BY <1>2, <1>5, Zenon DEF LineBytes, C

LEMMA CopyLineBytes ==
  ASSUME BufferInv, CellsDistinct, NEW n \in Nat, n <= len
  PROVE  LET copied == {buf[i] : i \in 0..(n - 1)} \ {Junk}
         IN  copied \subseteq LineBytes(0) /\ LineBytes(n) = LineBytes(0) \ copied
<1> DEFINE copied == {buf[i] : i \in 0..(n - 1)} \ {Junk}
<1>1. len \in 0..BufMax
  BY Zenon DEF BufferInv, TypeOK
<1>2. \A b : b \in LineBytes(0) <=> b # Junk /\ \E j \in Cells : j < len /\ b = buf[j]
  BY <1>1 DEF LineBytes
<1>3. \A b : b \in LineBytes(n) <=>
                b # Junk /\ \E j \in Cells : n <= j /\ j < len /\ b = buf[j]
  BY <1>1, Zenon DEF LineBytes
<1>4. \A b : b \in copied <=> b # Junk /\ \E j \in Cells : j < n /\ b = buf[j]
  BY <1>1
<1> HIDE DEF copied
<1>5. copied \subseteq LineBytes(0)
  BY <1>1, <1>2, <1>4
<1>6. ASSUME NEW b, b \in copied, b \in LineBytes(n) PROVE FALSE
  <2>1. PICK i \in Cells : i < n /\ b = buf[i]
    BY <1>4, <1>6, Zenon
  <2>2. PICK j \in Cells : n <= j /\ j < len /\ b = buf[j]
    BY <1>3, <1>6, Zenon
  <2>3. i < j /\ b # Junk
    BY <1>4, <1>6, <2>1, <2>2
  <2>4. QED
    BY <2>1, <2>2, <2>3, Zenon DEF CellsDistinct
<1>7. ASSUME NEW b, b \in LineBytes(0), b \notin copied PROVE b \in LineBytes(n)
  <2>1. PICK j \in Cells : j < len /\ b = buf[j] /\ b # Junk
    BY <1>2, <1>7, Zenon
  <2>2. n <= j
    BY <1>4, <1>7, <2>1
  <2>3. QED
    BY <1>3, <2>1, <2>2, Zenon
<1>8. LineBytes(n) \subseteq LineBytes(0)
  BY <1>2, <1>3, Zenon
<1>9. QED
  BY <1>5, <1>6, <1>7, <1>8, Zenon DEF copied

LEMMA ShiftLineBytes ==
  ASSUME BufferInv, NEW r \in Readers, ReadShift(r)
  PROVE  LineBytes(0)' = LineBytes(fin[r])
<1> DEFINE n == fin[r]
<1>1. n \in Nat /\ n <= len /\ len \in 0..BufMax /\ len' = len - n
      /\ \A i \in Cells : i < len - n => i + n \in Cells /\ buf'[i] = buf[i + n]
  BY DEF BufferInv, TypeOK, FinInBuffer, ReadShift, Shifted
<1> HIDE DEF n
<1>2. \A b : b \in LineBytes(0)' <=> b # Junk /\ \E j \in Cells : j < len - n /\ b = buf'[j]
  BY <1>1 DEF LineBytes
<1>3. \A b : b \in LineBytes(n) <=>
                b # Junk /\ \E j \in Cells : n <= j /\ j < len /\ b = buf[j]
  BY <1>1, Zenon DEF LineBytes
<1>4. ASSUME NEW b, b \in LineBytes(0)' PROVE b \in LineBytes(n)
  <2>1. PICK j \in Cells : j < len - n /\ b = buf'[j] /\ b # Junk
    BY <1>2, <1>4, Zenon
  <2>2. j + n \in Cells /\ n <= j + n /\ j + n < len /\ b = buf[j + n]
    BY <1>1, <2>1
  <2>3. QED
    BY <1>3, <2>1, <2>2, Zenon
<1>5. ASSUME NEW b, b \in LineBytes(n) PROVE b \in LineBytes(0)'
  <2>1. PICK j \in Cells : n <= j /\ j < len /\ b = buf[j] /\ b # Junk
    BY <1>3, <1>5, Zenon
  <2>2. j - n \in Cells /\ j - n < len - n /\ b = buf'[j - n]
    BY <1>1, <2>1
  <2>3. QED
    BY <1>2, <2>1, <2>2, Zenon
<1>6. QED
  BY <1>4, <1>5, Zenon DEF n

\* No step loses or duplicates a byte.
LEMMA NextPartitionInv ==
  BufferInv /\ CellsDistinct /\ PartitionInv /\ [Next]_vars => PartitionInv'
<1> SUFFICES ASSUME BufferInv, CellsDistinct, PartitionInv, [Next]_vars
             PROVE  PartitionInv'
  OBVIOUS
<1> USE DEF uartVars, reqVars, history
<1> DEFINE L == LineBytes(Taken)
           R == {rbr} \ {0}
<1>1. Partition(arrived, overrun, R, L, delivered, dropped)
  BY Zenon DEF PartitionInv
<1>2. ASSUME Taken' = Taken, UNCHANGED <<uartVars, buf, len, delivered, dropped>>
      PROVE  PartitionInv'
  BY <1>2 DEF PartitionInv, Partition, LineBytes
<1>3. CASE LineReceive
  <2>1. Taken' = Taken /\ UNCHANGED <<buf, len, delivered, dropped>>
    BY <1>3, Zenon DEF LineReceive, Taken
  <2>2. L' = L
    BY <2>1, Zenon DEF LineBytes
  <2>3. arrived \in Nat /\ arrived' = arrived + 1
    BY <1>3 DEF LineReceive, BufferInv, TypeOK
  <2>4. CASE rbr = 0
    <3>1. R = {} /\ R' = {arrived + 1} /\ overrun' = overrun
      BY <1>3, <2>3, <2>4 DEF LineReceive
    <3> HIDE DEF L, R
    <3>2. Partition(arrived', overrun', R', L', delivered', dropped')
      BY <1>1, <2>1, <2>2, <2>3, <3>1, PartitionGrows, Zenon
    <3>3. QED
      BY <3>2, Zenon DEF PartitionInv, L, R
  <2>5. CASE rbr # 0
    <3>1. R' = R /\ overrun' = overrun \cup {arrived + 1}
      BY <1>3, <2>5, Zenon DEF LineReceive
    <3> HIDE DEF L, R
    <3>2. Partition(arrived', overrun', R', L', delivered', dropped')
      BY <1>1, <2>1, <2>2, <2>3, <3>1, PartitionGrows, Zenon
    <3>3. QED
      BY <3>2 DEF PartitionInv, L, R
  <2>6. QED
    BY <2>4, <2>5, Zenon
<1>4. CASE PrepareHardware
  <2>1. Taken' = Taken /\ UNCHANGED <<rbr, arrived, overrun, buf, len, delivered, dropped>>
    BY <1>4, Zenon DEF PrepareHardware, Taken
  <2>2. QED
    BY <2>1 DEF PartitionInv, Partition, LineBytes
<1>5. CASE ThreadPoll \/ ThreadCheck \/ DeviceContextCleanup \/ UNCHANGED vars
  BY <1>2, <1>5, Zenon DEF ThreadPoll, ThreadCheck, DeviceContextCleanup, vars, Taken
<1>6. CASE ThreadLock
  BY <1>2, <1>6, Zenon DEF ThreadLock, Taken
<1>7. CASE ThreadReset
  <2>1. Taken = 0 /\ Taken' = 0 /\ UNCHANGED <<uartVars, buf, delivered>>
    BY <1>7, Zenon DEF ThreadReset, Taken, BufferInv, LockOwned
  <2>2. CASE len >= BufMax
    <3>1. L' = {} /\ dropped' = dropped \cup L
      <4>1. len' = 0 /\ dropped' = dropped \cup LineBytes(0)
        BY <1>7, <2>2, Zenon DEF ThreadReset
      <4>2. L' = {}
        BY <2>1, <4>1 DEF LineBytes
      <4>3. QED
        BY <2>1, <4>1, <4>2, Zenon
    <3>2. R' = R /\ arrived' = arrived /\ overrun' = overrun
      BY <2>1, Zenon
    <3> HIDE DEF L, R
    <3>3. Partition(arrived', overrun', R', L', delivered', dropped')
      BY <1>1, <2>1, <3>1, <3>2, PartitionMoves, Zenon
    <3>4. QED
      BY <3>3 DEF PartitionInv, L, R
  <2>3. CASE ~(len >= BufMax)
    BY <1>2, <1>7, <2>1, <2>3, Zenon DEF ThreadReset
  <2>4. QED
    BY <2>2, <2>3, Zenon
<1>8. CASE ThreadPut
  <2>1. Taken = 0 /\ Taken' = 0 /\ UNCHANGED <<arrived, overrun, delivered, dropped>>
    BY <1>8, Zenon DEF ThreadPut, Taken, BufferInv, LockOwned
  <2>2. L' = L \cup ({ReadRBR} \ {Junk})
    <3>1. L = LineBytes(0) /\ L' = LineBytes(0)'
      BY <2>1, Zenon DEF LineBytes
    <3>2. QED
      BY <1>8, <3>1, PutLineBytes, Zenon
  <2>3. CASE RbrVisible /\ rbr # 0
    <3>1. {ReadRBR} \ {Junk} = R /\ R' = {}
      BY <1>8, <2>3 DEF ReadRBR, RbrAfterRead, ThreadPut, BufferInv, TypeOK
    <3> HIDE DEF L, R
    <3>2. Partition(arrived', overrun', R', L', delivered', dropped')
      BY <1>1, <2>1, <2>2, <3>1, PartitionMoves, Zenon
    <3>3. QED
      BY <3>2 DEF PartitionInv, L, R
  <2>4. CASE ~(RbrVisible /\ rbr # 0)
    <3>1. {ReadRBR} \ {Junk} = {} /\ R' = R
      BY <1>8, <2>4, Zenon DEF ReadRBR, RbrAfterRead, ThreadPut
    <3> HIDE DEF L, R
    <3>2. L' = L
      BY <2>2, <3>1, Zenon
    <3>3. Partition(arrived', overrun', R', L', delivered', dropped')
      BY <1>1, <2>1, <3>1, <3>2, Zenon
    <3>4. QED
      BY <3>3 DEF PartitionInv, L, R
  <2>5. QED
    BY <2>3, <2>4, Zenon
<1>9. ASSUME NEW r \in Readers, ReadBegin(r) \/ ReadLock(r) \/ ReadComplete(r)
      PROVE  PartitionInv'
  <2>1. UNCHANGED <<uartVars, buf, len, delivered, dropped>>
    BY <1>9, Zenon DEF ReadBegin, ReadLock, ReadComplete
  <2>2. Taken' = Taken
    BY <1>9, Zenon DEF ReadBegin, ReadLock, ReadComplete, Taken, BufferInv, TypeOK, LockOwned
  <2>3. QED
    BY <1>2, <2>1, <2>2, Zenon
<1>10. ASSUME NEW r \in Readers, ReadCopy(r) PROVE PartitionInv'
  <2> DEFINE p == {buf[i] : i \in 0..(fin[r] - 1)} \ {Junk}
  <2>1. Taken = 0 /\ Taken' = fin[r] /\ fin[r] \in Nat /\ fin[r] <= len
    BY <1>10 DEF ReadCopy, Taken, BufferInv, TypeOK, LockOwned, FinInBuffer
  <2>2. UNCHANGED <<uartVars, buf, len, dropped>> /\ delivered' = delivered \cup p
    BY <1>10, Zenon DEF ReadCopy
  <2>3. p \subseteq L /\ LineBytes(fin[r]) = L \ p
    BY <2>1, CopyLineBytes, Zenon
  <2>4. L' = L \ p
    BY <2>1, <2>2, <2>3, Zenon DEF LineBytes
  <2>5. R' = R
    BY <2>2, Zenon
  <2> HIDE DEF L, R, p
  <2>6. Partition(arrived', overrun', R', L', delivered', dropped')
    BY <1>1, <2>2, <2>3, <2>4, <2>5, PartitionMoves, Zenon
  <2>7. QED
    BY <2>6, Zenon DEF PartitionInv, L, R
<1>11. ASSUME NEW r \in Readers, ReadShift(r) PROVE PartitionInv'
  <2>1. Taken = fin[r] /\ Taken' = 0
    BY <1>11, Zenon DEF ReadShift, Taken, BufferInv, TypeOK, LockOwned
  <2>2. UNCHANGED <<uartVars, delivered, dropped>>
    BY <1>11, Zenon DEF ReadShift
  <2>3. L' = L
    <3>1. L' = LineBytes(0)'
      BY <2>1, Zenon DEF LineBytes
    <3>2. QED
      BY <1>11, <2>1, <3>1, ShiftLineBytes, Zenon
  <2>4. R' = R
    BY <2>2, Zenon
  <2> HIDE DEF L, R
  <2>5. Partition(arrived', overrun', R', L', delivered', dropped')
    BY <1>1, <2>2, <2>3, <2>4, Zenon
  <2>6. QED
    BY <2>5 DEF PartitionInv, L, R
<1>12. QED
  BY <1>3, <1>4, <1>5, <1>6, <1>7, <1>8, <1>9, <1>10, <1>11, Zenon
     DEF Next, Thread, Read

\* A byte that arrived is in exactly one of the five places, for every buffer
\* size, every set of requests and every number of bytes.
THEOREM BytesAccounted == Spec => []ByteAccounting
<1>1. Init => BufferInv /\ AgeInv
  BY InitBufferInv DEF Init, AgeInv, Older
<1>2. Init => CellsDistinct
  BY Zenon DEF Init, CellsDistinct
<1>3. Init => PartitionInv
  <2> SUFFICES ASSUME Init PROVE PartitionInv
    OBVIOUS
  <2>1. LineBytes(Taken) = {}
    BY Zenon DEF Init, LineBytes
  <2>2. QED
    BY <2>1 DEF Init, PartitionInv, Partition
<1>4. QED
  BY <1>1, <1>2, <1>3, NextBufferInv, NextAgeInv, NextCellsDistinct,
     NextPartitionInv, PartitionIsAccounting, PTL DEF Spec

=============================================================================
