---------------------------- MODULE LossyBuffer ----------------------------
(***************************************************************************)
(* What the receive buffer of the Windows driver MySerial promises,        *)
(* without threads, locks, cells and moves: a queue of bounded capacity.   *)
(* Bytes enter in the order of the line, requests take a prefix, and a     *)
(* buffer that is full is emptied as a whole before the next byte enters.  *)
(* MySerialRead is shown to implement this specification.                  *)
(***************************************************************************)
EXTENDS Integers, Sequences

CONSTANTS
    Capacity,     \* MY_SERIAL_READ_BUFFER_MAX_LEN
    Bytes,        \* bytes of the line, numbered by arrival
    Junk          \* what a port read returns when there is no byte

VARIABLES
    queue,        \* bytes nobody took yet, oldest first
    taken,        \* line bytes that requests got
    lost          \* line bytes thrown away with a full buffer

vars == <<queue, taken, lost>>

Init ==
    /\ queue = <<>>
    /\ taken = {}
    /\ lost = {}

\* The line bytes among the first n of the queue.
Prefix(n) == {queue[i] : i \in 1..n} \ {Junk}

\* A line byte enters after every byte that ever entered before it.
Put(b) ==
    /\ Len(queue) < Capacity
    /\ b # Junk => \A c \in Prefix(Len(queue)) \cup taken \cup lost : c < b
    /\ queue' = Append(queue, b)
    /\ UNCHANGED <<taken, lost>>

\* A request gets the n oldest bytes, all at once.
Take(n) ==
    /\ queue' = SubSeq(queue, n + 1, Len(queue))
    /\ taken' = taken \cup Prefix(n)
    /\ UNCHANGED lost

\* The whole of a full buffer is thrown away, never a part of it.
Drop ==
    /\ Len(queue) = Capacity
    /\ queue' = <<>>
    /\ lost' = lost \cup Prefix(Len(queue))
    /\ UNCHANGED taken

Next ==
    \/ \E b \in Bytes \cup {Junk} : Put(b)
    \/ \E n \in 1..Len(queue) : Take(n)
    \/ Drop

Spec == Init /\ [][Next]_vars

=============================================================================
