------------------------------- MODULE Rs232 -------------------------------
(***************************************************************************)
(* The Linux RS-232 polling driver (doc/systems/linux/rs232_polling): the  *)
(* loading and unloading of rs232_mod.c, and the calls of rs232.c that     *)
(* processes make on one UART, one step for each access to a port.         *)
(*                                                                         *)
(* Two registers of the UART share a port: at DLL the divisor latch when   *)
(* the DLAB bit of LCR is set and the data otherwise, at DLM the latch or  *)
(* IER.  Of LCR the model has DLAB and the word length.  The FIFOs are on. *)
(* A received byte is the number of its arrival, a sent one <<process, n>>;*)
(* Junk is what a read of the port returns when it is not a received byte, *)
(* and Char the value of a sent byte that ends in the latch.               *)
(*                                                                         *)
(* ioctl calls exclude each other (the big kernel lock); open, read and    *)
(* write take no lock.                                                      *)
(***************************************************************************)
EXTENDS Integers, Sequences, FiniteSets

CONSTANTS
  Procs,
  Calls,      \* the calls made once the device is open
  Divisors, WordLengths,   \* the arguments of ioctl
  FifoSize,   \* depth of the two FIFOs of the UART
  MaxSize, MaxCalls, MaxBytes, \* bounds: of a request, of calls, of received bytes
  Char

ASSUME SizesAssumption ==
  /\ FifoSize \in Nat \ {0} /\ MaxSize \in Nat /\ MaxCalls \in Nat /\ MaxBytes \in Nat
  /\ Char \in Nat /\ Char < 256
ASSUME ArgumentsAssumption ==
  /\ \A d \in Divisors : d \in Nat /\ d < 65536
  /\ \A w \in WordLengths : w \in Nat /\ w < 256

Junk == 0
Ioctls == {"baudset", "wordset", "baudget", "confset"}

VARIABLES
  module, region, number,     \* "out" or "up"; what rs232_init reserved
  lcr, dll, dlm,              \* registers of the UART
  tx, line, spilled,          \* the send FIFO, the bytes sent, the bytes lost on it
  rx, arrived,                \* the receive FIFO, the bytes that came
  file,                       \* who has the device open
  call, todo,                 \* the call of each process; its accesses to come
  reg, arg, retval,           \* locals of setreg and of ioctl
  size, cnt, kbuff,           \* locals of read and write
  calls,                      \* the number of calls made
  sent, returned, divisor,    \* history: bytes written, bytes read, divisor set last
  overlapped                  \* history: two calls were under way at once

modvars == <<module, region, number>>
uart == <<lcr, dll, dlm, tx, line, spilled, rx, arrived>>
latch == <<lcr, dll, dlm>>
fifos == <<tx, line, spilled, rx, arrived>>
locals == <<reg, arg, retval, size, cnt, kbuff>>
process == <<file, call, todo, locals, calls>>
history == <<sent, returned, divisor, overlapped>>
vars == <<modvars, uart, process, history>>

Init ==
  /\ module = "out" /\ region = FALSE /\ number = FALSE
  /\ lcr = [dlab |-> FALSE, wdl |-> 0] /\ dll = 0 /\ dlm = 0
  /\ tx = <<>> /\ line = <<>> /\ spilled = 0
  /\ rx = <<>> /\ arrived = 0
  /\ file = [p \in Procs |-> FALSE]
  /\ call = [p \in Procs |-> "none"] /\ todo = [p \in Procs |-> <<>>]
  /\ reg = [p \in Procs |-> lcr]
  /\ arg = [p \in Procs |-> [div |-> 0, wl |-> 0]]
  /\ retval = [p \in Procs |-> 0]
  /\ size = [p \in Procs |-> 0] /\ cnt = [p \in Procs |-> 0]
  /\ kbuff = [p \in Procs |-> <<>>]
  /\ calls = 0
  /\ sent = [p \in Procs |-> 0] /\ returned = [p \in Procs |-> <<>>] /\ divisor = 0
  /\ overlapped = FALSE

----------------------------------------------------------------------------
(* The module.                                                             *)

\* rs232_init, with the failures of request_region, alloc_chrdev_region and
\* cdev_add: none of them gives back what it has.
Load(got_region, got_number, added) ==
  /\ module = "out"
  /\ got_region => ~region
  /\ got_number => got_region
  /\ added => got_number
  /\ region' = (region \/ got_region)
  /\ number' = (number \/ got_number)
  /\ module' = IF added THEN "up" ELSE "out"
  /\ UNCHANGED <<uart, process, history>>

\* rs232_exit; an open file keeps the module.
Unload ==
  /\ module = "up" /\ \A p \in Procs : ~file[p] /\ call[p] = "none"
  /\ module' = "out" /\ region' = FALSE /\ number' = FALSE
  /\ UNCHANGED <<uart, process, history>>

----------------------------------------------------------------------------
(* The UART.                                                               *)

Receive ==
  /\ arrived < MaxBytes
  /\ arrived' = arrived + 1
  /\ rx' = IF Len(rx) < FifoSize THEN Append(rx, arrived + 1) ELSE rx
  /\ UNCHANGED <<modvars, latch, tx, line, spilled, process, history>>

Transmit ==
  /\ tx # <<>>
  /\ tx' = Tail(tx) /\ line' = Append(line, Head(tx))
  /\ UNCHANGED <<modvars, latch, spilled, rx, arrived, process, history>>

DataAvailable == rx # <<>>
ThrEmpty == tx = <<>>
\* inb(LSR) as a C condition: some status bit is set.
LSR == DataAvailable \/ ThrEmpty

----------------------------------------------------------------------------
(* The calls, as the port accesses they make: setreg is two of them, open  *)
(* and ioctl set DLAB with it before the divisor and clear it after.       *)

Program(c) ==
  CASE c = "open" ->
         <<"inLCR", "latch", "outDLL", "peek", "outDLM", "inLCR", "frame", "outIER">>
    [] c = "baudset" -> <<"inLCR", "latch", "outDLL", "outDLM", "inLCR", "rw">>
    [] c = "wordset" -> <<"inLCR", "word">>
    [] c = "baudget" -> <<"inLCR", "latch", "inDLM", "inDLL", "inLCR", "rw">>
    [] c = "confset" ->
         <<"inLCR", "word", "inLCR", "latch", "outDLL", "outDLM", "inLCR", "rw">>
    [] c = "read" -> <<"rwait", "rtest">>
    [] c = "write" -> <<"wwait", "wtest">>

Request(c, n, div, wl) == [call |-> c, size |-> n, arg |-> [div |-> div, wl |-> wl]]

\* The calls with the arguments that matter to them; open sets 9600 baud.
Requests ==
  {Request("open", 0, 12, 0), Request("baudget", 0, 0, 0)}
  \union {Request(c, n, 0, 0) : c \in {"read", "write"}, n \in 1..MaxSize}
  \union {Request("baudset", 0, d, 0) : d \in Divisors}
  \union {Request("wordset", 0, 0, w) : w \in WordLengths}
  \union {Request("confset", 0, d, w) : d \in Divisors, w \in WordLengths}

\* Mutant: the buffer still has the bytes of the read before.
Call_Buffer(p, r) ==
  /\ module = "up" /\ call[p] = "none" /\ calls < MaxCalls
  /\ IF r.call = "open" THEN ~file[p] ELSE file[p] /\ r.call \in Calls
  /\ r.call \in Ioctls => \A q \in Procs : call[q] \notin Ioctls
  /\ call' = [call EXCEPT ![p] = r.call]
  /\ todo' = [todo EXCEPT ![p] = Program(r.call)]
  /\ arg' = [arg EXCEPT ![p] = r.arg]
  /\ retval' = [retval EXCEPT ![p] = 0]
  /\ size' = [size EXCEPT ![p] = r.size] /\ cnt' = [cnt EXCEPT ![p] = 0]
  /\ calls' = calls + 1 /\ overlapped' = (overlapped \/ \E q \in Procs : call[q] # "none")
  /\ UNCHANGED <<modvars, uart, file, reg, kbuff, sent, returned, divisor>>

\* The process makes a call; the kernel lets one ioctl in at a time.  A read or
\* write that has no memory or a bad pointer returns at once and changes nothing.
Call(p, r) ==
  /\ module = "up" /\ call[p] = "none" /\ calls < MaxCalls
  /\ IF r.call = "open" THEN ~file[p] ELSE file[p] /\ r.call \in Calls
  /\ r.call \in Ioctls => \A q \in Procs : call[q] \notin Ioctls
  /\ call' = [call EXCEPT ![p] = r.call]
  /\ todo' = [todo EXCEPT ![p] = Program(r.call)]
  /\ arg' = [arg EXCEPT ![p] = r.arg]
  /\ retval' = [retval EXCEPT ![p] = 0]
  /\ size' = [size EXCEPT ![p] = r.size] /\ cnt' = [cnt EXCEPT ![p] = 0]
  /\ kbuff' = [kbuff EXCEPT ![p] = <<>>]
  /\ calls' = calls + 1 /\ overlapped' = (overlapped \/ \E q \in Procs : call[q] # "none")
  /\ UNCHANGED <<modvars, uart, file, reg, sent, returned, divisor>>

Doing(p, access) == todo[p] # <<>> /\ Head(todo[p]) = access
Done(p) == todo' = [todo EXCEPT ![p] = Tail(@)]

\* setreg reads the register...
SetregIn(p) ==
  /\ Doing(p, "inLCR") /\ Done(p)
  /\ reg' = [reg EXCEPT ![p] = lcr]
  /\ UNCHANGED <<modvars, uart, file, call, arg, retval, size, cnt, kbuff, calls, history>>

\* Mutant: the read-write mode is not selected again.
Masked_Sticky(old, access, wl) ==
  CASE access = "latch" -> [old EXCEPT !.dlab = TRUE]
    [] access = "rw" -> old
    [] access = "word" -> [dlab |-> old.dlab \/ wl >= 128, wdl |-> wl % 4]
    [] access = "frame" -> [dlab |-> FALSE, wdl |-> 2]

\* The value ~mask & reg | value.
Masked(old, access, wl) ==
  CASE access = "latch" -> [old EXCEPT !.dlab = TRUE]
    [] access = "rw" -> [old EXCEPT !.dlab = FALSE]
    [] access = "word" -> [dlab |-> old.dlab \/ wl >= 128, wdl |-> wl % 4]
    [] access = "frame" -> [dlab |-> FALSE, wdl |-> 2]

\* ... and writes it.
SetregOut(p) ==
  /\ \E access \in {"latch", "rw", "word", "frame"} :
       /\ Doing(p, access) /\ Done(p)
       /\ lcr' = Masked(reg[p], access, arg[p].wl)
  /\ UNCHANGED <<modvars, dll, dlm, fifos, file, call, locals, calls, history>>

\* A byte at port DLL: to the latch, or to the send FIFO.
Out(value, byte) ==
  IF lcr.dlab
  THEN dll' = value /\ UNCHANGED <<tx, spilled>>
  ELSE /\ UNCHANGED dll
       /\ IF Len(tx) < FifoSize THEN tx' = Append(tx, byte) /\ UNCHANGED spilled
          ELSE spilled' = spilled + 1 /\ UNCHANGED tx

OutDLL(p) ==
  /\ Doing(p, "outDLL") /\ Done(p)
  /\ Out(arg[p].div % 256, <<p, Junk>>)
  /\ divisor' = arg[p].div
  /\ UNCHANGED <<modvars, lcr, dlm, line, rx, arrived, file, call, locals, calls, sent, returned, overlapped>>

\* (div & 0xFF00) >> 4, of which the port takes eight bits.
HighBits(div) == ((div \div 256) * 16) % 256

OutDLM(p) ==
  /\ Doing(p, "outDLM") /\ Done(p)
  /\ dlm' = IF lcr.dlab THEN HighBits(arg[p].div) ELSE dlm
  /\ UNCHANGED <<modvars, lcr, dll, fifos, file, call, locals, calls, history>>

\* The debugging output of open reads the port, the rest of it has no effect.
Peek(p) ==
  /\ Doing(p, "peek") /\ Done(p)
  /\ rx' = IF lcr.dlab \/ rx = <<>> THEN rx ELSE Tail(rx)
  /\ UNCHANGED <<modvars, latch, tx, line, spilled, arrived, file, call, locals, calls, history>>

OutIER(p) ==
  /\ Doing(p, "outIER") /\ Done(p)
  /\ dlm' = IF lcr.dlab THEN 0 ELSE dlm
  /\ UNCHANGED <<modvars, lcr, dll, fifos, file, call, locals, calls, history>>

InDLM(p) ==
  /\ Doing(p, "inDLM") /\ Done(p)
  /\ retval' = [retval EXCEPT ![p] = (IF lcr.dlab THEN dlm ELSE 0) * 16]
  /\ UNCHANGED <<modvars, uart, file, call, reg, arg, size, cnt, kbuff, calls, history>>

InDLL(p) ==
  /\ Doing(p, "inDLL") /\ Done(p)
  /\ retval' = [retval EXCEPT ![p] = @ + (IF lcr.dlab THEN dll ELSE Char)]
  /\ rx' = IF lcr.dlab \/ rx = <<>> THEN rx ELSE Tail(rx)
  /\ UNCHANGED <<modvars, latch, tx, line, spilled, arrived, file, call, reg, arg, size, cnt,
                 kbuff, calls, history>>

----------------------------------------------------------------------------
(* read and write.                                                         *)

ReadWait(p) ==
  /\ Doing(p, "rwait") /\ DataAvailable /\ Done(p)
  /\ UNCHANGED <<modvars, uart, file, call, locals, calls, history>>

\* Mutant: the status is not read again between two bytes.
ReadTest_Blind(p) ==
  /\ Doing(p, "rtest")
  /\ todo' = [todo EXCEPT ![p] = IF cnt[p] < size[p] THEN <<"rin", "rtest">> ELSE <<>>]
  /\ UNCHANGED <<modvars, uart, file, call, locals, calls, history>>

ReadTest(p) ==
  /\ Doing(p, "rtest")
  /\ todo' = [todo EXCEPT ![p] =
       IF cnt[p] < size[p] /\ DataAvailable THEN <<"rin", "rtest">> ELSE <<>>]
  /\ UNCHANGED <<modvars, uart, file, call, locals, calls, history>>

\* The byte may be gone since the test, or the port be the latch.
ReadIn(p) ==
  /\ Doing(p, "rin") /\ Done(p)
  /\ LET there == ~lcr.dlab /\ rx # <<>>
     IN /\ kbuff' = [kbuff EXCEPT ![p] = Append(@, IF there THEN Head(rx) ELSE Junk)]
        /\ rx' = IF there THEN Tail(rx) ELSE rx
  /\ cnt' = [cnt EXCEPT ![p] = @ + 1]
  /\ UNCHANGED <<modvars, latch, tx, line, spilled, arrived, file, call, reg, arg, retval, size,
                 calls, history>>

\* The condition is inb(LSR) && LSR_THR_IDL, true when any status bit is set.
WriteWait(p) ==
  /\ Doing(p, "wwait") /\ LSR /\ Done(p)
  /\ UNCHANGED <<modvars, uart, file, call, locals, calls, history>>

WriteTest(p) ==
  /\ Doing(p, "wtest")
  /\ todo' = [todo EXCEPT ![p] = IF cnt[p] < size[p] /\ LSR THEN <<"wout", "wtest">> ELSE <<>>]
  /\ UNCHANGED <<modvars, uart, file, call, locals, calls, history>>

\* Mutant: the first byte of the buffer is sent every time.
WriteOut_First(p) ==
  /\ Doing(p, "wout") /\ Done(p)
  /\ Out(Char, <<p, sent[p] - cnt[p] + 1>>)
  /\ cnt' = [cnt EXCEPT ![p] = @ + 1] /\ sent' = [sent EXCEPT ![p] = @ + 1]
  /\ UNCHANGED <<modvars, lcr, dlm, line, rx, arrived, file, call, reg, arg, retval, size, kbuff,
                 calls, returned, divisor, overlapped>>

WriteOut(p) ==
  /\ Doing(p, "wout") /\ Done(p)
  /\ Out(Char, <<p, sent[p] + 1>>)
  /\ cnt' = [cnt EXCEPT ![p] = @ + 1] /\ sent' = [sent EXCEPT ![p] = @ + 1]
  /\ UNCHANGED <<modvars, lcr, dlm, line, rx, arrived, file, call, reg, arg, retval, size, kbuff,
                 calls, returned, divisor, overlapped>>

\* The call is over.  A read hands its buffer over, or fails and drops it.  It copies
\* size bytes; returned has the cnt ones that it says it read.
Return(p) ==
  /\ call[p] # "none" /\ todo[p] = <<>>
  /\ call' = [call EXCEPT ![p] = "none"]
  /\ file' = [file EXCEPT ![p] = TRUE]
  /\ returned' \in {returned, [returned EXCEPT ![p] = @ \o kbuff[p]]}
  /\ UNCHANGED <<modvars, uart, todo, locals, calls, sent, divisor, overlapped>>

Release(p) ==
  /\ file[p] /\ call[p] = "none"
  /\ file' = [file EXCEPT ![p] = FALSE]
  /\ UNCHANGED <<modvars, uart, call, todo, locals, calls, history>>

Access(p) ==
  \/ SetregIn(p) \/ SetregOut(p) \/ OutDLL(p) \/ OutDLM(p) \/ Peek(p) \/ OutIER(p)
  \/ InDLM(p) \/ InDLL(p)
  \/ ReadWait(p) \/ ReadTest(p) \/ ReadIn(p)
  \/ WriteWait(p) \/ WriteTest(p) \/ WriteOut(p)
  \/ Return(p)

Next ==
  \/ \E r, n, a \in BOOLEAN : Load(r, n, a)
  \/ Unload
  \/ Receive \/ Transmit
  \/ \E p \in Procs :
       \/ \E r \in Requests : Call(p, r)
       \/ Access(p)
       \/ Release(p)

Spec == Init /\ [][Next]_vars

----------------------------------------------------------------------------
(* Properties.                                                             *)

Quiet == \A p \in Procs : call[p] = "none"

\* RS_WORDSET takes its argument as it comes; these do not set DLAB with it.
PlainLengths == \A w \in WordLengths : w < 128

\* The divisor that the UART divides its clock by: DLM has its high byte.
Latch == 256 * dlm + dll

\* While no two calls have overlapped, whoever made them: between the calls the
\* data port is selected; a divisor below 256, whichever of open and ioctl set it
\* last, is the one the UART works with, and setting the word length leaves it
\* alone; and RS_BAUDRATEGET gives back a divisor of up to twelve bits, the shifts
\* of the two calls undoing each other (the setreg pairs of rs232_open, rs232_ioctl).
DivisorKept ==
  ~overlapped /\ PlainLengths =>
    /\ Quiet => ~lcr.dlab /\ (divisor < 256 => Latch = divisor)
    /\ \A p \in Procs :
         call[p] = "baudget" /\ todo[p] = <<>> /\ divisor < 4096 => retval[p] = divisor

\* While no two calls have overlapped, the UART works with the divisor set last,
\* whatever its size: DLL takes its low byte and DLM its high byte, as
\* rs232_define.h has it (the outb pairs of rs232_ioctl).
DivisorLatched == ~overlapped /\ PlainLengths /\ Quiet => Latch = divisor

\* While no two calls have overlapped, a read returns only bytes that came on the
\* line, never the latch or an empty register (the two loops of rs232_read).
NoJunk ==
  ~overlapped /\ PlainLengths =>
    \A p \in Procs : \A i \in DOMAIN returned[p] : returned[p][i] # Junk

\* Processes that write at once: the bytes of each go out in the order in which
\* it wrote them, and none twice (the loop of rs232_write).
WriterOrder ==
  LET out == line \o tx
  IN \A i, j \in DOMAIN out :
       i < j /\ out[i][1] = out[j][1] /\ out[j][2] # Junk => out[i][2] < out[j][2]

\* Processes that read at once: a byte of the line is returned to one of them,
\* once, and to each in the order of arrival (rs232_read).
ByteOnce ==
  \A p, q \in Procs : \A i \in DOMAIN returned[p], j \in DOMAIN returned[q] :
    returned[p][i] # Junk /\ returned[q][j] # Junk =>
      /\ returned[p][i] = returned[q][j] => p = q /\ i = j
      /\ p = q /\ i < j => returned[p][i] < returned[q][j]
=============================================================================
