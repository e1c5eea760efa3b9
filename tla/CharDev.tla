------------------------------ MODULE CharDev ------------------------------
(***************************************************************************)
(* The Linux character device doc/systems/linux/chardev: a buffer that     *)
(* keeps the string written last.  Processes write and read it without a   *)
(* lock, cell by cell; ioctl flushes it or replaces it by one of another   *)
(* size.                                                                   *)
(*                                                                         *)
(* Cell i of the string of the w-th write is <<w, i>>; Fresh is memory that*)
(* nobody wrote, Nul the end of a string.  A copy works on the memory that *)
(* the pointer named when the copy began: an access to memory that is freed*)
(* or past the end of the buffer is stray (a read gives Fresh, a write is  *)
(* lost to the device), one through a null pointer kills the process.      *)
(***************************************************************************)
EXTENDS Integers, Sequences, FiniteSets

CONSTANTS
  Procs,
  Default,        \* the size at load time, 42 in the code
  Sizes,          \* the sizes a process asks for
  MaxCalls        \* bound: calls made

ASSUME SizesAssumption ==
  Default \in Nat /\ Sizes \subseteq Nat /\ MaxCalls \in Nat /\ Cardinality(Procs) \in Nat

Fresh == <<0, 1>>
Nul == <<0, 0>>
Null == 0

VARIABLES
  loaded,
  at, gen, buffer,        \* what devstruct->buffer names: "live", "freed" or
                          \* "null"; the number of the allocation; its cells
  size, tsize,
  pc, nth, len, pos, mem, \* of each process: its call, the number of a write,
                          \* the size, the next cell, the allocation it copies
  writes, calls,          \* writes begun, calls made
  copy,                   \* what each process has read
  stored,                 \* history: what a read must give, or Unknown
  overlapped, clash,      \* history: two calls overlapped; one was a resize
  dropped, stray          \* history: a resize met a string; the kinds of stray access

device == <<at, gen, buffer, size, tsize>>
locals == <<nth, len, pos, mem>>
history == <<stored, overlapped, clash, dropped, stray>>
vars == <<loaded, device, pc, locals, writes, calls, copy, history>>

NewBuffer(n) == [i \in 0..n |-> Fresh]
Unknown == <<Fresh>>
String(w, n) == [i \in 1..n |-> <<w, i>>]

Init ==
  /\ loaded = FALSE
  /\ at = "null" /\ gen = 0 /\ buffer = NewBuffer(0) /\ size = 0 /\ tsize = 0
  /\ pc = [p \in Procs |-> "none"]
  /\ nth = [p \in Procs |-> 0] /\ len = [p \in Procs |-> 0] /\ pos = [p \in Procs |-> 0]
  /\ mem = [p \in Procs |-> Null]
  /\ writes = 0 /\ calls = 0
  /\ copy = [p \in Procs |-> <<>>] /\ stored = <<>>
  /\ overlapped = FALSE /\ clash = FALSE /\ dropped = FALSE /\ stray = {}

Allocate(n) == at' = "live" /\ gen' = gen + 1 /\ buffer' = NewBuffer(n)

\* my_driver_init; a failure leaves the module out.
Load ==
  /\ ~loaded
  /\ loaded' = TRUE
  /\ Allocate(Default) /\ size' = 0 /\ tsize' = Default
  /\ stored' = <<>>
  /\ UNCHANGED <<pc, locals, writes, calls, copy, overlapped, clash, dropped, stray>>

\* my_driver_exit, once no process is in a call.
Unload ==
  /\ loaded /\ \A p \in Procs : pc[p] = "none"
  /\ loaded' = FALSE
  /\ gen' = 0 /\ mem' = [p \in Procs |-> Null]
  /\ UNCHANGED <<at, buffer, size, tsize, pc, nth, len, pos, writes, calls, copy, history>>

----------------------------------------------------------------------------
InCall(p) == pc[p] \notin {"none", "dead"}
Resizing(p) == pc[p] \in {"kmalloc", "tsize"}
Go(p, there) == pc' = [pc EXCEPT ![p] = there]

\* A process enters the driver.
Call(p, resize) ==
  /\ loaded /\ pc[p] = "none" /\ calls < MaxCalls /\ calls' = calls + 1
  /\ overlapped' = (overlapped \/ \E q \in Procs : InCall(q))
  /\ clash' = (clash \/ \E q \in Procs : Resizing(q) \/ (resize /\ InCall(q)))

\* The pointer is loaded for the copy.
LoadPointer(p, there) ==
  /\ mem' = [mem EXCEPT ![p] = IF at = "null" THEN Null ELSE gen]
  /\ Go(p, there)

\* Cell i of the memory that process p copies is a cell of the buffer.
Valid(p, i) == at = "live" /\ mem[p] = gen /\ i \in DOMAIN buffer

Stray(kind, valid) == IF valid THEN {} ELSE {kind}

Dies(p) ==
  /\ Go(p, "dead")
  /\ UNCHANGED <<loaded, device, locals, writes, calls, copy, history>>

\* Mutant: room for the terminator is not counted.
WriteTest_OneMore(p, n) ==
  /\ Call(p, FALSE) /\ n <= tsize + 1
  /\ writes' = writes + 1
  /\ Go(p, "wload") /\ nth' = [nth EXCEPT ![p] = writes + 1]
  /\ len' = [len EXCEPT ![p] = n] /\ pos' = [pos EXCEPT ![p] = 0]
  /\ stored' = Unknown
  /\ UNCHANGED <<loaded, device, mem, copy, dropped, stray>>

\* The test of my_driver_write; the bytes it is about to store are its own.
WriteTest(p, n) ==
  /\ Call(p, FALSE) /\ n <= tsize
  /\ writes' = writes + 1
  /\ Go(p, "wload") /\ nth' = [nth EXCEPT ![p] = writes + 1]
  /\ len' = [len EXCEPT ![p] = n] /\ pos' = [pos EXCEPT ![p] = 0]
  /\ stored' = Unknown
  /\ UNCHANGED <<loaded, device, mem, copy, dropped, stray>>

WriteLoad(p) ==
  /\ pc[p] = "wload"
  /\ LoadPointer(p, "write")
  /\ UNCHANGED <<loaded, device, nth, len, pos, writes, calls, copy, history>>

Store(valid, i, cell) ==
  /\ buffer' = IF valid THEN [buffer EXCEPT ![i] = cell] ELSE buffer
  /\ stray' = stray \union Stray("write", valid)

\* copy_from_user, a cell at a time.
WriteCopy(p) ==
  /\ pc[p] = "write" /\ pos[p] < len[p]
  /\ IF mem[p] = Null THEN Dies(p)
     ELSE /\ Store(Valid(p, pos[p]), pos[p], <<nth[p], pos[p] + 1>>)
          /\ pos' = [pos EXCEPT ![p] = @ + 1]
          /\ UNCHANGED <<loaded, at, gen, size, tsize, pc, nth, len, mem, writes, calls, copy,
                         stored, overlapped, clash, dropped>>

\* A bad pointer: what was copied stays, the size too.
WriteFault(p) ==
  /\ pc[p] = "write" /\ pos[p] < len[p]
  /\ Go(p, "none")
  /\ UNCHANGED <<loaded, device, locals, writes, calls, copy, history>>

\* Mutant: the size of a shorter string is not stored.
WriteSize_Grow(p) ==
  /\ pc[p] = "write" /\ pos[p] = len[p]
  /\ size' = IF len[p] > size THEN len[p] ELSE size
  /\ Go(p, "wend")
  /\ UNCHANGED <<loaded, at, gen, buffer, tsize, locals, writes, calls, copy, history>>

WriteSize(p) ==
  /\ pc[p] = "write" /\ pos[p] = len[p]
  /\ size' = len[p]
  /\ Go(p, "wend")
  /\ UNCHANGED <<loaded, at, gen, buffer, tsize, locals, writes, calls, copy, history>>

\* The terminator goes to the buffer of this moment.
WriteEnd(p) ==
  /\ pc[p] = "wend"
  /\ IF at = "null" THEN Dies(p)
     ELSE /\ Store(at = "live" /\ len[p] \in DOMAIN buffer, len[p], Nul)
          /\ Go(p, "none")
          /\ stored' = String(nth[p], len[p])
          /\ UNCHANGED <<loaded, at, gen, size, tsize, locals, writes, calls, copy, overlapped,
                         clash, dropped>>

----------------------------------------------------------------------------
\* Mutant: the whole buffer is present.
ReadClamp_Total(p, n) ==
  /\ Call(p, FALSE)
  /\ Go(p, IF n > tsize THEN "clamp" ELSE "rload")
  /\ len' = [len EXCEPT ![p] = n]
  /\ copy' = [copy EXCEPT ![p] = <<>>]
  /\ UNCHANGED <<loaded, device, nth, pos, mem, writes, stored, dropped, stray>>

\* my_driver_read: no more than there is...
ReadClamp(p, n) ==
  /\ Call(p, FALSE)
  /\ Go(p, IF n > size THEN "clamp" ELSE "rload")
  /\ len' = [len EXCEPT ![p] = n]
  /\ copy' = [copy EXCEPT ![p] = <<>>]
  /\ UNCHANGED <<loaded, device, nth, pos, mem, writes, stored, dropped, stray>>

\* ... as devstruct->size says when it is read again...
ReadSize(p) ==
  /\ pc[p] = "clamp"
  /\ len' = [len EXCEPT ![p] = size]
  /\ Go(p, "rload")
  /\ UNCHANGED <<loaded, device, nth, pos, mem, writes, calls, copy, history>>

ReadLoad(p) ==
  /\ pc[p] = "rload"
  /\ LoadPointer(p, "read")
  /\ UNCHANGED <<loaded, device, nth, len, pos, writes, calls, copy, history>>

\* ... and copy_to_user.
ReadCopy(p) ==
  /\ pc[p] = "read" /\ Len(copy[p]) < len[p]
  /\ IF mem[p] = Null THEN Dies(p)
     ELSE LET valid == Valid(p, Len(copy[p]))
          IN /\ copy' = [copy EXCEPT ![p] = Append(@, IF valid THEN buffer[Len(@)] ELSE Fresh)]
             /\ stray' = stray \union Stray("read", valid)
             /\ UNCHANGED <<loaded, device, pc, locals, writes, calls, stored, overlapped, clash,
                            dropped>>

\* The copy is done, or stops at a bad pointer.
ReadEnd(p) ==
  /\ pc[p] = "read"
  /\ Go(p, "none")
  /\ UNCHANGED <<loaded, device, locals, writes, calls, copy, history>>

----------------------------------------------------------------------------
\* The big kernel lock keeps the other ioctl calls out, except while kmalloc
\* sleeps.
Unlocked == \A p \in Procs : pc[p] # "tsize"

\* MD_FLUSH.
Flush(p) ==
  /\ Unlocked /\ Call(p, FALSE)
  /\ size' = 0
  /\ stored' = <<>>
  /\ UNCHANGED <<loaded, at, gen, buffer, tsize, pc, locals, writes, copy, dropped, stray>>

\* my_device_set_size frees the buffer, a second time when another resize
\* sleeps; the size of the string stays...
SetSizeFree(p, n) ==
  /\ Unlocked /\ Call(p, TRUE)
  /\ at' = IF at = "live" THEN "freed" ELSE at
  /\ stray' = stray \union Stray("free", at # "freed")
  /\ dropped' = (dropped \/ size # 0)
  /\ stored' = Unknown
  /\ Go(p, "kmalloc") /\ len' = [len EXCEPT ![p] = n]
  /\ UNCHANGED <<loaded, gen, buffer, size, tsize, nth, pos, mem, writes, copy>>

\* ... allocates one ...
SetSizeAlloc(p) ==
  /\ pc[p] = "kmalloc" /\ Unlocked
  /\ Allocate(len[p])
  /\ Go(p, "tsize")
  /\ UNCHANGED <<loaded, size, tsize, locals, writes, calls, copy, history>>

\* ... or has no memory and leaves a null pointer under the old size...
SetSizeFail(p) ==
  /\ pc[p] = "kmalloc" /\ Unlocked
  /\ at' = "null"
  /\ Go(p, "none")
  /\ UNCHANGED <<loaded, gen, buffer, size, tsize, locals, writes, calls, copy, history>>

\* ... and records its size.
SetSizeEnd(p) ==
  /\ pc[p] = "tsize"
  /\ tsize' = len[p]
  /\ Go(p, "none")
  /\ UNCHANGED <<loaded, at, gen, buffer, size, locals, writes, calls, copy, history>>

Write(p) == WriteLoad(p) \/ WriteCopy(p) \/ WriteFault(p) \/ WriteSize(p) \/ WriteEnd(p)
Read(p) == ReadSize(p) \/ ReadLoad(p) \/ ReadCopy(p) \/ ReadEnd(p)
SetSize(p) == SetSizeAlloc(p) \/ SetSizeFail(p) \/ SetSizeEnd(p)

Next ==
  \/ Load \/ Unload
  \/ \E p \in Procs :
       \/ \E n \in Sizes : WriteTest(p, n) \/ ReadClamp(p, n) \/ SetSizeFree(p, n)
       \/ Write(p) \/ Read(p) \/ SetSize(p) \/ Flush(p)

Spec == Init /\ [][Next]_vars

----------------------------------------------------------------------------
(* Properties.                                                             *)

\* While no two calls have overlapped, a read gives back the string of the last
\* write, as much of it as it asks for, whatever longer or shorter strings and
\* flushes there were before (a write that fails half way and a resize leave the
\* content open).
GivesBack ==
  \A p \in Procs :
    ~overlapped /\ pc[p] = "read" /\ Len(copy[p]) = len[p] /\ stored # Unknown =>
      len[p] <= Len(stored) /\ copy[p] = SubSeq(stored, 1, len[p])

\* "read only present data" (userland_interface.c:79): however reads, writes and
\* flushes interleave, a read returns no memory that no write filled, as long as
\* no resize met a stored string or another call.
PresentData ==
  ~dropped /\ ~clash => \A p \in Procs : \A i \in DOMAIN copy[p] : copy[p][i] # Fresh

\* The driver stays inside its memory unless a resize overlaps another call: the
\* size that a write tests is that of the buffer, after any number of resizes,
\* those that found no memory included (userland_interface.c:58-69 and 100-112).
\* Only a read may leave it without one, after a resize that met a stored string.
StrayNeedsClash == stray # {} => clash \/ (dropped /\ stray = {"read"})
=============================================================================
