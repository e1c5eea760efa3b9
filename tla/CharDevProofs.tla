--------------------------- MODULE CharDevProofs ----------------------------
(***************************************************************************)
(* Proofs about the character device chardev, for every set of processes   *)
(* and all sizes of the buffer and of the requests.                        *)
(***************************************************************************)
EXTENDS CharDev, TLAPS

Cell == Nat \X Nat
Points == {"none", "dead", "wload", "write", "wend", "clamp", "rload", "read", "kmalloc", "tsize"}
Kinds == {"read", "write", "free"}

CharType ==
  /\ at \in {"live", "freed", "null"} /\ gen \in Nat /\ size \in Nat /\ tsize \in Nat
  /\ pc \in [Procs -> Points] /\ nth \in [Procs -> Nat] /\ len \in [Procs -> Nat]
  /\ pos \in [Procs -> Nat] /\ mem \in [Procs -> Nat]
  /\ writes \in Nat /\ copy \in [Procs -> Seq(Cell)] /\ stored \in Seq(Cell)
  /\ stray \in SUBSET Kinds

BufferType == \E m \in Nat : buffer \in [0..m -> Cell]

\* Only a module that is loaded is called; a clash is an overlap.
LoadInv ==
  /\ loaded => gen > 0
  /\ ~loaded => \A p \in Procs : pc[p] = "none"
  /\ clash => overlapped

\* While no resize has met another call, a resize is alone and whoever copies
\* does so in the buffer, whose size is the recorded one.
Sole == \A p, q \in Procs : Resizing(p) /\ InCall(q) => p = q
Shape ==
  /\ at = "freed" => \E p \in Procs : pc[p] = "kmalloc"
  /\ at = "live" => \/ DOMAIN buffer = 0..tsize /\ \A p \in Procs : ~Resizing(p)
                    \/ \E p \in Procs : pc[p] = "tsize" /\ DOMAIN buffer = 0..len[p]
  /\ \A p \in Procs : pc[p] = "tsize" => at = "live"
Copying ==
  \A p \in Procs :
    /\ pc[p] \in {"wload", "write", "wend"} => len[p] <= tsize /\ pos[p] <= len[p] /\ nth[p] > 0
    /\ pc[p] = "wload" => pos[p] = 0
    /\ pc[p] \in {"write", "read"} => mem[p] = (IF at = "null" THEN Null ELSE gen)
ResizeInv == Sole /\ Shape /\ Copying

\* A process that writes has filled the cells before pos; those that a reader is
\* to copy, and those of the string, are filled.
Filled(b, n) == \A i \in 0..n - 1 : i \in DOMAIN b /\ b[i] # Fresh
PresentInv ==
  /\ size <= tsize
  /\ \A p \in Procs : Resizing(p) => size = 0
  /\ \A p \in Procs :
       /\ pc[p] \in {"rload", "read"} => len[p] <= tsize
       /\ \A i \in DOMAIN copy[p] : copy[p][i] # Fresh
  /\ at = "live" =>
       /\ Filled(buffer, size)
       /\ \A p \in Procs : pc[p] = "write" => Filled(buffer, pos[p])
       /\ \A p \in Procs : pc[p] = "wend" => Filled(buffer, len[p])
       /\ \A p \in Procs : pc[p] \in {"rload", "read"} => Filled(buffer, len[p])

\* While no two calls have overlapped.
Holds(b, s) == \A i \in 1..Len(s) : i - 1 \in DOMAIN b /\ b[i - 1] = s[i]
Single == \A p, q \in Procs : InCall(p) /\ InCall(q) => p = q
Known == stored # Unknown => Len(stored) = size /\ size <= tsize /\ Holds(buffer, stored)
Private(p) ==
  /\ pc[p] \in {"wload", "write", "wend", "kmalloc", "tsize"} => stored = Unknown
  /\ pc[p] \in {"write", "wend"} => Holds(buffer, String(nth[p], pos[p]))
  /\ pc[p] = "wend" => pos[p] = len[p] /\ size = len[p]
  /\ pc[p] \in {"clamp", "rload"} => copy[p] = <<>>
  /\ stored # Unknown /\ pc[p] \in {"rload", "read"} => len[p] <= size
  /\ stored # Unknown /\ pc[p] = "read" => Len(copy[p]) <= len[p] /\ Holds(buffer, copy[p])
StoredInv == Single /\ Known /\ \A p \in Procs : Private(p)

CharInv ==
  /\ CharType /\ BufferType /\ LoadInv
  /\ StrayNeedsClash
  /\ ~clash => ResizeInv
  /\ ~clash /\ ~dropped => PresentInv
  /\ ~overlapped => StoredInv

-----------------------------------------------------------------------------
LEMMA Facts ==
  /\ Fresh \in Cell /\ Nul \in Cell /\ Nul # Fresh
  /\ \A w, i \in Nat : <<w, i>> \in Cell /\ (w > 0 => <<w, i>> # Fresh)
  BY DEF Cell, Fresh, Nul

\* What a call leaves of the conditions on the history.
LEMMA CallFacts ==
  ASSUME NEW p \in Procs, NEW resize \in BOOLEAN, Call(p, resize)
  PROVE  /\ loaded /\ pc[p] = "none" 
         /\ ~overlapped' => ~overlapped /\ \A q \in Procs : ~InCall(q)
         /\ ~clash' => ~clash /\ \A q \in Procs : ~Resizing(q) /\ (resize => ~InCall(q))
         /\ (clash => overlapped) => (clash' => overlapped')
<1>1. \A q \in Procs : Resizing(q) => InCall(q)
  BY Zenon DEF Resizing, InCall
<1> QED BY <1>1, Zenon DEF Call

LEMMA CharTypeInit == Init => CharType /\ BufferType /\ LoadInv
<1> SUFFICES ASSUME Init PROVE CharType /\ BufferType /\ LoadInv
  BY Zenon
<1>1. buffer \in [0..0 -> Cell]
  BY Facts, Zenon DEF Init, NewBuffer
<1>2. CharType
  BY DEF Init, CharType, Points, Null
<1>3. LoadInv
  BY Zenon DEF Init, LoadInv
<1> QED BY <1>1, <1>2, <1>3, Zenon DEF BufferType

LEMMA StoreType ==
  ASSUME BufferType, NEW valid, NEW i, NEW cell \in Cell, Store(valid, i, cell), stray \in SUBSET Kinds
  PROVE  BufferType' /\ stray' \in SUBSET Kinds
<1>1. PICK m \in Nat : buffer \in [0..m -> Cell]
  BY Zenon DEF BufferType
<1>2. buffer' \in [0..m -> Cell]
  BY <1>1, Zenon DEF Store
<1>3. stray' = stray \/ stray' = stray \union {"write"}
  BY Zenon DEF Store, Stray
<1> QED BY <1>2, <1>3, Zenon DEF BufferType, Kinds

LEMMA StringType ==
  ASSUME NEW w \in Nat, NEW n \in Nat
  PROVE  /\ String(w, n) \in Seq(Cell) /\ Len(String(w, n)) = n
         /\ \A i \in 1..n : String(w, n)[i] = <<w, i>>
<1>1. \A i \in 1..n : <<w, i>> \in Cell
  BY Facts
<1>2. String(w, n) \in [1..n -> Cell]
  BY <1>1, Zenon DEF String
<1> QED BY <1>2 DEF String

LEMMA BufferNext == CharType /\ BufferType /\ [Next]_vars => BufferType'
<1> SUFFICES ASSUME CharType, BufferType, [Next]_vars, buffer' # buffer PROVE BufferType'
  BY Zenon DEF BufferType
<1> USE Facts, SizesAssumption DEF CharType, BufferType
<1>1. CASE Load
  BY <1>1, Zenon DEF Load, Allocate, NewBuffer
<1>2. ASSUME NEW p \in Procs, WriteCopy(p) PROVE BufferType'
  <2>1. <<nth[p], pos[p] + 1>> \in Cell /\ mem[p] # Null
    BY <1>2 DEF WriteCopy, Dies, device
  <2> QED BY <1>2, <2>1, StoreType, Zenon DEF WriteCopy
<1>3. ASSUME NEW p \in Procs, WriteEnd(p) PROVE BufferType'
  BY <1>3, StoreType, Zenon DEF WriteEnd, Dies, device
<1>4. ASSUME NEW p \in Procs, SetSizeAlloc(p) PROVE BufferType'
  BY <1>4, Zenon DEF SetSizeAlloc, Allocate, NewBuffer
<1> QED BY <1>1, <1>2, <1>3, <1>4
        DEF Next, vars, Unload, WriteTest, ReadClamp, SetSizeFree, Flush, Write, Read, SetSize,
            WriteLoad, WriteFault, WriteSize, ReadSize, ReadLoad, ReadCopy, ReadEnd, SetSizeFail,
            SetSizeEnd, Dies, device

LEMMA CharTypeNext == CharType /\ BufferType /\ [Next]_vars => CharType'
<1> SUFFICES ASSUME CharType, BufferType, [Next]_vars PROVE CharType'
  BY Zenon
<1> USE Facts, SizesAssumption DEF CharType, Points, Go
<1>1. CASE Load
  BY <1>1 DEF Load, Allocate, locals
<1>2. CASE Unload
  BY <1>2, Zenon DEF Unload, device, history, Null
<1>3. ASSUME NEW p \in Procs, NEW n \in Sizes, WriteTest(p, n) PROVE CharType'
  BY <1>3 DEF WriteTest, device, Unknown
<1>4. ASSUME NEW p \in Procs, NEW n \in Sizes, ReadClamp(p, n) PROVE CharType'
  BY <1>4 DEF ReadClamp, device
<1>5. ASSUME NEW p \in Procs, NEW n \in Sizes, SetSizeFree(p, n) PROVE CharType'
  BY <1>5 DEF SetSizeFree, Unknown, Stray, Kinds
<1>6. ASSUME NEW p \in Procs, Flush(p) PROVE CharType'
  BY <1>6 DEF Flush, locals
<1>7. ASSUME NEW p \in Procs, Write(p) PROVE CharType'
  <2>1. CASE WriteLoad(p)
    BY <2>1, Zenon DEF WriteLoad, LoadPointer, device, history, Null
  <2>2. CASE WriteCopy(p)
    <3>1. CASE mem[p] = Null
      BY <2>2, <3>1, Zenon DEF WriteCopy, Dies, device, locals, history
    <3>2. CASE mem[p] # Null
      <4>1. <<nth[p], pos[p] + 1>> \in Cell
        OBVIOUS
      <4>2. stray' \in SUBSET Kinds
        BY <2>2, <3>2, <4>1, StoreType, Zenon DEF WriteCopy
      <4>3. /\ pos' = [pos EXCEPT ![p] = pos[p] + 1]
            /\ UNCHANGED <<at, gen, size, tsize, pc, nth, len, mem, writes, copy, stored>>
        BY <2>2, <3>2, Zenon DEF WriteCopy
      <4> QED BY <4>2, <4>3
    <3> QED BY <3>1, <3>2, Zenon
  <2>3. CASE WriteFault(p)
    BY <2>3, Zenon DEF WriteFault, device, locals, history
  <2>4. CASE WriteSize(p)
    BY <2>4, Zenon DEF WriteSize, locals, history
  <2>5. CASE WriteEnd(p)
    <3>1. CASE at = "null"
      BY <2>5, <3>1, Zenon DEF WriteEnd, Dies, device, locals, history
    <3>2. CASE at # "null"
      <4>1. stray' \in SUBSET Kinds
        BY <2>5, <3>2, StoreType, Zenon DEF WriteEnd
      <4>2. String(nth[p], len[p]) \in Seq(Cell)
        BY StringType, Zenon
      <4> QED BY <2>5, <3>2, <4>1, <4>2, Zenon DEF WriteEnd, locals
    <3> QED BY <3>1, <3>2, Zenon
  <2> QED BY <1>7, <2>1, <2>2, <2>3, <2>4, <2>5, Zenon DEF Write
<1>8. ASSUME NEW p \in Procs, Read(p) PROVE CharType'
  <2>1. CASE ReadSize(p)
    BY <2>1, Zenon DEF ReadSize, device, history
  <2>2. CASE ReadLoad(p)
    BY <2>2, Zenon DEF ReadLoad, LoadPointer, device, history, Null
  <2>3. CASE ReadCopy(p)
    <3>1. CASE mem[p] = Null
      BY <2>3, <3>1, Zenon DEF ReadCopy, Dies, device, locals, history
    <3>2. CASE mem[p] # Null
      <4> DEFINE c == IF Valid(p, Len(copy[p])) THEN buffer[Len(copy[p])] ELSE Fresh
      <4>1. c \in Cell
        BY Zenon DEF Valid, BufferType
      <4>2. copy' = [copy EXCEPT ![p] = Append(copy[p], c)]
        BY <2>3, <3>2, Zenon DEF ReadCopy
      <4>3. stray' \in SUBSET Kinds
        BY <2>3, <3>2, Zenon DEF ReadCopy, Stray, Kinds
      <4> HIDE DEF c
      <4>4. copy' \in [Procs -> Seq(Cell)]
        BY <4>1, <4>2
      <4> QED BY <2>3, <3>2, <4>3, <4>4, Zenon DEF ReadCopy, device, locals
    <3> QED BY <3>1, <3>2
  <2>4. CASE ReadEnd(p)
    BY <2>4, Zenon DEF ReadEnd, device, locals, history
  <2> QED BY <1>8, <2>1, <2>2, <2>3, <2>4, Zenon DEF Read
<1>9. ASSUME NEW p \in Procs, SetSize(p) PROVE CharType'
  <2>1. CASE SetSizeAlloc(p)
    BY <2>1 DEF SetSizeAlloc, Allocate, locals, history
  <2>2. CASE SetSizeFail(p)
    BY <2>2, Zenon DEF SetSizeFail, locals, history
  <2>3. CASE SetSizeEnd(p)
    BY <2>3, Zenon DEF SetSizeEnd, locals, history
  <2> QED BY <1>9, <2>1, <2>2, <2>3, Zenon DEF SetSize
<1>10. CASE UNCHANGED vars
  BY <1>10, Zenon DEF vars, device, locals, history
<1> QED BY <1>1, <1>2, <1>3, <1>4, <1>5, <1>6, <1>7, <1>8, <1>9, <1>10, Zenon DEF Next

-----------------------------------------------------------------------------
(* The history only grows.                                                 *)

LEMMA HistoryGrows ==
  ASSUME [Next]_vars
  PROVE  (clash => clash') /\ (overlapped => overlapped') /\ (dropped => dropped')
<1>1. \A p \in Procs, r \in BOOLEAN : Call(p, r) => (clash => clash') /\ (overlapped => overlapped')
  BY Zenon DEF Call
<1>2. ASSUME NEW p \in Procs, NEW n \in Sizes, WriteTest(p, n) \/ ReadClamp(p, n) \/ SetSizeFree(p, n)
      PROVE  (clash => clash') /\ (overlapped => overlapped') /\ (dropped => dropped')
  <2>1. CASE WriteTest(p, n)
    BY <1>1, <2>1, Zenon DEF WriteTest
  <2>2. CASE ReadClamp(p, n)
    BY <1>1, <2>2, Zenon DEF ReadClamp
  <2>3. CASE SetSizeFree(p, n)
    BY <1>1, <2>3, Zenon DEF SetSizeFree
  <2> QED BY <1>2, <2>1, <2>2, <2>3, Zenon
<1>3. ASSUME NEW p \in Procs, Flush(p)
      PROVE  (clash => clash') /\ (overlapped => overlapped') /\ (dropped => dropped')
  BY <1>1, <1>3, Zenon DEF Flush
<1>4. ASSUME NEW p \in Procs, Write(p) \/ Read(p) \/ SetSize(p)
      PROVE  clash' = clash /\ overlapped' = overlapped /\ dropped' = dropped
  BY <1>4, Zenon DEF Write, Read, SetSize, WriteLoad, WriteCopy, WriteFault, WriteSize, WriteEnd, ReadSize,
              ReadLoad, ReadCopy, ReadEnd, SetSizeAlloc, SetSizeFail, SetSizeEnd, Dies, history
<1>5. CASE Load \/ Unload \/ UNCHANGED vars
  BY <1>5 DEF Load, Unload, vars, history
<1> QED BY <1>2, <1>3, <1>4, <1>5, Zenon DEF Next

LEMMA LoadNext ==
  ASSUME CharType, LoadInv, [Next]_vars
  PROVE  LoadInv'
<1>1. ASSUME NEW p \in Procs, NEW r \in BOOLEAN, Call(p, r), loaded' = loaded, gen' = gen
      PROVE  LoadInv'
  BY <1>1, CallFacts, Zenon DEF LoadInv
<1>2. ASSUME NEW p \in Procs, NEW n \in Sizes, WriteTest(p, n) \/ ReadClamp(p, n) \/ SetSizeFree(p, n)
      PROVE  LoadInv'
  BY <1>1, <1>2, Zenon DEF WriteTest, ReadClamp, SetSizeFree, device
<1>3. ASSUME NEW p \in Procs, Flush(p)
      PROVE  LoadInv'
  BY <1>1, <1>3, Zenon DEF Flush
<1>4. ASSUME NEW p \in Procs, Write(p) \/ Read(p) \/ SetSize(p)
      PROVE  LoadInv'
  <2>1. UNCHANGED <<clash, overlapped, loaded>> /\ gen' \in {gen, gen + 1} /\ pc[p] # "none"
    BY <1>4, Zenon DEF Write, Read, SetSize, WriteLoad, WriteCopy, WriteFault, WriteSize, WriteEnd, ReadSize,
              ReadLoad, ReadCopy, ReadEnd, SetSizeAlloc, SetSizeFail, SetSizeEnd, Dies, history, device, Allocate
  <2>2. gen > 0 => gen' > 0
    BY <2>1 DEF CharType
  <2> QED BY <2>1, <2>2, Zenon DEF LoadInv
<1>5. CASE Load
  <2>1. gen' > 0
    BY <1>5 DEF Load, Allocate, CharType
  <2> QED BY <1>5, <2>1, Zenon DEF Load, LoadInv
<1>6. CASE Unload
  BY <1>6, Zenon DEF Unload, history, LoadInv
<1>7. CASE UNCHANGED vars
  BY <1>7, Zenon DEF vars, device, history, LoadInv
<1> QED BY <1>2, <1>3, <1>4, <1>5, <1>6, <1>7, Zenon DEF Next

-----------------------------------------------------------------------------
LEMMA ResizeNext ==
  ASSUME CharType, BufferType, LoadInv, ~clash => ResizeInv, [Next]_vars, ~clash'
  PROVE  ResizeInv'
<1>0. ~clash /\ ResizeInv
  BY HistoryGrows, Zenon
<1> USE <1>0, SizesAssumption DEF CharType, Points, ResizeInv, Go
<1>1. CASE Load
  <2>1. \A p \in Procs : pc'[p] = "none"
    BY <1>1, Zenon DEF Load, LoadInv
  <2> QED BY <1>1, <2>1, Zenon DEF Load, Allocate, NewBuffer, Sole, Shape, Copying, InCall, Resizing
<1>2. CASE Unload
  BY <1>2, Zenon DEF Unload, Sole, Shape, Copying, InCall, Resizing
<1>3. ASSUME NEW p \in Procs, NEW n \in Sizes, WriteTest(p, n) PROVE ResizeInv'
  <2>1. Call(p, FALSE)
    BY <1>3, Zenon DEF WriteTest
  <2>2. \A q \in Procs : ~Resizing(q)
    BY <2>1, CallFacts, Zenon
  <2> QED BY <1>3, <2>2 DEF WriteTest, device, Sole, Shape, Copying, InCall, Resizing
<1>4. ASSUME NEW p \in Procs, NEW n \in Sizes, ReadClamp(p, n) PROVE ResizeInv'
  <2>1. Call(p, FALSE)
    BY <1>4, Zenon DEF ReadClamp
  <2>2. \A q \in Procs : ~Resizing(q)
    BY <2>1, CallFacts, Zenon
  <2> QED BY <1>4, <2>2, Zenon DEF ReadClamp, device, Sole, Shape, Copying, InCall, Resizing
<1>5. ASSUME NEW p \in Procs, NEW n \in Sizes, SetSizeFree(p, n) PROVE ResizeInv'
  <2>1. Call(p, TRUE)
    BY <1>5, Zenon DEF SetSizeFree
  <2>2. \A q \in Procs : ~InCall(q)
    BY <2>1, CallFacts, Zenon
  <2> QED BY <1>5, <2>2, Zenon DEF SetSizeFree, Sole, Shape, Copying, InCall, Resizing
<1>6. ASSUME NEW p \in Procs, Flush(p) PROVE ResizeInv'
  BY <1>6, Zenon DEF Flush, locals, Sole, Shape, Copying, InCall, Resizing
<1>7. ASSUME NEW p \in Procs, Write(p) PROVE ResizeInv'
  <2>1. CASE WriteLoad(p)
    BY <2>1, Zenon DEF WriteLoad, LoadPointer, device, Sole, Shape, Copying, InCall, Resizing
  <2>2. CASE WriteCopy(p)
    <3>1. DOMAIN buffer' = DOMAIN buffer /\ UNCHANGED <<at, gen, tsize, nth, len, mem>>
      BY <2>2, Zenon DEF WriteCopy, Store, Dies, device, locals, BufferType
    <3>2. \/ pc' = pc /\ pos' = [pos EXCEPT ![p] = pos[p] + 1]
          \/ pc' = [pc EXCEPT ![p] = "dead"] /\ pos' = pos
      <4>1. CASE mem[p] = Null
        BY <2>2, <4>1, Zenon DEF WriteCopy, Dies, locals
      <4>2. CASE mem[p] # Null
        <5>1. pos' = [pos EXCEPT ![p] = pos[p] + 1] /\ UNCHANGED pc
          BY <2>2, <4>2, Zenon DEF WriteCopy
        <5> QED BY <5>1, Zenon
      <4> QED BY <4>1, <4>2, Zenon
    <3>3. pc[p] = "write" /\ pos[p] < len[p]
      BY <2>2, Zenon DEF WriteCopy
    <3>4. Sole' /\ Shape'
      BY <3>1, <3>2, <3>3, Zenon DEF Sole, Shape, InCall, Resizing
    <3>5. Copying'
      <4>1. CASE pc' = pc /\ pos' = [pos EXCEPT ![p] = pos[p] + 1]
        BY <3>1, <3>3, <4>1 DEF Copying
      <4>2. CASE pc' = [pc EXCEPT ![p] = "dead"] /\ pos' = pos
        BY <3>1, <4>2, Zenon DEF Copying
      <4> QED BY <3>2, <4>1, <4>2, Zenon
    <3> QED BY <3>4, <3>5, Zenon
  <2>3. CASE WriteFault(p)
    BY <2>3, Zenon DEF WriteFault, device, locals, Sole, Shape, Copying, InCall, Resizing
  <2>4. CASE WriteSize(p)
    BY <2>4, Zenon DEF WriteSize, locals, Sole, Shape, Copying, InCall, Resizing
  <2>5. CASE WriteEnd(p)
    <3>1. DOMAIN buffer' = DOMAIN buffer /\ UNCHANGED <<at, gen, tsize, nth, len, mem, pos>>
      BY <2>5, Zenon DEF WriteEnd, Store, Dies, device, locals, BufferType
    <3>2. pc[p] = "wend" /\ pc' \in {[pc EXCEPT ![p] = "none"], [pc EXCEPT ![p] = "dead"]}
      BY <2>5, Zenon DEF WriteEnd, Dies
    <3>3. Sole' /\ Shape'
      BY <3>1, <3>2, Zenon DEF Sole, Shape, InCall, Resizing
    <3>4. Copying'
      BY <3>1, <3>2, Zenon DEF Copying
    <3> QED BY <3>3, <3>4
  <2> QED BY <1>7, <2>1, <2>2, <2>3, <2>4, <2>5, Zenon DEF Write
<1>8. ASSUME NEW p \in Procs, Read(p) PROVE ResizeInv'
  <2>1. CASE ReadSize(p)
    BY <2>1, Zenon DEF ReadSize, device, Sole, Shape, Copying, InCall, Resizing
  <2>2. CASE ReadLoad(p)
    BY <2>2, Zenon DEF ReadLoad, LoadPointer, device, Sole, Shape, Copying, InCall, Resizing
  <2>3. CASE ReadCopy(p)
    <3>1. UNCHANGED <<at, gen, tsize, nth, len, mem, pos, buffer>>
      BY <2>3, Zenon DEF ReadCopy, Dies, device, locals
    <3>2. pc[p] = "read" /\ (pc' = pc \/ pc' = [pc EXCEPT ![p] = "dead"])
      BY <2>3, Zenon DEF ReadCopy, Dies
    <3>3. Sole' /\ Shape'
      BY <3>1, <3>2, Zenon DEF Sole, Shape, InCall, Resizing
    <3>4. Copying'
      BY <3>1, <3>2, Zenon DEF Copying
    <3> QED BY <3>3, <3>4, Zenon
  <2>4. CASE ReadEnd(p)
    BY <2>4, Zenon DEF ReadEnd, device, locals, Sole, Shape, Copying, InCall, Resizing
  <2> QED BY <1>8, <2>1, <2>2, <2>3, <2>4, Zenon DEF Read
<1>9. ASSUME NEW p \in Procs, SetSize(p) PROVE ResizeInv'
  <2>1. CASE SetSizeAlloc(p)
    <3>1. /\ pc[p] = "kmalloc" /\ pc' = [pc EXCEPT ![p] = "tsize"]
          /\ at' = "live" /\ gen' = gen + 1 /\ buffer' = NewBuffer(len[p])
          /\ UNCHANGED <<tsize, nth, len, mem, pos>>
      BY <2>1, Zenon DEF SetSizeAlloc, Allocate, Go, locals
    <3>2. \A q \in Procs : q # p => ~InCall(q)
      BY <3>1, Zenon DEF Sole, Resizing
    <3>3. DOMAIN buffer' = 0..len'[p]
      BY <3>1, Zenon DEF NewBuffer
    <3>4. Sole'
      BY <3>1, <3>2, Zenon DEF Sole, InCall, Resizing
    <3>5. Shape'
      BY <3>1, <3>2, <3>3 DEF Shape, InCall, Resizing
    <3>6. Copying'
      BY <3>1, <3>2, Zenon DEF Copying, InCall
    <3> QED BY <3>4, <3>5, <3>6, Zenon
  <2>2. CASE SetSizeFail(p)
    BY <2>2 DEF SetSizeFail, locals, Sole, Shape, Copying, InCall, Resizing
  <2>3. CASE SetSizeEnd(p)
    BY <2>3, Zenon DEF SetSizeEnd, locals, Sole, Shape, Copying, InCall, Resizing
  <2> QED BY <1>9, <2>1, <2>2, <2>3, Zenon DEF SetSize
<1>10. CASE UNCHANGED vars
  BY <1>10, Zenon DEF vars, device, locals, Sole, Shape, Copying, InCall, Resizing
<1> QED BY <1>1, <1>2, <1>3, <1>4, <1>5, <1>6, <1>7, <1>8, <1>9, <1>10, Zenon DEF Next

-----------------------------------------------------------------------------
\* A cell is stored inside the buffer, and only Fresh cells can become others.
LEMMA FilledFacts ==
  /\ \A b : Filled(b, 0)
  /\ \A b : \A n, m \in Nat : Filled(b, n) /\ m <= n => Filled(b, m)
  BY DEF Filled

\* A process that resizes the buffer is the only one in the driver.
LEMMA Alone ==
  ASSUME ResizeInv, CharType, NEW p \in Procs, Resizing(p), NEW q \in Procs, q # p
  PROVE  pc[q] \in {"none", "dead"}
  BY Zenon DEF ResizeInv, Sole, InCall

\* Any other call works on a buffer whose size is the recorded one.
LEMMA InBuffer ==
  ASSUME ResizeInv, CharType, NEW p \in Procs, InCall(p), ~Resizing(p)
  PROVE  at # "freed" /\ (at = "live" => DOMAIN buffer = 0..tsize)
<1>1. \A q \in Procs : ~Resizing(q)
  BY Zenon DEF ResizeInv, Sole
<1> QED BY <1>1, Zenon DEF ResizeInv, Shape, Resizing, CharType

LEMMA FilledKept ==
  ASSUME BufferType, NEW valid, NEW i \in Nat, NEW cell \in Cell, cell # Fresh,
         Store(valid, i, cell), valid => i \in DOMAIN buffer
  PROVE  /\ \A n \in Nat : Filled(buffer, n) => Filled(buffer', n)
         /\ Filled(buffer, i) /\ valid => Filled(buffer', i + 1)
<1>1. PICK m \in Nat : buffer \in [0..m -> Cell]
  BY Zenon DEF BufferType
<1>2. DOMAIN buffer' = DOMAIN buffer
  BY <1>1, Zenon DEF Store
<1>3. \A j \in DOMAIN buffer : buffer[j] # Fresh => buffer'[j] # Fresh
  BY <1>1, Zenon DEF Store
<1>4. valid => buffer'[i] # Fresh
  BY <1>1, Zenon DEF Store
<1>5. \A n \in Nat : Filled(buffer, n) => Filled(buffer', n)
  BY <1>2, <1>3, Zenon DEF Filled
<1>6. ASSUME Filled(buffer, i), valid PROVE Filled(buffer', i + 1)
  <2> SUFFICES ASSUME NEW j \in 0..i PROVE j \in DOMAIN buffer' /\ buffer'[j] # Fresh
    BY DEF Filled
  <2>1. CASE j = i
    BY <1>2, <1>4, <1>6, <2>1, Zenon
  <2>2. CASE j \in 0..(i - 1)
    BY <1>2, <1>3, <1>6, <2>2, Zenon DEF Filled
  <2> QED BY <2>1, <2>2
<1> QED BY <1>5, <1>6, Zenon

LEMMA PresentNext ==
  ASSUME CharType, BufferType, LoadInv, ~clash => ResizeInv, ~clash /\ ~dropped => PresentInv,
         [Next]_vars, ~clash', ~dropped'
  PROVE  PresentInv'
<1>0. ResizeInv /\ PresentInv
  BY HistoryGrows, Zenon
<1> USE <1>0, SizesAssumption, FilledFacts DEF CharType, Points, PresentInv, Go
<1>1. CASE Load
  <2>1. \A p \in Procs : pc'[p] = "none"
    BY <1>1, Zenon DEF Load, LoadInv
  <2> QED BY <1>1, <2>1 DEF Load, InCall, Resizing
<1>2. CASE Unload
  BY <1>2, Zenon DEF Unload, InCall, Resizing
<1>3. ASSUME NEW p \in Procs, NEW n \in Sizes, WriteTest(p, n) PROVE PresentInv'
  <2>1. pc[p] = "none" /\ \A q \in Procs : ~Resizing(q)
    BY <1>3, CallFacts, Zenon DEF WriteTest
  <2> QED BY <1>3, <2>1, Zenon DEF WriteTest, device, InCall, Resizing
<1>4. ASSUME NEW p \in Procs, NEW n \in Sizes, ReadClamp(p, n) PROVE PresentInv'
  <2>1. pc[p] = "none" /\ \A q \in Procs : ~Resizing(q)
    BY <1>4, CallFacts, Zenon DEF ReadClamp
  <2> QED BY <1>4, <2>1 DEF ReadClamp, device, InCall, Resizing
<1>5. ASSUME NEW p \in Procs, NEW n \in Sizes, SetSizeFree(p, n) PROVE PresentInv'
  <2>1. Call(p, TRUE)
    BY <1>5, Zenon DEF SetSizeFree, InCall, Resizing
  <2>2. \A q \in Procs : ~InCall(q)
    BY <2>1, CallFacts, Zenon
  <2>3. size = 0
    BY <1>5, Zenon DEF SetSizeFree
  <2> QED BY <1>5, <2>2, <2>3, Zenon DEF SetSizeFree, InCall, Resizing
<1>6. ASSUME NEW p \in Procs, Flush(p) PROVE PresentInv'
  BY <1>6 DEF Flush, locals, InCall, Resizing
<1>7. ASSUME NEW p \in Procs, Write(p) PROVE PresentInv'
  <2>1. CASE WriteLoad(p)
    BY <2>1 DEF WriteLoad, LoadPointer, device, Resizing, ResizeInv, Copying
  <2>3. CASE WriteFault(p)
    BY <2>3, Zenon DEF WriteFault, device, locals, InCall, Resizing
  <2>4. CASE WriteSize(p)
    <3>1. /\ pc[p] = "write" /\ pos[p] = len[p] /\ size' = len[p] /\ pc' = [pc EXCEPT ![p] = "wend"]
          /\ UNCHANGED <<at, tsize, buffer, len, pos, copy>>
      BY <2>4, Zenon DEF WriteSize, locals
    <3>2. len[p] <= tsize /\ \A q \in Procs : ~Resizing(q)
      BY <3>1, Zenon DEF ResizeInv, Copying, Sole, InCall, Resizing
    <3> QED BY <3>1, <3>2, Zenon DEF Resizing
  <2>2. CASE WriteCopy(p)
    <3>1. CASE mem[p] = Null
      <4>1. pc' = [pc EXCEPT ![p] = "dead"] /\ UNCHANGED <<at, size, tsize, buffer, len, pos, copy>>
        BY <2>2, <3>1, Zenon DEF WriteCopy, Dies, device, locals
      <4> QED BY <4>1, Zenon DEF Resizing
    <3>2. CASE mem[p] # Null
      <4> DEFINE cell == <<nth[p], pos[p] + 1>>
      <4>1. cell \in Cell /\ cell # Fresh
        BY <2>2, Facts DEF WriteCopy, ResizeInv, Copying
      <4>2. /\ Store(Valid(p, pos[p]), pos[p], cell) /\ pos' = [pos EXCEPT ![p] = pos[p] + 1]
            /\ UNCHANGED <<at, size, tsize, pc, len, copy>>
        BY <2>2, <3>2, Zenon DEF WriteCopy
      <4>3. Valid(p, pos[p]) => pos[p] \in DOMAIN buffer
        BY Zenon DEF Valid
      <4>4. at = "live" => Valid(p, pos[p])
        <5>1. pc[p] = "write" /\ pos[p] < len[p]
          BY <2>2, Zenon DEF WriteCopy
        <5>2. len[p] <= tsize /\ mem[p] = (IF at = "null" THEN Null ELSE gen)
          BY <5>1, Zenon DEF ResizeInv, Copying
        <5>3. at = "live" => DOMAIN buffer = 0..tsize
          BY <5>1, InBuffer, Zenon DEF InCall, Resizing
        <5> QED BY <5>1, <5>2, <5>3 DEF Valid
      <4> HIDE DEF cell
      <4>5. \A n \in Nat : Filled(buffer, n) => Filled(buffer', n)
        BY <4>1, <4>2, <4>3, FilledKept, Zenon
      <4>6. ASSUME at = "live" PROVE Filled(buffer', pos[p] + 1)
        <5>1. Filled(buffer, pos[p]) /\ pos[p] \in Nat
          BY <2>2, <4>6, Zenon DEF WriteCopy
        <5>2. Valid(p, pos[p])
          BY <4>4, <4>6, Zenon
        <5> QED BY ONLY BufferType, <4>1, <4>2, <4>3, <5>1, <5>2, FilledKept, Zenon
      <4> QED BY <4>2, <4>5, <4>6, Zenon DEF Resizing
    <3> QED BY <3>1, <3>2, Zenon
  <2>5. CASE WriteEnd(p)
    <3>1. CASE at = "null"
      <4>1. pc' = [pc EXCEPT ![p] = "dead"] /\ UNCHANGED <<at, size, tsize, buffer, len, pos, copy>>
        BY <2>5, <3>1, Zenon DEF WriteEnd, Dies, device, locals
      <4> QED BY <4>1 DEF Resizing
    <3>2. CASE at # "null"
      <4> DEFINE valid == at = "live" /\ len[p] \in DOMAIN buffer
      <4>1. Store(valid, len[p], Nul)
        BY <2>5, <3>2, Zenon DEF WriteEnd
      <4>2. \A n \in Nat : Filled(buffer, n) => Filled(buffer', n)
        BY <4>1, Facts, FilledKept, Zenon
      <4>3. pc' = [pc EXCEPT ![p] = "none"] /\ UNCHANGED <<at, size, tsize, len, pos, copy>>
        BY <2>5, <3>2, Zenon DEF WriteEnd, locals
      <4> QED BY <4>2, <4>3, Zenon DEF Resizing
    <3> QED BY <3>1, <3>2, Zenon
  <2> QED BY <1>7, <2>1, <2>2, <2>3, <2>4, <2>5, Zenon DEF Write
<1>8. ASSUME NEW p \in Procs, Read(p) PROVE PresentInv'
  <2>1. CASE ReadSize(p)
    BY <2>1, Zenon DEF ReadSize, device, InCall, Resizing
  <2>2. CASE ReadLoad(p)
    BY <2>2, Zenon DEF ReadLoad, LoadPointer, device, InCall, Resizing
  <2>4. CASE ReadEnd(p)
    BY <2>4, Zenon DEF ReadEnd, device, locals, InCall, Resizing
  <2>3. CASE ReadCopy(p)
    <3>1. CASE mem[p] = Null
      <4>1. pc' = [pc EXCEPT ![p] = "dead"] /\ UNCHANGED <<at, size, tsize, buffer, len, pos, copy>>
        BY <2>3, <3>1, Zenon DEF ReadCopy, Dies, device, locals
      <4> QED BY <4>1 DEF Resizing
    <3>2. CASE mem[p] # Null
      <4> DEFINE k == Len(copy[p])
      <4>1. k \in Nat /\ k < len[p] /\ Valid(p, k) /\ buffer[k] # Fresh
        <5>1. pc[p] = "read" /\ k \in Nat /\ k < len[p]
          BY <2>3 DEF ReadCopy
        <5>2. len[p] <= tsize /\ mem[p] = (IF at = "null" THEN Null ELSE gen)
          BY <5>1, Zenon DEF ResizeInv, Copying
        <5>3. at # "freed" /\ (at = "live" => DOMAIN buffer = 0..tsize)
          BY <5>1, InBuffer, Zenon DEF InCall, Resizing
        <5>4. Valid(p, k) /\ at = "live"
          BY <3>2, <5>1, <5>2, <5>3 DEF Valid
        <5>5. Filled(buffer, len[p])
          BY <5>1, <5>4, Zenon
        <5> HIDE DEF k
        <5> QED BY <5>1, <5>4, <5>5 DEF Filled
      <4>2. copy' = [copy EXCEPT ![p] = Append(copy[p], buffer[k])]
        BY <2>3, <3>2, <4>1, Zenon DEF ReadCopy
      <4>3. \A q \in Procs : \A i \in DOMAIN copy'[q] : copy'[q][i] # Fresh
        BY <4>1, <4>2
      <4>4. UNCHANGED <<at, size, tsize, buffer, pc, len, pos>>
        BY <2>3, <3>2, Zenon DEF ReadCopy, device, locals
      <4> QED BY <4>3, <4>4, Zenon DEF Resizing
    <3> QED BY <3>1, <3>2
  <2> QED BY <1>8, <2>1, <2>2, <2>3, <2>4, Zenon DEF Read
<1>9. ASSUME NEW p \in Procs, SetSize(p) PROVE PresentInv'
  <2>1. CASE SetSizeAlloc(p)
    <3>1. /\ \A q \in Procs : pc'[q] \in {"none", "dead", "tsize"}
          /\ size' = 0 /\ UNCHANGED <<copy, tsize>>
      BY <2>1, Alone, Zenon DEF Resizing, SetSizeAlloc, locals
    <3>2. Filled(buffer', size') /\ size' <= tsize'
      BY <3>1
    <3> QED BY <3>1, <3>2, Zenon DEF Resizing
  <2>2. CASE SetSizeFail(p)
    BY <2>2, Zenon DEF SetSizeFail, locals, InCall, Resizing
  <2>3. CASE SetSizeEnd(p)
    <3>1. (\A q \in Procs : pc'[q] \in {"none", "dead"}) /\ size' = 0 /\ UNCHANGED copy
      BY <2>3, Alone, Zenon DEF Resizing, SetSizeEnd, locals
    <3>2. tsize' \in Nat
      BY <2>3, Zenon DEF SetSizeEnd
    <3>3. Filled(buffer', size') /\ size' <= tsize'
      BY <3>1, <3>2
    <3> QED BY <3>1, <3>3, Zenon DEF Resizing
  <2> QED BY <1>9, <2>1, <2>2, <2>3, Zenon DEF SetSize
<1>10. CASE UNCHANGED vars
  BY <1>10, Zenon DEF vars, device, locals, InCall, Resizing
<1> QED BY <1>1, <1>2, <1>3, <1>4, <1>5, <1>6, <1>7, <1>8, <1>9, <1>10, Zenon DEF Next

-----------------------------------------------------------------------------
(* Stray accesses.                                                         *)

\* A write that no resize has met stays in the buffer, the terminator too.
LEMMA WriteInside ==
  ASSUME CharType, ResizeInv, NEW p \in Procs
  PROVE  /\ WriteCopy(p) /\ mem[p] # Null => Valid(p, pos[p])
         /\ WriteEnd(p) /\ at # "null" => at = "live" /\ len[p] \in DOMAIN buffer
<1>1. ASSUME pc[p] \in {"write", "wend"}
      PROVE  /\ len[p] <= tsize /\ at # "freed" /\ (at = "live" => DOMAIN buffer = 0..tsize)
             /\ pc[p] = "write" => mem[p] = (IF at = "null" THEN Null ELSE gen)
  <2>1. InCall(p) /\ ~Resizing(p)
    BY <1>1, Zenon DEF InCall, Resizing
  <2> QED BY <1>1, <2>1, InBuffer, Zenon DEF ResizeInv, Copying
<1>2. ASSUME WriteCopy(p), mem[p] # Null PROVE Valid(p, pos[p])
  <2>1. pc[p] = "write" /\ pos[p] < len[p]
    BY <1>2, Zenon DEF WriteCopy
  <2> QED BY <1>1, <1>2, <2>1 DEF Valid, CharType
<1>3. ASSUME WriteEnd(p), at # "null" PROVE at = "live" /\ len[p] \in DOMAIN buffer
  <2>1. pc[p] = "wend"
    BY <1>3, Zenon DEF WriteEnd
  <2> QED BY <1>1, <1>3, <2>1 DEF CharType
<1> QED BY <1>2, <1>3, Zenon

\* So does a read, as long as it asks for no more than the buffer has.
LEMMA ReadInside ==
  ASSUME CharType, ResizeInv, NEW p \in Procs, ReadCopy(p), mem[p] # Null, len[p] <= tsize
  PROVE  Valid(p, Len(copy[p])) /\ at = "live"
<1>1. pc[p] = "read" /\ Len(copy[p]) < len[p] /\ Len(copy[p]) \in Nat
  BY DEF ReadCopy, CharType
<1>2. mem[p] = (IF at = "null" THEN Null ELSE gen)
  BY <1>1, Zenon DEF ResizeInv, Copying
<1>3. at # "freed" /\ (at = "live" => DOMAIN buffer = 0..tsize)
  BY <1>1, InBuffer, Zenon DEF InCall, Resizing
<1> QED BY <1>1, <1>2, <1>3 DEF Valid, CharType

LEMMA StrayNext ==
  ASSUME CharType, ~clash => ResizeInv, ~clash /\ ~dropped => PresentInv, StrayNeedsClash,
         [Next]_vars
  PROVE  StrayNeedsClash'
<1> SUFFICES ASSUME ~clash' PROVE stray' = {} \/ (dropped' /\ stray' = {"read"})
  BY Zenon DEF StrayNeedsClash
<1>0. ~clash /\ ResizeInv
  BY HistoryGrows, Zenon
<1>1. CASE stray' = stray
  BY <1>0, <1>1, HistoryGrows, Zenon DEF StrayNeedsClash
<1>2. ASSUME NEW p \in Procs, WriteCopy(p) PROVE stray' = stray
  BY <1>0, <1>2, WriteInside, Zenon DEF WriteCopy, Store, Stray, Dies, history
<1>3. ASSUME NEW p \in Procs, WriteEnd(p) PROVE stray' = stray
  BY <1>0, <1>3, WriteInside, Zenon DEF WriteEnd, Store, Stray, Dies, history
<1>4. ASSUME NEW p \in Procs, NEW n \in Sizes, SetSizeFree(p, n) PROVE stray' = stray
  <2>1. Call(p, TRUE) /\ stray' = stray \union Stray("free", at # "freed")
    BY <1>4, Zenon DEF SetSizeFree
  <2>2. \A q \in Procs : ~Resizing(q)
    BY <2>1, CallFacts, Zenon
  <2>3. at # "freed"
    BY <1>0, <2>2, Zenon DEF ResizeInv, Shape, Resizing
  <2> QED BY <2>1, <2>3, Zenon DEF Stray
<1>5. ASSUME NEW p \in Procs, ReadCopy(p) PROVE stray' = stray \/ (dropped' /\ stray' = {"read"})
  <2>1. CASE mem[p] = Null
    BY <1>5, <2>1, Zenon DEF ReadCopy, Dies, history
  <2>2. CASE mem[p] # Null /\ ~dropped
    <3>1. pc[p] = "read"
      BY <1>5, Zenon DEF ReadCopy
    <3>2. len[p] <= tsize
      BY <1>0, <2>2, <3>1, Zenon DEF PresentInv
    <3>3. Valid(p, Len(copy[p]))
      BY <1>0, <1>5, <2>2, <3>2, ReadInside, Zenon
    <3> QED BY <1>5, <2>2, <3>3, Zenon DEF ReadCopy, Stray
  <2>3. CASE mem[p] # Null /\ dropped
    <3>1. stray' = stray \/ stray' = stray \union {"read"}
      BY <1>5, <2>3, Zenon DEF ReadCopy, Stray
    <3>2. dropped'
      BY <2>3, HistoryGrows, Zenon
    <3> QED BY <1>0, <3>1, <3>2, Zenon DEF StrayNeedsClash
  <2> QED BY <2>1, <2>2, <2>3, Zenon
<1>6. \/ stray' = stray
      \/ \E p \in Procs : \/ WriteCopy(p) \/ WriteEnd(p) \/ ReadCopy(p)
                          \/ \E n \in Sizes : SetSizeFree(p, n)
  BY Zenon DEF Next, vars, Load, Unload, WriteTest, ReadClamp, Flush, Write, Read, SetSize, WriteLoad,
         WriteFault, WriteSize, ReadSize, ReadLoad, ReadEnd, SetSizeAlloc, SetSizeFail, SetSizeEnd,
         history
<1> QED BY <1>1, <1>2, <1>3, <1>4, <1>5, <1>6, Zenon

-----------------------------------------------------------------------------
(* What is stored.                                                         *)

\* A store after the end of a string leaves it, one at its end extends it.
LEMMA HoldsKept ==
  ASSUME BufferType, NEW valid, NEW i \in Nat, NEW cell, Store(valid, i, cell), NEW s \in Seq(Cell)
  PROVE  /\ Len(s) <= i /\ Holds(buffer, s) => Holds(buffer', s)
         /\ Len(s) = i /\ Holds(buffer, s) /\ valid /\ i \in DOMAIN buffer =>
              Holds(buffer', Append(s, cell))
<1>1. PICK m \in Nat : buffer \in [0..m -> Cell]
  BY Zenon DEF BufferType
<1>2. /\ DOMAIN buffer' = DOMAIN buffer
      /\ \A j \in DOMAIN buffer : j # i => buffer'[j] = buffer[j]
      /\ valid /\ i \in DOMAIN buffer => buffer'[i] = cell
  BY <1>1, Zenon DEF Store
<1>3. ASSUME Len(s) <= i, Holds(buffer, s) PROVE Holds(buffer', s)
  BY <1>2, <1>3 DEF Holds
<1>4. ASSUME Len(s) = i, Holds(buffer, s), valid, i \in DOMAIN buffer
      PROVE  Holds(buffer', Append(s, cell))
  <2> DEFINE t == Append(s, cell)
  <2>1. Len(t) = i + 1 /\ t[i + 1] = cell /\ \A j \in 1..i : t[j] = s[j]
    BY <1>4
  <2> HIDE DEF t
  <2> SUFFICES ASSUME NEW j \in 1..(i + 1) PROVE j - 1 \in DOMAIN buffer' /\ buffer'[j - 1] = t[j]
    BY <2>1, Zenon DEF Holds, t
  <2>2. CASE j = i + 1
    BY <1>2, <1>4, <2>1, <2>2
  <2>3. CASE j \in 1..i
    <3>1. j - 1 \in DOMAIN buffer /\ buffer[j - 1] = s[j]
      BY <1>4, <2>3, Zenon DEF Holds
    <3> QED BY <1>2, <2>1, <2>3, <3>1
  <2> QED BY <2>2, <2>3
<1> QED BY <1>3, <1>4, Zenon

LEMMA HoldsMore ==
  ASSUME NEW b, NEW s \in Seq(Cell), Holds(b, s), Len(s) \in DOMAIN b
  PROVE  Holds(b, Append(s, b[Len(s)]))
<1> DEFINE t == Append(s, b[Len(s)])
<1>1. Len(t) = Len(s) + 1 /\ t[Len(s) + 1] = b[Len(s)] /\ \A j \in 1..Len(s) : t[j] = s[j]
  OBVIOUS
<1> HIDE DEF t
<1> SUFFICES ASSUME NEW j \in 1..(Len(s) + 1) PROVE j - 1 \in DOMAIN b /\ b[j - 1] = t[j]
  BY <1>1, Zenon DEF Holds, t
<1>2. CASE j = Len(s) + 1
  BY <1>1, <1>2
<1>3. CASE j \in 1..Len(s)
  BY <1>1, <1>3, Zenon DEF Holds
<1> QED BY <1>2, <1>3

LEMMA EmptyHeld == \A b : Holds(b, <<>>)
  BY DEF Holds

LEMMA StringGrows ==
  ASSUME NEW w \in Nat, NEW n \in Nat
  PROVE  String(w, n + 1) = Append(String(w, n), <<w, n + 1>>) /\ String(w, 0) = <<>>
  BY DEF String

\* While the others are outside of the driver only one process matters.
LEMMA OneCall ==
  ASSUME NEW p \in Procs, Known', Private(p)',
         \A q \in Procs : q # p => pc'[q] \in {"none", "dead"}
  PROVE  StoredInv'
<1>1. Single'
  BY Zenon DEF Single, InCall
<1>2. ASSUME NEW q \in Procs, q # p PROVE Private(q)'
  BY <1>2, Zenon DEF Private
<1> QED BY <1>1, <1>2, Zenon DEF StoredInv

LEMMA Others ==
  ASSUME CharType, StoredInv, NEW p \in Procs, InCall(p), NEW v, pc' = [pc EXCEPT ![p] = v]
  PROVE  pc'[p] = v /\ \A q \in Procs : q # p => pc'[q] \in {"none", "dead"}
  BY Zenon DEF CharType, StoredInv, Single, InCall
LEMMA StoredNext ==
  ASSUME CharType, BufferType, LoadInv, ~clash => ResizeInv, ~overlapped => StoredInv,
         [Next]_vars, ~overlapped'
  PROVE  StoredInv'
<1>0. ResizeInv /\ StoredInv
  BY HistoryGrows, Zenon DEF LoadInv
<1> USE <1>0, SizesAssumption DEF CharType, Go
<1>1. CASE Load
  <2>1. \A p \in Procs : pc'[p] = "none"
    BY <1>1, Zenon DEF Load, LoadInv
  <2>2. stored' = <<>> /\ size' = 0 /\ tsize' \in Nat
    BY <1>1, Zenon DEF Load
  <2>3. Known'
    BY <2>2, EmptyHeld DEF Known
  <2> QED BY <2>1, <2>3, Zenon DEF StoredInv, Single, Private, InCall
<1>2. CASE Unload
  BY <1>2, Zenon DEF Unload, history, StoredInv, Single, Known, Private, InCall
<1>3. ASSUME NEW p \in Procs, NEW n \in Sizes, WriteTest(p, n) PROVE StoredInv'
  <2>1. Call(p, FALSE) /\ pc' = [pc EXCEPT ![p] = "wload"] /\ stored' = Unknown
    BY <1>3, Zenon DEF WriteTest
  <2>2. \A q \in Procs : ~InCall(q)
    BY <2>1, CallFacts, Zenon
  <2>3. pc'[p] = "wload" /\ \A q \in Procs : q # p => pc'[q] \in {"none", "dead"}
    BY <2>1, <2>2, Zenon DEF InCall
  <2>4. Known' /\ Private(p)'
    BY <2>1, <2>3, Zenon DEF Known, Private
  <2> QED BY <2>3, <2>4, OneCall, Zenon
<1>4. ASSUME NEW p \in Procs, NEW n \in Sizes, ReadClamp(p, n) PROVE StoredInv'
  <2>1. /\ Call(p, FALSE) /\ pc' = [pc EXCEPT ![p] = IF n > size THEN "clamp" ELSE "rload"]
        /\ len' = [len EXCEPT ![p] = n] /\ copy' = [copy EXCEPT ![p] = <<>>]
        /\ UNCHANGED <<stored, size, tsize, buffer>>
    BY <1>4, Zenon DEF ReadClamp, device
  <2>2. \A q \in Procs : ~InCall(q)
    BY <2>1, CallFacts, Zenon
  <2>3. /\ pc'[p] \in {"clamp", "rload"} /\ (pc'[p] = "rload" => n <= size)
        /\ \A q \in Procs : q # p => pc'[q] \in {"none", "dead"}
    BY <2>1, <2>2 DEF InCall
  <2>4. Known' /\ Private(p)'
    BY <2>1, <2>3, Zenon DEF StoredInv, Known, Private
  <2> QED BY <2>3, <2>4, OneCall, Zenon
<1>5. ASSUME NEW p \in Procs, NEW n \in Sizes, SetSizeFree(p, n) PROVE StoredInv'
  <2>1. Call(p, TRUE) /\ pc' = [pc EXCEPT ![p] = "kmalloc"] /\ stored' = Unknown
    BY <1>5, Zenon DEF SetSizeFree
  <2>2. \A q \in Procs : ~InCall(q)
    BY <2>1, CallFacts, Zenon
  <2>3. pc'[p] = "kmalloc" /\ \A q \in Procs : q # p => pc'[q] \in {"none", "dead"}
    BY <2>1, <2>2, Zenon DEF InCall
  <2>4. Known' /\ Private(p)'
    BY <2>1, <2>3, Zenon DEF Known, Private
  <2> QED BY <2>3, <2>4, OneCall, Zenon
<1>6. ASSUME NEW p \in Procs, Flush(p) PROVE StoredInv'
  <2>1. Call(p, FALSE) /\ pc' = pc /\ stored' = <<>> /\ size' = 0 /\ tsize' = tsize
    BY <1>6, Zenon DEF Flush
  <2>2. \A q \in Procs : ~InCall(q)
    BY <2>1, CallFacts, Zenon
  <2>3. \A q \in Procs : pc'[q] \in {"none", "dead"}
    BY <2>1, <2>2, Zenon DEF InCall
  <2>4. Known'
    BY <2>1, EmptyHeld DEF Known
  <2>5. Private(p)'
    BY <2>3, Zenon DEF Private
  <2> QED BY <2>3, <2>4, <2>5, OneCall, Zenon
<1>7. ASSUME NEW p \in Procs, Write(p) PROVE StoredInv'
  <2>1. CASE WriteLoad(p)
    <3>1. /\ pc[p] = "wload" /\ pc' = [pc EXCEPT ![p] = "write"]
          /\ UNCHANGED <<stored, size, buffer, nth, pos>>
      BY <2>1, Zenon DEF WriteLoad, LoadPointer, device, history
    <3>2. pc'[p] = "write" /\ \A q \in Procs : q # p => pc'[q] \in {"none", "dead"}
      BY <3>1, Others, Zenon DEF InCall
    <3>3. stored = Unknown /\ pos[p] = 0
      BY <3>1, Zenon DEF StoredInv, Private, ResizeInv, Copying
    <3>4. Known' /\ Private(p)'
      BY <3>1, <3>2, <3>3, EmptyHeld, StringGrows, Zenon DEF Known, Private
    <3> QED BY <3>2, <3>4, OneCall, Zenon
  <2>2. CASE WriteCopy(p)
    <3>1. pc[p] = "write"
      BY <2>2, Zenon DEF WriteCopy
    <3>2. stored = Unknown /\ Holds(buffer, String(nth[p], pos[p]))
      BY <3>1, Zenon DEF StoredInv, Private
    <3>3. \A q \in Procs : q # p => pc[q] \in {"none", "dead"}
      BY <3>1, Zenon DEF StoredInv, Single, InCall
    <3>4. CASE mem[p] = Null
      <4>1. stored' = stored /\ pc' = [pc EXCEPT ![p] = "dead"]
        BY <2>2, <3>4, Zenon DEF WriteCopy, Dies, history
      <4>2. Known' /\ Private(p)'
        BY <3>2, <4>1, Zenon DEF Known, Private
      <4> QED BY <3>3, <4>1, <4>2, OneCall, Zenon
    <3>5. CASE mem[p] # Null
      <4>1. /\ Store(Valid(p, pos[p]), pos[p], <<nth[p], pos[p] + 1>>)
            /\ pos' = [pos EXCEPT ![p] = pos[p] + 1] /\ UNCHANGED <<pc, nth, stored, size>>
        BY <2>2, <3>5, Zenon DEF WriteCopy
      <4>2. Valid(p, pos[p]) /\ pos[p] \in DOMAIN buffer
        BY <2>2, <3>5, WriteInside, Zenon DEF Valid
      <4>3. /\ String(nth[p], pos[p]) \in Seq(Cell) /\ Len(String(nth[p], pos[p])) = pos[p]
            /\ String(nth[p], pos[p] + 1) = Append(String(nth[p], pos[p]), <<nth[p], pos[p] + 1>>)
        BY StringType, StringGrows, Zenon
      <4>4. Holds(buffer', String(nth[p], pos[p] + 1))
        BY <3>2, <4>1, <4>2, <4>3, HoldsKept, Zenon
      <4>5. Known' /\ Private(p)'
        BY <3>1, <3>2, <4>1, <4>4, Zenon DEF Known, Private
      <4> QED BY <3>3, <4>1, <4>5, OneCall, Zenon
    <3> QED BY <3>4, <3>5, Zenon
  <2>3. CASE WriteFault(p)
    <3>1. pc[p] = "write" /\ pc' = [pc EXCEPT ![p] = "none"] /\ stored' = stored
      BY <2>3, Zenon DEF WriteFault, history
    <3>2. pc'[p] = "none" /\ \A q \in Procs : q # p => pc'[q] \in {"none", "dead"}
      BY <3>1, Others, Zenon DEF InCall
    <3>3. Known' /\ Private(p)'
      BY <3>1, <3>2, Zenon DEF StoredInv, Known, Private
    <3> QED BY <3>2, <3>3, OneCall, Zenon
  <2>4. CASE WriteSize(p)
    <3>1. /\ pc[p] = "write" /\ pos[p] = len[p] /\ size' = len[p] /\ pc' = [pc EXCEPT ![p] = "wend"]
          /\ UNCHANGED <<stored, buffer, nth, pos, len>>
      BY <2>4, Zenon DEF WriteSize, locals, history
    <3>2. pc'[p] = "wend" /\ \A q \in Procs : q # p => pc'[q] \in {"none", "dead"}
      BY <3>1, Others, Zenon DEF InCall
    <3>3. Known' /\ Private(p)'
      BY <3>1, <3>2, Zenon DEF StoredInv, Known, Private
    <3> QED BY <3>2, <3>3, OneCall, Zenon
  <2>5. CASE WriteEnd(p)
    <3>1. pc[p] = "wend"
      BY <2>5, Zenon DEF WriteEnd
    <3>2. /\ stored = Unknown /\ Holds(buffer, String(nth[p], pos[p])) /\ pos[p] = len[p]
          /\ size = len[p] /\ len[p] <= tsize
      BY <3>1, Zenon DEF StoredInv, Private, ResizeInv, Copying
    <3>3. CASE at = "null"
      <4>1. pc' = [pc EXCEPT ![p] = "dead"] /\ stored' = stored
        BY <2>5, <3>3, Zenon DEF WriteEnd, Dies, history
      <4>2. pc'[p] = "dead" /\ \A q \in Procs : q # p => pc'[q] \in {"none", "dead"}
        BY <3>1, <4>1, Others, Zenon DEF InCall
      <4>3. Known' /\ Private(p)'
        BY <3>2, <4>1, <4>2, Zenon DEF Known, Private
      <4> QED BY <4>2, <4>3, OneCall, Zenon
    <3>4. CASE at # "null"
      <4>1. /\ Store(at = "live" /\ len[p] \in DOMAIN buffer, len[p], Nul)
            /\ pc' = [pc EXCEPT ![p] = "none"] /\ stored' = String(nth[p], len[p])
            /\ UNCHANGED <<size, tsize>>
        BY <2>5, <3>4, Zenon DEF WriteEnd
      <4>2. pc'[p] = "none" /\ \A q \in Procs : q # p => pc'[q] \in {"none", "dead"}
        BY <3>1, <4>1, Others, Zenon DEF InCall
      <4>3. stored' \in Seq(Cell) /\ Len(stored') = len[p]
        BY <4>1, StringType, Zenon
      <4>4. Holds(buffer', stored')
        <5> DEFINE t == String(nth[p], len[p])
        <5>1. Holds(buffer, t) /\ t \in Seq(Cell) /\ Len(t) <= len[p]
          BY <3>2, StringType
        <5>2. Holds(buffer', t)
          BY <4>1, <5>1, HoldsKept, Zenon
        <5> QED BY <4>1, <5>2, Zenon
      <4>5. Known' /\ Private(p)'
        BY <3>2, <4>1, <4>2, <4>3, <4>4, Zenon DEF Known, Private
      <4> QED BY <4>2, <4>5, OneCall
    <3> QED BY <3>3, <3>4, Zenon
  <2> QED BY <1>7, <2>1, <2>2, <2>3, <2>4, <2>5, Zenon DEF Write
<1>8. ASSUME NEW p \in Procs, Read(p) PROVE StoredInv'
  <2>1. CASE ReadSize(p)
    <3>1. /\ pc[p] = "clamp" /\ pc' = [pc EXCEPT ![p] = "rload"] /\ len' = [len EXCEPT ![p] = size]
          /\ UNCHANGED <<stored, size, tsize, buffer, copy>>
      BY <2>1, Zenon DEF ReadSize, device, history
    <3>2. pc'[p] = "rload" /\ \A q \in Procs : q # p => pc'[q] \in {"none", "dead"}
      BY <3>1, Others, Zenon DEF InCall
    <3>3. Known' /\ Private(p)'
      BY <3>1, <3>2 DEF StoredInv, Known, Private
    <3> QED BY <3>2, <3>3, OneCall, Zenon
  <2>2. CASE ReadLoad(p)
    <3>1. /\ pc[p] = "rload" /\ pc' = [pc EXCEPT ![p] = "read"]
          /\ UNCHANGED <<stored, size, tsize, buffer, copy, len>>
      BY <2>2, Zenon DEF ReadLoad, LoadPointer, device, history
    <3>2. pc'[p] = "read" /\ \A q \in Procs : q # p => pc'[q] \in {"none", "dead"}
      BY <3>1, Others, Zenon DEF InCall
    <3>3. copy[p] = <<>> /\ (stored # Unknown => len[p] <= size)
      BY <3>1, Zenon DEF StoredInv, Private
    <3>4. Known' /\ Private(p)'
      BY <3>1, <3>2, <3>3, EmptyHeld DEF StoredInv, Known, Private
    <3> QED BY <3>2, <3>4, OneCall, Zenon
  <2>3. CASE ReadCopy(p)
    <3>1. pc[p] = "read" /\ Len(copy[p]) < len[p]
      BY <2>3, Zenon DEF ReadCopy
    <3>2. \A q \in Procs : q # p => pc[q] \in {"none", "dead"}
      BY <3>1, Zenon DEF StoredInv, Single, InCall
    <3>3. CASE mem[p] = Null
      <4>1. pc' = [pc EXCEPT ![p] = "dead"] /\ UNCHANGED <<stored, size, tsize, buffer>>
        BY <2>3, <3>3, Zenon DEF ReadCopy, Dies, device, history
      <4>2. Known' /\ Private(p)'
        BY <4>1, Zenon DEF StoredInv, Known, Private
      <4> QED BY <3>2, <4>1, <4>2, OneCall, Zenon
    <3>4. CASE mem[p] # Null
      <4>1. /\ UNCHANGED <<stored, size, tsize, buffer, pc, len>>
            /\ copy' = [copy EXCEPT ![p] = Append(copy[p],
                          IF Valid(p, Len(copy[p])) THEN buffer[Len(copy[p])] ELSE Fresh)]
        BY <2>3, <3>4, Zenon DEF ReadCopy, device, locals
      <4>2. ASSUME stored # Unknown
            PROVE  /\ len[p] <= size /\ Holds(buffer, copy[p]) /\ Valid(p, Len(copy[p]))
                   /\ len[p] <= tsize
        BY <2>3, <3>1, <3>4, <4>2, ReadInside DEF StoredInv, Known, Private
      <4>3. ASSUME stored # Unknown
            PROVE  Len(copy'[p]) <= len[p] /\ Holds(buffer, copy'[p])
        <5>1. copy'[p] = Append(copy[p], buffer[Len(copy[p])])
          BY <4>1, <4>2, <4>3, Zenon
        <5>2. Len(copy[p]) \in DOMAIN buffer
          BY <4>2, <4>3, Zenon DEF Valid
        <5>3. Holds(buffer, Append(copy[p], buffer[Len(copy[p])]))
          BY <4>2, <4>3, <5>2, HoldsMore, Zenon
        <5> QED BY <3>1, <5>1, <5>3
      <4>4. Known' /\ Private(p)'
        BY <3>1, <4>1, <4>2, <4>3, Zenon DEF StoredInv, Known, Private
      <4> QED BY <3>2, <4>1, <4>4, OneCall, Zenon
    <3> QED BY <3>3, <3>4
  <2>4. CASE ReadEnd(p)
    <3>1. pc[p] = "read" /\ pc' = [pc EXCEPT ![p] = "none"] /\ UNCHANGED <<stored, size, tsize, buffer>>
      BY <2>4, Zenon DEF ReadEnd, device, history
    <3>2. pc'[p] = "none" /\ \A q \in Procs : q # p => pc'[q] \in {"none", "dead"}
      BY <3>1, Others, Zenon DEF InCall
    <3>3. Known' /\ Private(p)'
      BY <3>1, <3>2, Zenon DEF StoredInv, Known, Private
    <3> QED BY <3>2, <3>3, OneCall
  <2> QED BY <1>8, <2>1, <2>2, <2>3, <2>4, Zenon DEF Read
<1>9. ASSUME NEW p \in Procs, SetSize(p) PROVE StoredInv'
  <2>1. /\ pc[p] \in {"kmalloc", "tsize"} /\ stored' = stored
        /\ pc' = [pc EXCEPT ![p] = "tsize"] \/ pc' = [pc EXCEPT ![p] = "none"]
    BY <1>9, Zenon DEF SetSize, SetSizeAlloc, SetSizeFail, SetSizeEnd, history
  <2>2. pc'[p] \in {"tsize", "none"} /\ \A q \in Procs : q # p => pc'[q] \in {"none", "dead"}
    BY <2>1, Others, Zenon DEF InCall
  <2>3. Known' /\ Private(p)'
    BY <2>1, <2>2, Zenon DEF StoredInv, Known, Private
  <2> QED BY <2>2, <2>3, OneCall, Zenon
<1>10. CASE UNCHANGED vars
  BY <1>10, Zenon DEF vars, device, locals, history, StoredInv, Single, Known, Private, InCall
<1> QED BY <1>1, <1>2, <1>3, <1>4, <1>5, <1>6, <1>7, <1>8, <1>9, <1>10, Zenon DEF Next

-----------------------------------------------------------------------------
LEMMA CharInvInit == Init => CharInv
<1> SUFFICES ASSUME Init PROVE CharInv
  BY Zenon
<1>1. /\ \A p \in Procs : pc[p] = "none" /\ copy[p] = <<>>
      /\ size = 0 /\ tsize = 0 /\ at = "null" /\ stored = <<>> /\ stray = {}
  BY Zenon DEF Init
<1>2. ResizeInv
  BY <1>1, Zenon DEF ResizeInv, Sole, Shape, Copying, InCall, Resizing
<1>3. PresentInv
  BY <1>1 DEF PresentInv, Resizing
<1>4. StoredInv
  BY <1>1, EmptyHeld DEF StoredInv, Single, Known, Private, InCall
<1> QED BY <1>1, <1>2, <1>3, <1>4, CharTypeInit, Zenon DEF CharInv, StrayNeedsClash

LEMMA CharInvNext == CharInv /\ [Next]_vars => CharInv'
<1> SUFFICES ASSUME CharInv, [Next]_vars PROVE CharInv'
  BY Zenon
<1>1. CharType' /\ BufferType' /\ LoadInv'
  BY CharTypeNext, BufferNext, LoadNext, Zenon DEF CharInv
<1>2. ~clash' => ResizeInv'
  BY ResizeNext, Zenon DEF CharInv
<1>3. ~clash' /\ ~dropped' => PresentInv'
  BY PresentNext, Zenon DEF CharInv
<1>4. ~overlapped' => StoredInv'
  BY StoredNext, Zenon DEF CharInv
<1>5. StrayNeedsClash'
  BY StrayNext, Zenon DEF CharInv
<1> QED BY <1>1, <1>2, <1>3, <1>4, <1>5, Zenon DEF CharInv

LEMMA CharInvHolds == Spec => []CharInv
  BY CharInvInit, CharInvNext, PTL DEF Spec

\* The driver stays inside its memory unless a resize overlaps another call or,
\* for a read, met a stored string (my_driver_write, my_driver_read and
\* my_device_set_size), for every number of processes and all sizes.
THEOREM StaysInside == Spec => []StrayNeedsClash
<1>1. CharInv => StrayNeedsClash
  BY Zenon DEF CharInv
<1> QED BY <1>1, CharInvHolds, PTL

\* "read only present data": no read returns memory that no write filled, unless
\* a resize met a stored string or another call, however reads, writes and
\* flushes interleave (my_driver_read, my_driver_write).
THEOREM ReadsPresentData == Spec => []PresentData
<1>1. CharInv => PresentData
  <2> SUFFICES ASSUME CharInv, ~dropped, ~clash
               PROVE  \A p \in Procs : \A i \in DOMAIN copy[p] : copy[p][i] # Fresh
    BY Zenon DEF PresentData
  <2>1. PresentInv
    BY Zenon DEF CharInv
  <2> QED BY <2>1, Zenon DEF PresentInv
<1> QED BY <1>1, CharInvHolds, PTL

\* Calls that do not overlap: a read gives back the string of the last write, as
\* much of it as it asks for (my_driver_write, my_driver_read, MD_FLUSH).
THEOREM ReadGivesBack == Spec => []GivesBack
<1>1. CharInv => GivesBack
  <2> SUFFICES ASSUME CharInv, NEW p \in Procs, ~overlapped, pc[p] = "read",
                      Len(copy[p]) = len[p], stored # Unknown
               PROVE  len[p] <= Len(stored) /\ copy[p] = SubSeq(stored, 1, len[p])
    BY Zenon DEF GivesBack
  <2>1. StoredInv /\ CharType
    BY Zenon DEF CharInv
  <2>2. /\ len[p] <= Len(stored) /\ Holds(buffer, copy[p]) /\ Holds(buffer, stored)
        /\ copy[p] \in Seq(Cell) /\ stored \in Seq(Cell) /\ len[p] \in Nat
    BY <2>1, Zenon DEF StoredInv, Known, Private, CharType
  <2>3. \A i \in 1..len[p] : copy[p][i] = stored[i]
    BY <2>2 DEF Holds
  <2> QED BY <2>2, <2>3
<1> QED BY <1>1, CharInvHolds, PTL
=============================================================================
