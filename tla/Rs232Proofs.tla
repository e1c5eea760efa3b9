---------------------------- MODULE Rs232Proofs -----------------------------
(***************************************************************************)
(* Proofs about the Linux RS-232 polling driver, for every set of          *)
(* processes, FIFOs of every depth, requests of every size and all         *)
(* divisors.                                                               *)
(***************************************************************************)
EXTENDS Rs232, TLAPS

-----------------------------------------------------------------------------
(* The bytes that are written.                                             *)

Byte == Procs \X Nat

\* The bytes of a process in out are in order, and count[p] is the last of p.
InOrder(out, count) ==
  /\ \A i \in 1..Len(out) : out[i][2] <= count[out[i][1]]
  /\ \A i, j \in 1..Len(out) :
       i < j /\ out[i][1] = out[j][1] /\ out[j][2] # Junk => out[i][2] < out[j][2]

WriteInv ==
  /\ tx \in Seq(Byte) /\ line \in Seq(Byte) /\ sent \in [Procs -> Nat]
  /\ InOrder(line \o tx, sent)

LEMMA ByteFacts ==
  /\ \A b \in Byte : b[1] \in Procs /\ b[2] \in Nat
  /\ \A p \in Procs, n \in Nat : <<p, n>> \in Byte
  BY Zenon DEF Byte

LEMMA WriteInvInit == Init => WriteInv
  BY DEF Init, WriteInv, InOrder

\* A byte that goes out moves from one queue to the other.
LEMMA Moved ==
  ASSUME NEW s \in Seq(Byte), NEW t \in Seq(Byte), t # <<>>
  PROVE  Append(s, Head(t)) \o Tail(t) = s \o t
<1> DEFINE u == Append(s, Head(t)) \o Tail(t)
           v == s \o t
<1>1. u \in Seq(Byte) /\ v \in Seq(Byte) /\ Len(u) = Len(v)
  OBVIOUS
<1>2. ASSUME NEW i \in 1..Len(v) PROVE u[i] = v[i]
  <2>1. CASE i \in 1..Len(s)
    BY <2>1
  <2>2. CASE i = Len(s) + 1
    BY <2>2
  <2>3. CASE i > Len(s) + 1
    BY <2>3
  <2> QED BY <2>1, <2>2, <2>3
<1> HIDE DEF u, v
<1>3. u = v
  BY <1>1, <1>2
<1> QED BY <1>3, Zenon DEF u, v

LEMMA Appended ==
  ASSUME NEW s \in Seq(Byte), NEW t \in Seq(Byte), NEW b \in Byte
  PROVE  s \o Append(t, b) = Append(s \o t, b)
  OBVIOUS

\* A byte of p with a number above those before, or the Junk of a divisor.
LEMMA OneMore ==
  ASSUME NEW out \in Seq(Byte), NEW count \in [Procs -> Nat], NEW count2 \in [Procs -> Nat],
         NEW b \in Byte, InOrder(out, count),
         \A p \in Procs : count[p] <= count2[p],
         b[2] = Junk \/ (b[2] = count[b[1]] + 1 /\ count2[b[1]] = b[2])
  PROVE  InOrder(Append(out, b), count2)
<1> USE ByteFacts DEF Junk
<1> DEFINE u == Append(out, b)
           n == Len(out)
<1>1. /\ u \in Seq(Byte) /\ Len(u) = n + 1 /\ n \in Nat /\ u[n + 1] = b
      /\ \A i \in 1..n : u[i] = out[i] /\ out[i] \in Byte
  OBVIOUS
<1> HIDE DEF u, n
<1>2. \A i \in 1..n : out[i][2] <= count[out[i][1]]
  BY Zenon DEF InOrder, n
<1>3. \A i \in 1..(n + 1) : u[i][2] <= count2[u[i][1]]
  <2> TAKE i \in 1..(n + 1)
  <2>1. CASE i = n + 1
    BY <1>1, <2>1
  <2>2. CASE i \in 1..n
    BY <1>1, <1>2, <2>2
  <2> QED BY <1>1, <2>1, <2>2
<1>4. ASSUME NEW i \in 1..(n + 1), NEW j \in 1..(n + 1), i < j, u[i][1] = u[j][1], u[j][2] # Junk
      PROVE  u[i][2] < u[j][2]
  <2>1. i \in 1..n /\ u[i] = out[i]
    BY <1>1, <1>4
  <2>2. CASE j = n + 1
    <3>1. u[j] = b /\ out[i][1] = b[1] /\ b[2] # Junk
      BY <1>1, <1>4, <2>1, <2>2, Zenon
    <3>2. out[i][2] <= count[b[1]] /\ b[2] = count[b[1]] + 1 /\ out[i][2] \in Nat /\ count[b[1]] \in Nat
      BY <1>1, <1>2, <2>1, <3>1, Zenon
    <3> QED BY <2>1, <3>1, <3>2
  <2>3. CASE j \in 1..n
    BY <1>1, <1>4, <2>1, <2>3, Zenon DEF InOrder, n
  <2> QED BY <1>1, <2>2, <2>3
<1> QED BY <1>1, <1>3, <1>4, Zenon DEF InOrder, u

LEMMA WriteInvNext == WriteInv /\ [Next]_vars => WriteInv'
<1> SUFFICES ASSUME WriteInv, [Next]_vars PROVE WriteInv'
  BY Zenon
<1>0. /\ tx \in Seq(Byte) /\ line \in Seq(Byte) /\ sent \in [Procs -> Nat]
      /\ line \o tx \in Seq(Byte)
  BY DEF WriteInv
<1>1. CASE Transmit
  <2>1. tx # <<>> /\ tx' = Tail(tx) /\ line' = Append(line, Head(tx)) /\ sent' = sent
    BY <1>1, Zenon DEF Transmit, history
  <2>2. line' \o tx' = line \o tx
    BY <1>0, <2>1, Moved, Zenon
  <2>3. tx' \in Seq(Byte) /\ line' \in Seq(Byte)
    BY <1>0, <2>1
  <2> QED BY <2>1, <2>2, <2>3, Zenon DEF WriteInv
<1>2. ASSUME NEW value, NEW b \in Byte, Out(value, b), line' = line, sent' \in [Procs -> Nat],
             \A p \in Procs : sent[p] <= sent'[p],
             b[2] = Junk \/ (b[2] = sent[b[1]] + 1 /\ sent'[b[1]] = b[2])
      PROVE  WriteInv'
  <2>1. CASE tx' = tx
    <3>1. \A i \in 1..Len(line \o tx) : (line \o tx)[i] \in Byte
      BY <1>0
    <3>2. InOrder(line \o tx, sent')
      <4> DEFINE out == line \o tx
      <4>1. InOrder(out, sent)
        BY Zenon DEF WriteInv
      <4> HIDE DEF out
      <4>2. ASSUME NEW i \in 1..Len(out), out[i] \in Byte PROVE out[i][2] <= sent'[out[i][1]]
        <5>1. /\ out[i][2] \in Nat /\ out[i][2] <= sent[out[i][1]] /\ out[i][1] \in Procs
              /\ sent[out[i][1]] \in Nat /\ sent'[out[i][1]] \in Nat
          BY <1>0, <1>2, <4>1, <4>2, ByteFacts, Zenon DEF InOrder
        <5> QED BY <1>2, <5>1
      <4>3. InOrder(out, sent')
        BY <3>1, <4>1, <4>2, Zenon DEF InOrder, out
      <4> QED BY <4>3, Zenon DEF out
    <3> QED BY <1>0, <1>2, <2>1, <3>2, Zenon DEF WriteInv
  <2>2. CASE tx' = Append(tx, b)
    <3>1. line' \o tx' = Append(line \o tx, b)
      BY <1>0, <1>2, <2>2, Appended, Zenon
    <3>2. InOrder(Append(line \o tx, b), sent')
      BY <1>0, <1>2, OneMore, Zenon DEF WriteInv
    <3>3. tx' \in Seq(Byte)
      BY <1>0, <2>2
    <3> QED BY <1>0, <1>2, <3>1, <3>2, <3>3, Zenon DEF WriteInv
  <2>3. tx' = tx \/ tx' = Append(tx, b)
    BY <1>2, Zenon DEF Out
  <2> QED BY <2>1, <2>2, <2>3, Zenon
<1>3. ASSUME NEW p \in Procs, OutDLL(p) PROVE WriteInv'
  <2>1. Out(arg[p].div % 256, <<p, Junk>>) /\ line' = line /\ sent' = sent
    BY <1>3, Zenon DEF OutDLL
  <2>2. <<p, Junk>> \in Byte
    BY Zenon DEF Junk, Byte
  <2> QED BY <1>0, <1>2, <2>1, <2>2
<1>4. ASSUME NEW p \in Procs, WriteOut(p) PROVE WriteInv'
  <2>1. Out(Char, <<p, sent[p] + 1>>) /\ line' = line /\ sent' = [sent EXCEPT ![p] = sent[p] + 1]
    BY <1>4, Zenon DEF WriteOut
  <2>2. <<p, sent[p] + 1>> \in Byte
    BY <1>0 DEF Byte
  <2> QED BY <1>0, <1>2, <2>1, <2>2
<1>5. CASE tx' = tx /\ line' = line /\ sent' = sent
  BY <1>5, Zenon DEF WriteInv
<1>6. ASSUME NEW p \in Procs, Access(p) \/ Release(p), ~OutDLL(p), ~WriteOut(p)
      PROVE  tx' = tx /\ line' = line /\ sent' = sent
  BY <1>6, Zenon DEF Access, uart, fifos, history, SetregIn, SetregOut, OutDLM, Peek, OutIER, InDLM, InDLL,
              ReadWait, ReadTest, ReadIn, WriteWait, WriteTest, Return, Release
<1>7. ASSUME NEW p \in Procs, NEW r \in Requests, Call(p, r)
      PROVE  tx' = tx /\ line' = line /\ sent' = sent
  BY <1>7, Zenon DEF Call, uart
<1>8. ASSUME NEW r, NEW n, NEW a, Load(r, n, a)
      PROVE  tx' = tx /\ line' = line /\ sent' = sent
  BY <1>8, Zenon DEF Load, uart, history
<1>9. ASSUME Unload \/ Receive \/ UNCHANGED vars
      PROVE  tx' = tx /\ line' = line /\ sent' = sent
  BY <1>9, Zenon DEF Unload, Receive, vars, uart, history
<1> QED BY <1>1, <1>3, <1>4, <1>5, <1>6, <1>7, <1>8, <1>9, Zenon DEF Next

\* However many processes write, set the divisor or open the device at once: the
\* bytes of each go out in the order in which it wrote them, and none twice (the
\* loop of rs232_write).
THEOREM WritersInOrder == Spec => []WriterOrder
<1>1. WriteInv => WriterOrder
  <2> SUFFICES ASSUME WriteInv PROVE WriterOrder
    BY Zenon
  <2>1. line \o tx \in Seq(Byte) /\ DOMAIN (line \o tx) = 1..Len(line \o tx)
    BY DEF WriteInv
  <2> QED BY <2>1, Zenon DEF WriteInv, InOrder, WriterOrder
<1> QED BY <1>1, WriteInvInit, WriteInvNext, PTL DEF Spec

-----------------------------------------------------------------------------
(* The bytes that are read.                                                *)

\* What the reads of each process have given it and, in a call, will give.
Got == [p \in Procs |-> IF call[p] = "none" THEN returned[p] ELSE returned[p] \o kbuff[p]]

\* A byte of the line is at one place of g, and in order.
Once(g) ==
  \A p, q \in Procs : \A i \in 1..Len(g[p]), j \in 1..Len(g[q]) :
    g[p][i] # Junk /\ g[q][j] # Junk =>
      /\ g[p][i] = g[q][j] => p = q /\ i = j
      /\ p = q /\ i < j => g[p][i] < g[q][j]

\* The FIFO holds bytes that came, in their order...
Fifo(f, n) ==
  /\ \A k \in 1..Len(f) : f[k] \in 1..n
  /\ \A k, l \in 1..Len(f) : k < l => f[k] < f[l]

\* ... and after all those that were read.
Before(g, f, n) ==
  \A p \in Procs : \A i \in 1..Len(g[p]) :
    g[p][i] <= n /\ \A k \in 1..Len(f) : g[p][i] < f[k]

ReadType ==
  /\ rx \in Seq(Nat) /\ arrived \in Nat
  /\ returned \in [Procs -> Seq(Nat)] /\ kbuff \in [Procs -> Seq(Nat)]
  /\ \A p \in Procs : todo[p] # <<>> => call[p] # "none"
  /\ DOMAIN call = Procs /\ DOMAIN todo = Procs

ReadInv == ReadType /\ Once(Got) /\ Fifo(rx, arrived) /\ Before(Got, rx, arrived)

LEMMA GotType ==
  ASSUME ReadType
  PROVE  Got \in [Procs -> Seq(Nat)]
<1>1. \A p \in Procs : returned[p] \in Seq(Nat) /\ returned[p] \o kbuff[p] \in Seq(Nat)
  BY DEF ReadType
<1> QED BY <1>1, Zenon DEF Got

LEMMA Prefix ==
  ASSUME NEW s \in Seq(Nat), NEW t \in Seq(Nat)
  PROVE  /\ Len(s) <= Len(s) /\ \A i \in 1..Len(s) : s[i] = s[i]
         /\ Len(s) <= Len(s \o t) /\ \A i \in 1..Len(s) : s[i] = (s \o t)[i]
  OBVIOUS

LEMMA ReadInvInit == Init => ReadInv
  BY DEF Init, ReadInv, ReadType, Got, Once, Fifo, Before

\* Fewer bytes: a prefix for each process, an end of the FIFO.
LEMMA Shorter ==
  ASSUME NEW g \in [Procs -> Seq(Nat)], NEW h \in [Procs -> Seq(Nat)], NEW f \in Seq(Nat), NEW n \in Nat,
         Once(g), Before(g, f, n),
         \A p \in Procs : Len(h[p]) <= Len(g[p]) /\ \A i \in 1..Len(h[p]) : h[p][i] = g[p][i]
  PROVE  Once(h) /\ Before(h, f, n)
<1>1. \A p \in Procs : Len(h[p]) \in Nat /\ Len(g[p]) \in Nat
  OBVIOUS
<1>2. \A p \in Procs : \A i \in 1..Len(h[p]) : i \in 1..Len(g[p]) /\ h[p][i] = g[p][i]
  BY <1>1
<1>3. ASSUME NEW p \in Procs, NEW q \in Procs, NEW i \in 1..Len(h[p]), NEW j \in 1..Len(h[q]),
             h[p][i] # Junk, h[q][j] # Junk
      PROVE  /\ h[p][i] = h[q][j] => p = q /\ i = j
             /\ p = q /\ i < j => h[p][i] < h[q][j]
  <2>1. i \in 1..Len(g[p]) /\ h[p][i] = g[p][i] /\ j \in 1..Len(g[q]) /\ h[q][j] = g[q][j]
    BY <1>2, Zenon
  <2>2. g[p][i] # Junk /\ g[q][j] # Junk
    BY <1>3, <2>1, Zenon
  <2>3. /\ g[p][i] = g[q][j] => p = q /\ i = j
        /\ p = q /\ i < j => g[p][i] < g[q][j]
    BY <2>1, <2>2, Zenon DEF Once
  <2> QED BY <2>1, <2>3, Zenon
<1>4. Before(h, f, n)
  BY <1>2, Zenon DEF Before
<1> QED BY <1>3, <1>4, Zenon DEF Once

LEMMA HeadTaken ==
  ASSUME NEW g \in [Procs -> Seq(Nat)], NEW f \in Seq(Nat), NEW n \in Nat, Before(g, f, n), Fifo(f, n),
         f # <<>>
  PROVE  Before(g, Tail(f), n) /\ Fifo(Tail(f), n)
<1>1. Tail(f) \in Seq(Nat) /\ Len(f) \in Nat /\ Len(Tail(f)) = Len(f) - 1
  OBVIOUS
<1>2. \A k \in 1..Len(Tail(f)) : k + 1 \in 1..Len(f) /\ Tail(f)[k] = f[k + 1]
  BY <1>1
<1>3. Before(g, Tail(f), n)
  BY <1>2, Zenon DEF Before
<1>4. \A k \in 1..Len(Tail(f)) : Tail(f)[k] \in 1..n
  BY <1>2, Zenon DEF Fifo
<1>5. ASSUME NEW k \in 1..Len(Tail(f)), NEW l \in 1..Len(Tail(f)), k < l
      PROVE  Tail(f)[k] < Tail(f)[l]
  BY <1>1, <1>2, <1>5 DEF Fifo
<1> QED BY <1>3, <1>4, <1>5, Zenon DEF Fifo

\* One byte more for a process: Junk, or the head of the FIFO.
LEMMA Taken ==
  ASSUME NEW g \in [Procs -> Seq(Nat)], NEW f \in Seq(Nat), NEW n \in Nat, NEW p \in Procs, NEW v \in Nat,
         Once(g), Before(g, f, n), Fifo(f, n),
         v = Junk \/ (f # <<>> /\ v = Head(f))
  PROVE  /\ Once([g EXCEPT ![p] = Append(@, v)])
         /\ Before([g EXCEPT ![p] = Append(@, v)], IF v = Junk THEN f ELSE Tail(f), n)
<1> USE DEF Junk
<1>0. /\ \A q \in Procs : \A k \in 1..Len(g[q]) : g[q][k] \in Nat
      /\ v # 0 => f[1] = v /\ 1 \in 1..Len(f)
  OBVIOUS
<1> DEFINE h == [g EXCEPT ![p] = Append(@, v)]
           m == Len(g[p])
<1>1. /\ h \in [Procs -> Seq(Nat)] /\ m \in Nat
      /\ h[p] = Append(g[p], v) /\ \A q \in Procs : q # p => h[q] = g[q]
  OBVIOUS
<1>2. /\ Len(h[p]) = m + 1 /\ h[p][m + 1] = v /\ \A i \in 1..m : h[p][i] = g[p][i]
  BY <1>1
<1>3. \A q \in Procs : \A i \in 1..Len(h[q]) :
        \/ i \in 1..Len(g[q]) /\ h[q][i] = g[q][i]
        \/ q = p /\ i = m + 1
  BY <1>1, <1>2
<1>4. v # 0 => \A q \in Procs : \A i \in 1..Len(g[q]) : g[q][i] < v
  BY <1>0, Zenon DEF Before
<1>5. v <= n /\ (v # 0 => \A k \in 1..Len(Tail(f)) : v < Tail(f)[k])
  BY DEF Fifo
<1>6. Once(h)
  <2> SUFFICES ASSUME NEW q \in Procs, NEW r \in Procs, NEW i \in 1..Len(h[q]), NEW j \in 1..Len(h[r]),
                      h[q][i] # 0, h[r][j] # 0
               PROVE  /\ h[q][i] = h[r][j] => q = r /\ i = j
                      /\ q = r /\ i < j => h[q][i] < h[r][j]
    BY Zenon DEF Once
  <2>0. /\ \A k \in 1..Len(g[q]) : g[q][k] \in Nat /\ k \in Nat
        /\ \A k \in 1..Len(g[r]) : g[r][k] \in Nat /\ k \in Nat
        /\ \A k \in 1..m : k < m + 1
    BY <1>0
  <2> HIDE DEF h, m
  <2>1. CASE i \in 1..Len(g[q]) /\ h[q][i] = g[q][i] /\ j \in 1..Len(g[r]) /\ h[r][j] = g[r][j]
    <3>1. /\ g[q][i] = g[r][j] => q = r /\ i = j
          /\ q = r /\ i < j => g[q][i] < g[r][j]
      BY <2>1, Zenon DEF Once
    <3> QED BY <2>1, <3>1, Zenon
  <2>2. CASE i \in 1..Len(g[q]) /\ h[q][i] = g[q][i] /\ r = p /\ j = m + 1
    <3>1. h[r][j] = v /\ v # 0 /\ h[q][i] < v /\ h[q][i] \in Nat /\ (q = r => i < j)
      BY <1>2, <1>4, <2>0, <2>2 DEF m
    <3> QED BY <2>2, <3>1
  <2>3. CASE q = p /\ i = m + 1 /\ j \in 1..Len(g[r]) /\ h[r][j] = g[r][j]
    <3>1. h[q][i] = v /\ v # 0 /\ h[r][j] < v /\ h[r][j] \in Nat /\ (q = r => j < i)
      BY <1>2, <1>4, <2>0, <2>3 DEF m
    <3>2. i \in Nat /\ j \in Nat
      BY <1>1, <2>0, <2>3
    <3> QED BY <2>3, <3>1, <3>2
  <2>4. CASE q = p /\ i = m + 1 /\ r = p /\ j = m + 1
    BY <2>4
  <2> QED BY <1>3, <2>1, <2>2, <2>3, <2>4, Zenon
<1>7. ASSUME NEW q \in Procs, NEW i \in 1..Len(h[q])
      PROVE  /\ h[q][i] <= n
             /\ \A k \in 1..Len(IF v = Junk THEN f ELSE Tail(f)) :
                  h[q][i] < (IF v = Junk THEN f ELSE Tail(f))[k]
  <2>1. CASE i \in 1..Len(g[q]) /\ h[q][i] = g[q][i]
    <3>1. f # <<>> => Before(g, Tail(f), n)
      BY HeadTaken, Zenon
    <3> QED BY <2>1, <3>1, Zenon DEF Before
  <2>2. CASE q = p /\ i = m + 1
    BY <1>2, <1>5, <2>2 DEF Fifo
  <2> QED BY <1>3, <2>1, <2>2, Zenon
<1>8. Before(h, IF v = Junk THEN f ELSE Tail(f), n)
  BY <1>7, Zenon DEF Before
<1> QED BY <1>6, <1>8, Zenon

LEMMA Arrives ==
  ASSUME NEW g \in [Procs -> Seq(Nat)], NEW f \in Seq(Nat), NEW n \in Nat, Before(g, f, n), Fifo(f, n)
  PROVE  /\ Before(g, f, n + 1) /\ Fifo(f, n + 1)
         /\ Before(g, Append(f, n + 1), n + 1) /\ Fifo(Append(f, n + 1), n + 1)
<1> DEFINE u == Append(f, n + 1)
           m == Len(f)
<1>1. u \in Seq(Nat) /\ m \in Nat /\ Len(u) = m + 1 /\ u[m + 1] = n + 1 /\ \A k \in 1..m : u[k] = f[k]
  OBVIOUS
<1>2. \A p \in Procs : \A i \in 1..Len(g[p]) : g[p][i] \in Nat
  OBVIOUS
<1>3. Before(g, f, n + 1) /\ Fifo(f, n + 1)
  BY <1>2 DEF Before, Fifo
<1> HIDE DEF u, m
<1>4. Before(g, u, n + 1)
  <2> SUFFICES ASSUME NEW p \in Procs, NEW i \in 1..Len(g[p])
               PROVE  g[p][i] <= n + 1 /\ \A k \in 1..(m + 1) : g[p][i] < u[k]
    BY <1>1, Zenon DEF Before
  <2>1. g[p][i] \in Nat /\ g[p][i] <= n /\ \A k \in 1..m : g[p][i] < u[k]
    BY <1>1, <1>2, Zenon DEF Before, m
  <2>2. \A k \in 1..(m + 1) : k \in 1..m \/ k = m + 1
    BY <1>1
  <2>3. \A k \in 1..(m + 1) : g[p][i] < u[k]
    <3> TAKE k \in 1..(m + 1)
    <3>1. CASE k \in 1..m
      BY <2>1, <3>1, Zenon
    <3>2. CASE k = m + 1
      BY <1>1, <2>1, <3>2
    <3> QED BY <2>2, <3>1, <3>2, Zenon
  <2> QED BY <2>1, <2>3
<1>5. Fifo(u, n + 1)
  <2>1. \A k \in 1..(m + 1) : u[k] \in 1..(n + 1)
    <3>1. \A k \in 1..m : u[k] \in 1..n
      BY <1>1, Zenon DEF Fifo, m
    <3>2. \A k \in 1..(m + 1) : k \in 1..m \/ k = m + 1
      BY <1>1
    <3> QED BY <1>1, <3>1, <3>2
  <2>2. ASSUME NEW k \in 1..(m + 1), NEW l \in 1..(m + 1), k < l PROVE u[k] < u[l]
    <3>1. k \in 1..m /\ u[k] = f[k] /\ f[k] \in 1..n
      BY <1>1, <2>2 DEF Fifo, m
    <3>2. CASE l = m + 1
      BY <1>1, <3>1, <3>2
    <3>3. CASE l \in 1..m
      BY <1>1, <2>2, <3>1, <3>3, Zenon DEF Fifo, m
    <3> QED BY <1>1, <3>2, <3>3
  <2> QED BY <1>1, <2>1, <2>2, Zenon DEF Fifo
<1> QED BY <1>3, <1>4, <1>5, Zenon DEF u
\* A step of a call, up to its return.
LEMMA StepOfCall ==
  ASSUME NEW p \in Procs, Access(p), ~Return(p)
  PROVE  todo[p] # <<>> /\ call' = call /\ \E t : todo' = [todo EXCEPT ![p] = t]
<1> USE DEF Doing, Done
<1>1. CASE SetregIn(p) \/ SetregOut(p) \/ OutDLL(p) \/ OutDLM(p)
  BY <1>1, Zenon DEF SetregIn, SetregOut, OutDLL, OutDLM
<1>2. CASE Peek(p) \/ OutIER(p) \/ InDLM(p) \/ InDLL(p)
  BY <1>2, Zenon DEF Peek, OutIER, InDLM, InDLL
<1>3. CASE ReadWait(p) \/ ReadTest(p) \/ ReadIn(p)
  BY <1>3, Zenon DEF ReadWait, ReadTest, ReadIn
<1>4. CASE WriteWait(p) \/ WriteTest(p) \/ WriteOut(p)
  BY <1>4, Zenon DEF WriteWait, WriteTest, WriteOut
<1> QED BY <1>1, <1>2, <1>3, <1>4, Zenon DEF Access

LEMMA ReadInvNext == ReadInv /\ [Next]_vars => ReadInv'
<1> SUFFICES ASSUME ReadInv, [Next]_vars PROVE ReadInv'
  OBVIOUS
<1>0. /\ ReadType /\ Got \in [Procs -> Seq(Nat)] /\ rx \in Seq(Nat) /\ arrived \in Nat
      /\ Once(Got) /\ Fifo(rx, arrived) /\ Before(Got, rx, arrived)
  BY GotType, Zenon DEF ReadInv, ReadType
<1>1. CASE Receive
  <2>1. /\ rx' \in {rx, Append(rx, arrived + 1)} /\ arrived' = arrived + 1
        /\ UNCHANGED <<call, todo, kbuff, returned>>
    BY <1>1, Zenon DEF Receive, process, locals, history
  <2>2. Got' = Got
    BY <2>1, Zenon DEF Got
  <2>3. ReadType'
    <3>1. rx' \in Seq(Nat) /\ arrived' \in Nat
      BY <1>0, <2>1
    <3> QED BY <1>0, <2>1, <3>1, Zenon DEF ReadType
  <2>4. Before(Got, rx', arrived') /\ Fifo(rx', arrived')
    BY <1>0, <2>1, Arrives, Zenon
  <2> QED BY <1>0, <2>2, <2>3, <2>4, Zenon DEF ReadInv
<1>2. ASSUME NEW p \in Procs, ReadIn(p) PROVE ReadInv'
  <2> DEFINE there == ~lcr.dlab /\ rx # <<>>
             v == IF there THEN Head(rx) ELSE Junk
  <2>1. /\ kbuff' = [kbuff EXCEPT ![p] = Append(kbuff[p], v)]
        /\ rx' = IF there THEN Tail(rx) ELSE rx
        /\ UNCHANGED <<call, arrived, returned>>
    BY <1>2, Zenon DEF ReadIn, history
  <2>2. /\ v \in Nat /\ (v = Junk \/ (rx # <<>> /\ v = Head(rx)))
        /\ there => v # Junk
    BY <1>0 DEF Junk, Fifo
  <2>3. rx' = IF v = Junk THEN rx ELSE Tail(rx)
    BY <2>1, <2>2, Zenon
  <2> HIDE DEF v, there
  <2>4. call[p] # "none" /\ DOMAIN todo' = Procs /\ \A q \in Procs : todo'[q] # <<>> => call'[q] # "none"
    <3>1. Access(p) /\ ~Return(p)
      BY <1>2, Zenon DEF Access, Return, ReadIn, Doing
    <3> QED BY <1>0, <3>1, StepOfCall, Zenon DEF ReadType
  <2>5. ReadType'
    BY <1>0, <2>1, <2>2, <2>3, <2>4 DEF ReadType
  <2>6. Got' = [Got EXCEPT ![p] = Append(@, v)]
    <3>1. returned[p] \o Append(kbuff[p], v) = Append(returned[p] \o kbuff[p], v)
      BY <1>0, <2>2 DEF ReadType
    <3> QED BY <1>0, <2>1, <2>4, <3>1, Zenon DEF Got, ReadType
  <2>7. Once(Got') /\ Before(Got', rx', arrived)
    BY <1>0, <2>2, <2>3, <2>6, Taken, Zenon
  <2>8. Fifo(rx', arrived)
    BY <1>0, <2>2, <2>3, HeadTaken, Zenon
  <2> QED BY <2>1, <2>5, <2>7, <2>8, Zenon DEF ReadInv
<1>3. ASSUME NEW p \in Procs, Return(p) PROVE ReadInv'
  <2>1. /\ call' = [call EXCEPT ![p] = "none"] /\ UNCHANGED <<todo, rx, arrived, kbuff>>
        /\ returned' = returned \/ returned' = [returned EXCEPT ![p] = returned[p] \o kbuff[p]]
        /\ call[p] # "none" /\ todo[p] = <<>>
    BY <1>3, Zenon DEF Return, uart, locals
  <2>2. ReadType'
    <3>1. returned[p] \o kbuff[p] \in Seq(Nat)
      BY <1>0 DEF ReadType
    <3> QED BY <1>0, <2>1, <3>1, Zenon DEF ReadType
  <2>3. ASSUME NEW q \in Procs
        PROVE  Len(Got'[q]) <= Len(Got[q]) /\ \A i \in 1..Len(Got'[q]) : Got'[q][i] = Got[q][i]
    <3>1. CASE q # p
      <4>1. Got'[q] = Got[q]
        BY <1>0, <2>1, <3>1, Zenon DEF Got, ReadType
      <4> QED BY <1>0, <4>1
    <3>2. CASE q = p
      <4>1. Got[p] = returned[p] \o kbuff[p] /\ Got'[p] = returned'[p]
        BY <1>0, <2>1, Zenon DEF Got, ReadType
      <4>2. returned'[p] = returned[p] \/ returned'[p] = returned[p] \o kbuff[p]
        BY <1>0, <2>1, Zenon DEF ReadType
      <4>3. returned[p] \in Seq(Nat) /\ kbuff[p] \in Seq(Nat)
        BY <1>0, Zenon DEF ReadType
      <4>4. CASE returned'[p] = returned[p]
        <5>1. /\ Len(returned[p]) <= Len(returned[p] \o kbuff[p])
              /\ \A i \in 1..Len(returned[p]) : returned[p][i] = (returned[p] \o kbuff[p])[i]
          BY <4>3, Prefix, Zenon
        <5>2. /\ Len(returned[p]) <= Len(Got[p])
              /\ \A i \in 1..Len(returned[p]) : returned[p][i] = Got[p][i]
          BY <4>1, <5>1, Zenon
        <5>3. Got'[q] = returned[p] /\ Got[q] = Got[p]
          BY <3>2, <4>1, <4>4, Zenon
        <5> QED BY <5>2, <5>3, Zenon
      <4>5. CASE returned'[p] = returned[p] \o kbuff[p]
        BY <3>2, <4>1, <4>3, <4>5
      <4> QED BY <4>2, <4>4, <4>5, Zenon
    <3> QED BY <3>1, <3>2, Zenon
  <2>4. Got' \in [Procs -> Seq(Nat)]
    <3>1. \A q \in Procs : returned'[q] \in Seq(Nat) /\ returned'[q] \o kbuff'[q] \in Seq(Nat)
      BY <2>2 DEF ReadType
    <3> QED BY <3>1, Zenon DEF Got
  <2>5. Once(Got') /\ Before(Got', rx, arrived)
    BY <1>0, <2>3, <2>4, Shorter, Zenon
  <2> QED BY <1>0, <2>1, <2>2, <2>5, Zenon DEF ReadInv
<1>4. ASSUME NEW p \in Procs, NEW r \in Requests, Call(p, r) PROVE ReadInv'
  <2>1. /\ call[p] = "none" /\ call' = [call EXCEPT ![p] = r.call] /\ DOMAIN todo' = DOMAIN todo
        /\ \A q \in Procs : q # p => todo'[q] = todo[q]
        /\ kbuff' = [kbuff EXCEPT ![p] = <<>>] /\ UNCHANGED <<rx, arrived, returned>>
    BY <1>0, <1>4, Zenon DEF Call, uart, ReadType
  <2>2. r.call # "none"
    BY DEF Requests, Request, Ioctls
  <2>3. ReadType'
    BY <1>0, <2>1, <2>2 DEF ReadType
  <2>4. Got' = Got
    <3>1. returned[p] \o <<>> = returned[p]
      BY <1>0 DEF ReadType
    <3> QED BY <1>0, <2>1, <2>2, <3>1, Zenon DEF Got, ReadType
  <2> QED BY <1>0, <2>1, <2>3, <2>4, Zenon DEF ReadInv
<1>5. ASSUME UNCHANGED <<arrived, returned, kbuff, call>>,
             rx' = rx \/ (rx # <<>> /\ rx' = Tail(rx)),
             DOMAIN todo' = Procs, \A p \in Procs : todo'[p] # <<>> => call[p] # "none"
      PROVE  ReadInv'
  <2>1. Got' = Got
    BY <1>5, Zenon DEF Got
  <2>2. ReadType'
    <3>0. rx # <<>> => Tail(rx) \in Seq(Nat)
      BY <1>0
    <3>1. rx' \in Seq(Nat)
      BY <1>0, <1>5, <3>0, Zenon
    <3> QED BY <1>0, <1>5, <3>1, Zenon DEF ReadType
  <2>3. Before(Got, rx', arrived) /\ Fifo(rx', arrived)
    BY <1>0, <1>5, HeadTaken, Zenon
  <2> QED BY <1>0, <1>5, <2>1, <2>2, <2>3, Zenon DEF ReadInv
<1>6. ASSUME NEW p \in Procs, Access(p), ~Return(p), ~ReadIn(p) PROVE ReadInv'
  <2>1. DOMAIN todo' = Procs /\ \A q \in Procs : todo'[q] # <<>> => call[q] # "none"
    BY <1>0, <1>6, StepOfCall, Zenon DEF ReadType
  <2>2. UNCHANGED <<arrived, returned, kbuff, call>> /\ (rx' = rx \/ (rx # <<>> /\ rx' = Tail(rx)))
    BY <1>6, Zenon DEF Access, uart, fifos, locals, history, SetregIn, SetregOut, OutDLL, OutDLM, Peek,
                OutIER, InDLM, InDLL, ReadWait, ReadTest, WriteWait, WriteTest, WriteOut
  <2> QED BY <1>5, <2>1, <2>2, Zenon
<1>7. ASSUME UNCHANGED <<arrived, returned, kbuff, call, rx, todo>> PROVE ReadInv'
  BY <1>0, <1>5, <1>7, Zenon DEF ReadType
<1>8. ASSUME NEW p \in Procs, Release(p) PROVE ReadInv'
  BY <1>7, <1>8, Zenon DEF Release, uart, locals, history
<1>9. ASSUME NEW r, NEW n, NEW a, Load(r, n, a) PROVE ReadInv'
  BY <1>7, <1>9, Zenon DEF Load, uart, process, locals, history
<1>10. CASE Unload \/ Transmit \/ UNCHANGED vars
  BY <1>7, <1>10, Zenon DEF Unload, Transmit, vars, uart, process, locals, history
<1> QED BY <1>1, <1>2, <1>3, <1>4, <1>6, <1>8, <1>9, <1>10, Zenon DEF Next

\* However many processes read at once: a byte of the line is returned to one of
\* them, once, and to each in the order of arrival (rs232_read).
THEOREM BytesReadOnce == Spec => []ByteOnce
<1>1. ReadInv => ByteOnce
  <2> SUFFICES ASSUME ReadInv PROVE ByteOnce
    OBVIOUS
  <2>1. \A p \in Procs : returned[p] \in Seq(Nat) /\ kbuff[p] \in Seq(Nat)
    BY Zenon DEF ReadInv, ReadType
  <2>2. \A p \in Procs : /\ Len(returned[p]) <= Len(Got[p])
                         /\ \A i \in 1..Len(returned[p]) : returned[p][i] = Got[p][i]
    BY <2>1, Prefix, Zenon DEF Got
  <2>3. Got \in [Procs -> Seq(Nat)] /\ returned \in [Procs -> Seq(Nat)] /\ rx \in Seq(Nat) /\ arrived \in Nat
    BY GotType, Zenon DEF ReadInv, ReadType
  <2>4. Once(returned)
    BY <2>2, <2>3, Shorter, Zenon DEF ReadInv
  <2>5. \A p \in Procs : DOMAIN returned[p] = 1..Len(returned[p])
    BY <2>1
  <2> QED BY <2>4, <2>5 DEF Once, ByteOnce
<1> QED BY <1>1, ReadInvInit, ReadInvNext, PTL DEF Spec

-----------------------------------------------------------------------------
(* Calls that do not overlap: what is left of each of them.                *)

RW1 == <<"rw">>
RW2 == <<"inLCR", "rw">>
B3 == <<"outDLM", "inLCR", "rw">>
B4 == <<"outDLL", "outDLM", "inLCR", "rw">>
B5 == <<"latch", "outDLL", "outDLM", "inLCR", "rw">>
B6 == <<"inLCR", "latch", "outDLL", "outDLM", "inLCR", "rw">>
C7 == <<"word", "inLCR", "latch", "outDLL", "outDLM", "inLCR", "rw">>
C8 == <<"inLCR", "word", "inLCR", "latch", "outDLL", "outDLM", "inLCR", "rw">>
G3 == <<"inDLL", "inLCR", "rw">>
G4 == <<"inDLM", "inDLL", "inLCR", "rw">>
G5 == <<"latch", "inDLM", "inDLL", "inLCR", "rw">>
G6 == <<"inLCR", "latch", "inDLM", "inDLL", "inLCR", "rw">>
W1 == <<"word">>
W2 == <<"inLCR", "word">>
O1 == <<"outIER">>
O2 == <<"frame", "outIER">>
O3 == <<"inLCR", "frame", "outIER">>
O4 == <<"outDLM", "inLCR", "frame", "outIER">>
O5 == <<"peek", "outDLM", "inLCR", "frame", "outIER">>
O6 == <<"outDLL", "peek", "outDLM", "inLCR", "frame", "outIER">>
O7 == <<"latch", "outDLL", "peek", "outDLM", "inLCR", "frame", "outIER">>
O8 == <<"inLCR", "latch", "outDLL", "peek", "outDLM", "inLCR", "frame", "outIER">>
R1 == <<"rtest">>
R2 == <<"rwait", "rtest">>
RI == <<"rin", "rtest">>
X1 == <<"wtest">>
X2 == <<"wwait", "wtest">>
XO == <<"wout", "wtest">>

\* What may be left of a call.
Left(c) ==
  CASE c = "none" -> {<<>>}
    [] c = "open" -> {O1, O2, O3, O4, O5, O6, O7, O8, <<>>}
    [] c = "baudset" -> {B3, B4, B5, B6, RW1, RW2, <<>>}
    [] c = "wordset" -> {W1, W2, <<>>}
    [] c = "baudget" -> {G3, G4, G5, G6, RW1, RW2, <<>>}
    [] c = "confset" -> {C7, C8, B3, B4, B5, B6, RW1, RW2, <<>>}
    [] c = "read" -> {R1, R2, RI, <<>>}
    [] c = "write" -> {X1, X2, XO, <<>>}

Names == {"none", "open", "baudset", "wordset", "baudget", "confset", "read", "write"}

\* DLAB is set; one half of the latch is written; setreg has read LCR for the
\* word length; baudget has read both halves.
Latched == {RW1, RW2, B3, B4, G3, G4, O2, O3, O4, O5, O6}
Half == {B3, O4, O5}
Wording == {W1, C7}
Both == {RW1, RW2, <<>>}

Lcr == [dlab : BOOLEAN, wdl : Nat]

SeqType ==
  /\ lcr \in Lcr /\ dll \in Nat /\ dlm \in Nat /\ divisor \in Nat
  /\ call \in [Procs -> Names] /\ DOMAIN todo = Procs
  /\ \A p \in Procs : todo[p] \in Left(call[p])
  /\ reg \in [Procs -> Lcr] /\ retval \in [Procs -> Nat]
  /\ arg \in [Procs -> [div : Nat, wl : Nat]]
  /\ \A p \in Procs : PlainLengths => arg[p].wl < 128
  /\ rx \in Seq(Nat \ {Junk}) /\ arrived \in Nat
  /\ kbuff \in [Procs -> Seq(Nat)] /\ returned \in [Procs -> Seq(Nat)]

\* The call of p, when there is no other.
Mine(p) ==
  /\ lcr.dlab <=> todo[p] \in Latched
  /\ dll = divisor % 256
  /\ IF todo[p] \in Half THEN arg[p].div = divisor ELSE dlm = HighBits(divisor)
  /\ todo[p] \in Wording => ~reg[p].dlab
  /\ call[p] = "baudget" /\ todo[p] = G3 => retval[p] = dlm * 16
  /\ call[p] = "baudget" /\ todo[p] \in Both => retval[p] = dlm * 16 + dll
  /\ todo[p] = RI => rx # <<>>

Rest == ~lcr.dlab /\ dll = divisor % 256 /\ dlm = HighBits(divisor)

Single == \A p, q \in Procs : call[p] # "none" /\ call[q] # "none" => p = q

Clean(s) == \A i \in 1..Len(s) : s[i] # Junk

AloneInv ==
  /\ Single
  /\ Quiet => Rest
  /\ \A p \in Procs : call[p] # "none" => Mine(p)
  /\ \A p \in Procs : Clean(kbuff[p]) /\ Clean(returned[p])

SeqInv == SeqType /\ (~overlapped /\ PlainLengths => AloneInv)

LEMMA Programs ==
  /\ Program("open") = O8 /\ Program("baudset") = B6 /\ Program("wordset") = W2
  /\ Program("baudget") = G6 /\ Program("confset") = C8
  /\ Program("read") = R2 /\ Program("write") = X2
  BY Zenon DEF Program, O8, B6, W2, G6, C8, R2, X2

\* What comes first, and what comes after it.
LEMMA Heads ==
  /\ Head(RW1) = "rw" /\ Head(RW2) = "inLCR"
  /\ Head(B3) = "outDLM" /\ Head(B4) = "outDLL" /\ Head(B5) = "latch" /\ Head(B6) = "inLCR"
  /\ Head(C7) = "word" /\ Head(C8) = "inLCR"
  /\ Head(G3) = "inDLL" /\ Head(G4) = "inDLM" /\ Head(G5) = "latch" /\ Head(G6) = "inLCR"
  /\ Head(W1) = "word" /\ Head(W2) = "inLCR"
  /\ Head(O1) = "outIER" /\ Head(O2) = "frame" /\ Head(O3) = "inLCR" /\ Head(O4) = "outDLM"
  /\ Head(O5) = "peek" /\ Head(O6) = "outDLL" /\ Head(O7) = "latch" /\ Head(O8) = "inLCR"
  /\ Head(R1) = "rtest" /\ Head(R2) = "rwait" /\ Head(RI) = "rin"
  /\ Head(X1) = "wtest" /\ Head(X2) = "wwait" /\ Head(XO) = "wout"
  BY DEF RW1, RW2, B3, B4, B5, B6, C7, C8, G3, G4, G5, G6, W1, W2,
         O1, O2, O3, O4, O5, O6, O7, O8, R1, R2, RI, X1, X2, XO

LEMMA Tails ==
  /\ Tail(RW1) = <<>> /\ Tail(RW2) = RW1
  /\ Tail(B3) = RW2 /\ Tail(B4) = B3 /\ Tail(B5) = B4 /\ Tail(B6) = B5
  /\ Tail(C7) = B6 /\ Tail(C8) = C7
  /\ Tail(G3) = RW2 /\ Tail(G4) = G3 /\ Tail(G5) = G4 /\ Tail(G6) = G5
  /\ Tail(W1) = <<>> /\ Tail(W2) = W1
  /\ Tail(O1) = <<>> /\ Tail(O2) = O1 /\ Tail(O3) = O2 /\ Tail(O4) = O3
  /\ Tail(O5) = O4 /\ Tail(O6) = O5 /\ Tail(O7) = O6 /\ Tail(O8) = O7
  /\ Tail(R1) = <<>> /\ Tail(R2) = R1 /\ Tail(RI) = R1
  /\ Tail(X1) = <<>> /\ Tail(X2) = X1 /\ Tail(XO) = X1
  BY DEF RW1, RW2, B3, B4, B5, B6, C7, C8, G3, G4, G5, G6, W1, W2,
         O1, O2, O3, O4, O5, O6, O7, O8, R1, R2, RI, X1, X2, XO

LEMMA Apart ==
  /\ <<>> \notin Latched /\ RW1 \in Latched /\ RW2 \in Latched
  /\ B3 \in Latched /\ B4 \in Latched /\ B5 \notin Latched /\ B6 \notin Latched
  /\ C7 \notin Latched /\ C8 \notin Latched
  /\ G3 \in Latched /\ G4 \in Latched /\ G5 \notin Latched /\ G6 \notin Latched
  /\ W1 \notin Latched /\ W2 \notin Latched
  /\ O1 \notin Latched /\ O2 \in Latched /\ O3 \in Latched /\ O4 \in Latched
  /\ O5 \in Latched /\ O6 \in Latched /\ O7 \notin Latched /\ O8 \notin Latched
  /\ R1 \notin Latched /\ R2 \notin Latched /\ RI \notin Latched
  /\ X1 \notin Latched /\ X2 \notin Latched /\ XO \notin Latched
  BY Zenon DEF Latched, RW1, RW2, B3, B4, B5, B6, C7, C8, G3, G4, G5, G6, W1, W2,
         O1, O2, O3, O4, O5, O6, O7, O8, R1, R2, RI, X1, X2, XO


\* Where a call may be when it makes an access, and where that leaves it.
LEMMA Places ==
  ASSUME NEW c \in Names, NEW t \in Left(c), t # <<>>
  PROVE  /\ Head(t) = "inLCR" => t \in {RW2, B6, C8, G6, W2, O3, O8}
         /\ Head(t) = "latch" => t \in {B5, G5, O7}
         /\ Head(t) = "rw" => t = RW1
         /\ Head(t) = "word" => t \in Wording
         /\ Head(t) = "frame" => t = O2
         /\ Head(t) = "outDLL" => t \in {B4, O6}
         /\ Head(t) = "outDLM" => t \in {B3, O4}
         /\ Head(t) = "peek" => t = O5
         /\ Head(t) = "outIER" => t = O1
         /\ Head(t) = "inDLM" => t = G4
         /\ Head(t) = "inDLL" => t = G3
         /\ Head(t) = "rwait" => t = R2
         /\ Head(t) = "rtest" => t = R1
         /\ Head(t) = "rin" => t = RI
         /\ Head(t) = "wwait" => t = X2
         /\ Head(t) = "wtest" => t = X1
         /\ Head(t) = "wout" => t = XO
<1>1. t \in {RW1, RW2, B3, B4, B5, B6, C7, C8, G3, G4, G5, G6, W1, W2,
             O1, O2, O3, O4, O5, O6, O7, O8, R1, R2, RI, X1, X2, XO}
  BY Zenon DEF Names, Left
<1> QED BY <1>1, Heads DEF Wording

LEMMA Follows ==
  ASSUME NEW c \in Names, NEW t \in Left(c), t # <<>>
  PROVE  Tail(t) \in Left(c)
<1>1. CASE c = "none" \/ c = "wordset" \/ c = "read" \/ c = "write"
  BY <1>1, Tails, Zenon DEF Left
<1>2. CASE c = "open"
  BY <1>2, Tails, Zenon DEF Left
<1>3. CASE c = "baudset"
  BY <1>3, Tails, Zenon DEF Left
<1>4. CASE c = "baudget"
  BY <1>4, Tails, Zenon DEF Left
<1>5. CASE c = "confset"
  BY <1>5, Tails, Zenon DEF Left
<1> QED BY <1>1, <1>2, <1>3, <1>4, <1>5, Zenon DEF Names

\* Which of the marked places an access may leave a call at.
LEMMA Marks ==
  /\ {RW1, B5, C7, G5, W1, O2, O7, B4, G4, O6, O1, RW2, O3, G3, B6, R1, R2, RI, X1, X2, XO,
      C8, G6, W2, O8, <<>>} \intersect Half = {}
  /\ {RW1, B5, G5, O2, O7, B4, G4, O6, O1, RW2, O3, G3, B6, R1, R2, RI, X1, X2, XO,
      B3, O4, O5, C8, G6, W2, O8, <<>>} \intersect Wording = {}
  /\ {B5, C7, G5, W1, O2, O7, B4, G4, O6, O1, O3, G3, B6, R1, R2, RI, X1, X2, XO, B3, O4, O5,
      C8, G6, W2, O8} \intersect Both = {}
  /\ \A t \in {RW1, B5, C7, G5, W1, O2, O7, B4, G4, O6, O1, RW2, O3, B6, R1, R2, RI, X1, X2, XO,
               B3, O4, O5, C8, G6, W2, O8, <<>>} : t # G3
  /\ \A t \in {RW1, B5, C7, G5, W1, O2, O7, B4, G4, O6, O1, RW2, O3, B6, R1, R2, G3, X1, X2, XO,
               B3, O4, O5, C8, G6, W2, O8, <<>>} : t # RI
  BY DEF Half, Wording, Both, RW1, RW2, B3, B4, B5, B6, C7, C8, G3, G4, G5, G6, W1, W2,
         O1, O2, O3, O4, O5, O6, O7, O8, R1, R2, RI, X1, X2, XO

\* The loops of read and write are no part of another call.
LEMMA Loops == \A c \in Names : (R1 \in Left(c) => c = "read") /\ (X1 \in Left(c) => c = "write")
<1>1. R1 # <<>> /\ X1 # <<>>
  BY Zenon DEF R1, X1
<1>2. ASSUME NEW c \in Names, R1 \in Left(c) PROVE c = "read"
  BY <1>1, <1>2, Heads, Zenon DEF Left, Names
<1>3. ASSUME NEW c \in Names, X1 \in Left(c) PROVE c = "write"
  BY <1>1, <1>3, Heads, Zenon DEF Left, Names
<1> QED BY <1>2, <1>3, Zenon

\* One access of a call, its effect on what is left of it aside.
AccessAs(p) ==
  /\ todo[p] # <<>> /\ todo' = [todo EXCEPT ![p] = todo'[p]]
  /\ todo'[p] \in Left(call[p])
  /\ UNCHANGED <<call, arg, returned, arrived, overlapped>>

LEMMA AccessShape ==
  ASSUME SeqType, NEW p \in Procs, Access(p), ~Return(p)
  PROVE  AccessAs(p)
<1>0. todo[p] \in Left(call[p]) /\ call[p] \in Names /\ DOMAIN todo = Procs
  BY Zenon DEF SeqType
<1>1. UNCHANGED <<call, arg, returned, arrived, overlapped>>
  BY Zenon DEF Access, uart, fifos, latch, locals, history, SetregIn, SetregOut, OutDLL, OutDLM, Peek, OutIER,
         InDLM, InDLL, ReadWait, ReadTest, ReadIn, WriteWait, WriteTest, WriteOut
<1>2. CASE ReadTest(p)
  <2>1. todo[p] = R1 /\ (todo' = [todo EXCEPT ![p] = RI] \/ todo' = [todo EXCEPT ![p] = <<>>])
    BY <1>0, <1>2, Places, Zenon DEF ReadTest, Doing, RI
  <2>2. call[p] = "read"
    BY <1>0, <2>1, Loops, Zenon
  <2>3. todo'[p] \in Left(call[p])
    BY <1>0, <2>1, <2>2, Zenon DEF Left
  <2> QED BY <1>0, <1>1, <1>2, <2>1, <2>3, Zenon DEF AccessAs, ReadTest, Doing
<1>3. CASE WriteTest(p)
  <2>1. todo[p] = X1 /\ (todo' = [todo EXCEPT ![p] = XO] \/ todo' = [todo EXCEPT ![p] = <<>>])
    BY <1>0, <1>3, Places, Zenon DEF WriteTest, Doing, XO
  <2>2. call[p] = "write"
    BY <1>0, <2>1, Loops, Zenon
  <2>3. todo'[p] \in Left(call[p])
    BY <1>0, <2>1, <2>2, Zenon DEF Left
  <2> QED BY <1>0, <1>1, <1>3, <2>1, <2>3, Zenon DEF AccessAs, WriteTest, Doing
<1>4. CASE todo[p] # <<>> /\ Done(p)
  <2>1. todo' = [todo EXCEPT ![p] = Tail(todo[p])]
    BY <1>4, Zenon DEF Done
  <2>2. Tail(todo[p]) \in Left(call[p])
    BY <1>0, <1>4, Follows, Zenon
  <2> QED BY <1>0, <1>1, <1>4, <2>1, <2>2, Zenon DEF AccessAs
<1>5. ReadTest(p) \/ WriteTest(p) \/ (todo[p] # <<>> /\ Done(p))
  BY Zenon DEF Access, Doing, SetregIn, SetregOut, OutDLL, OutDLM, Peek, OutIER,
         InDLM, InDLL, ReadWait, ReadIn, WriteWait, WriteOut
<1> QED BY <1>2, <1>3, <1>4, <1>5, Zenon

LEMMA MaskedType ==
  ASSUME NEW old \in Lcr, NEW access \in {"latch", "rw", "word", "frame"}, NEW wl \in Nat
  PROVE  /\ Masked(old, access, wl) \in Lcr
         /\ access = "latch" => Masked(old, access, wl).dlab
         /\ access = "rw" => ~Masked(old, access, wl).dlab
         /\ access = "frame" => ~Masked(old, access, wl).dlab
         /\ access = "word" /\ wl < 128 /\ ~old.dlab => ~Masked(old, access, wl).dlab
<1>0. (old.dlab \/ wl >= 128) \in BOOLEAN /\ wl % 4 \in Nat
  OBVIOUS
<1>1. CASE access = "latch"
  BY <1>1, Zenon DEF Masked, Lcr
<1>2. CASE access = "rw"
  BY <1>2, Zenon DEF Masked, Lcr
<1>3. CASE access = "frame"
  BY <1>3, Zenon DEF Masked, Lcr
<1>4. CASE access = "word"
  BY <1>0, <1>4 DEF Masked, Lcr
<1> QED BY <1>1, <1>2, <1>3, <1>4, Zenon

LEMMA RequestType ==
  ASSUME NEW r \in Requests
  PROVE  /\ r.call \in Names \ {"none"} /\ r.arg \in [div : Nat, wl : Nat]
         /\ PlainLengths => r.arg.wl < 128
<1>1. ASSUME NEW c \in Names \ {"none"}, NEW n, NEW div \in Nat, NEW wl \in Nat, r = Request(c, n, div, wl),
             PlainLengths => wl < 128
      PROVE  /\ r.call \in Names \ {"none"} /\ r.arg \in [div : Nat, wl : Nat]
             /\ PlainLengths => r.arg.wl < 128
  BY <1>1, Zenon DEF Request
<1>2. ASSUME NEW d \in Divisors PROVE d \in Nat
  BY ArgumentsAssumption
<1>3. ASSUME NEW w \in WordLengths PROVE w \in Nat /\ (PlainLengths => w < 128)
  BY ArgumentsAssumption DEF PlainLengths
<1>4. CASE r \in {Request("open", 0, 12, 0), Request("baudget", 0, 0, 0)}
  BY <1>1, <1>4 DEF Names
<1>5. CASE r \in {Request(c, n, 0, 0) : c \in {"read", "write"}, n \in 1..MaxSize}
  BY <1>1, <1>5 DEF Names
<1>6. CASE r \in {Request("baudset", 0, d, 0) : d \in Divisors}
  BY <1>1, <1>2, <1>6 DEF Names
<1>7. CASE r \in {Request("wordset", 0, 0, w) : w \in WordLengths}
  BY <1>1, <1>3, <1>7, Zenon DEF Names
<1>8. CASE r \in {Request("confset", 0, d, w) : d \in Divisors, w \in WordLengths}
  BY <1>1, <1>2, <1>3, <1>8 DEF Names
<1> QED BY <1>4, <1>5, <1>6, <1>7, <1>8 DEF Requests

LEMMA SeqTypeInit == Init => SeqType
<1> SUFFICES ASSUME Init PROVE SeqType
  BY Zenon
<1>1. lcr \in Lcr
  BY Zenon DEF Init, Lcr
<1>2. \A p \in Procs : todo[p] \in Left(call[p]) /\ arg[p] = [div |-> 0, wl |-> 0]
  BY Zenon DEF Init, Left
<1>3. /\ dll \in Nat /\ dlm \in Nat /\ divisor \in Nat /\ DOMAIN todo = Procs
      /\ call \in [Procs -> Names] /\ reg \in [Procs -> Lcr] /\ retval \in [Procs -> Nat]
      /\ arg \in [Procs -> [div : Nat, wl : Nat]] /\ arrived \in Nat /\ rx \in Seq(Nat \ {Junk})
      /\ kbuff \in [Procs -> Seq(Nat)] /\ returned \in [Procs -> Seq(Nat)]
  BY <1>1 DEF Init, Names
<1> QED BY <1>1, <1>2, <1>3 DEF SeqType

LEMMA SeqTypeNext == SeqType /\ [Next]_vars => SeqType'
<1> SUFFICES ASSUME SeqType, [Next]_vars PROVE SeqType'
  OBVIOUS
<1>0. /\ lcr \in Lcr /\ dll \in Nat /\ dlm \in Nat /\ divisor \in Nat
      /\ call \in [Procs -> Names] /\ DOMAIN todo = Procs
      /\ \A p \in Procs : todo[p] \in Left(call[p])
      /\ reg \in [Procs -> Lcr] /\ retval \in [Procs -> Nat]
      /\ arg \in [Procs -> [div : Nat, wl : Nat]]
      /\ \A p \in Procs : PlainLengths => arg[p].wl < 128
      /\ rx \in Seq(Nat \ {Junk}) /\ arrived \in Nat
      /\ kbuff \in [Procs -> Seq(Nat)] /\ returned \in [Procs -> Seq(Nat)]
  BY Zenon DEF SeqType
<1>1. rx # <<>> => Head(rx) \in Nat \ {Junk} /\ Tail(rx) \in Seq(Nat \ {Junk})
  BY <1>0
<1>2. ASSUME NEW p \in Procs, Access(p), ~Return(p),
             lcr' \in Lcr, dll' \in Nat, dlm' \in Nat, divisor' \in Nat, reg' \in [Procs -> Lcr],
             retval' \in [Procs -> Nat], rx' \in Seq(Nat \ {Junk}), kbuff' \in [Procs -> Seq(Nat)]
      PROVE  SeqType'
  <2>1. AccessAs(p)
    BY <1>2, AccessShape, Zenon
  <2>2. \A q \in Procs : todo'[q] \in Left(call'[q])
    BY <1>0, <2>1, Zenon DEF AccessAs
  <2>3. DOMAIN todo' = Procs
    BY <1>0, <2>1, Zenon DEF AccessAs
  <2> QED BY <1>0, <1>2, <2>1, <2>2, <2>3, Zenon DEF SeqType, AccessAs
<1>3. ASSUME NEW p \in Procs, SetregIn(p) PROVE SeqType'
  BY <1>0, <1>2, <1>3, Zenon DEF SetregIn, uart, history, Access, Return, Doing
<1>4. ASSUME NEW p \in Procs, SetregOut(p) PROVE SeqType'
  <2>1. PICK access \in {"latch", "rw", "word", "frame"} : lcr' = Masked(reg[p], access, arg[p].wl)
    BY <1>4, Zenon DEF SetregOut
  <2>2. reg[p] \in Lcr /\ arg[p].wl \in Nat
    BY <1>0, Zenon
  <2>3. lcr' \in Lcr
    BY <2>1, <2>2, MaskedType, Zenon
  <2> QED BY <1>0, <1>2, <1>4, <2>3, Zenon DEF SetregOut, fifos, locals, history, Access, Return, Doing
<1>5. ASSUME NEW p \in Procs, OutDLL(p) PROVE SeqType'
  <2>1. arg[p].div \in Nat /\ arg[p].div % 256 \in Nat
    BY <1>0
  <2>2. dll' \in Nat
    BY <1>0, <1>5, <2>1, Zenon DEF OutDLL, Out
  <2> QED BY <1>0, <1>2, <1>5, <2>1, <2>2, Zenon DEF OutDLL, locals, Access, Return, Doing
<1>6. ASSUME NEW p \in Procs, OutDLM(p) PROVE SeqType'
  <2>1. HighBits(arg[p].div) \in Nat
    <3>1. arg[p].div \in Nat
      BY <1>0, Zenon
    <3> QED BY <3>1 DEF HighBits
  <2>2. dlm' \in Nat
    BY <1>0, <1>6, <2>1, Zenon DEF OutDLM
  <2> QED BY <1>0, <1>2, <1>6, <2>2, Zenon DEF OutDLM, fifos, locals, history, Access, Return, Doing
<1>7. ASSUME NEW p \in Procs, Peek(p) PROVE SeqType'
  BY <1>0, <1>1, <1>2, <1>7, Zenon DEF Peek, latch, locals, history, Access, Return, Doing
<1>8. ASSUME NEW p \in Procs, OutIER(p) PROVE SeqType'
  BY <1>0, <1>2, <1>8, Zenon DEF OutIER, fifos, locals, history, Access, Return, Doing
<1>9. ASSUME NEW p \in Procs, InDLM(p) PROVE SeqType'
  <2>1. retval' \in [Procs -> Nat]
    BY <1>0, <1>9 DEF InDLM
  <2> QED BY <1>0, <1>2, <1>9, <2>1, Zenon DEF InDLM, uart, history, Access, Return, Doing
<1>10. ASSUME NEW p \in Procs, InDLL(p) PROVE SeqType'
  <2>1. PICK n \in Nat : retval' = [retval EXCEPT ![p] = retval[p] + n]
    BY <1>0, <1>10, SizesAssumption, Zenon DEF InDLL
  <2>2. retval' \in [Procs -> Nat]
    BY <1>0, <2>1
  <2>3. rx' \in Seq(Nat \ {Junk})
    BY <1>0, <1>1, <1>10, Zenon DEF InDLL
  <2> QED BY <1>0, <1>2, <1>10, <2>2, <2>3, Zenon DEF InDLL, latch, history, Access, Return, Doing
<1>11. ASSUME NEW p \in Procs, ReadWait(p) \/ ReadTest(p) \/ WriteWait(p) \/ WriteTest(p) PROVE SeqType'
  <2>1. UNCHANGED <<lcr, dll, dlm, divisor, reg, retval, rx, kbuff>> /\ todo[p] # <<>>
    BY <1>11, Zenon DEF ReadWait, ReadTest, WriteWait, WriteTest, uart, locals, history, Doing
  <2> QED BY <1>0, <1>2, <1>11, <2>1, Zenon DEF Access, Return
<1>12. ASSUME NEW p \in Procs, ReadIn(p) PROVE SeqType'
  <2>1. \E x \in Nat : kbuff' = [kbuff EXCEPT ![p] = Append(kbuff[p], x)]
    BY <1>1, <1>12, Zenon DEF ReadIn, Junk
  <2>2. kbuff' \in [Procs -> Seq(Nat)]
    BY <1>0, <2>1
  <2>3. rx' \in Seq(Nat \ {Junk})
    BY <1>0, <1>1, <1>12, Zenon DEF ReadIn
  <2> QED BY <1>0, <1>2, <1>12, <2>2, <2>3, Zenon DEF ReadIn, latch, history, Access, Return, Doing
<1>13. ASSUME NEW p \in Procs, WriteOut(p) PROVE SeqType'
  <2>1. dll' \in Nat
    BY <1>0, <1>13, SizesAssumption, Zenon DEF WriteOut, Out
  <2> QED BY <1>0, <1>2, <1>13, <2>1, Zenon DEF WriteOut, Access, Return, Doing
<1>14. ASSUME NEW p \in Procs, Return(p) PROVE SeqType'
  <2>1. /\ call' = [call EXCEPT ![p] = "none"] /\ todo' = todo /\ todo[p] = <<>>
        /\ returned' = returned \/ returned' = [returned EXCEPT ![p] = returned[p] \o kbuff[p]]
        /\ UNCHANGED <<uart, locals, divisor>>
    BY <1>14, Zenon DEF Return
  <2>2. \A q \in Procs : todo'[q] \in Left(call'[q])
    <3>1. <<>> \in Left("none")
      BY Zenon DEF Left
    <3> QED BY <1>0, <2>1, <3>1, Zenon
  <2>3. returned[p] \o kbuff[p] \in Seq(Nat)
    BY <1>0
  <2>4. call' \in [Procs -> Names] /\ returned' \in [Procs -> Seq(Nat)]
    BY <1>0, <2>1, <2>3, Zenon DEF Names
  <2> QED BY <1>0, <2>1, <2>2, <2>4, Zenon DEF SeqType, uart, locals
<1>15. ASSUME NEW p \in Procs, NEW r \in Requests, Call(p, r) PROVE SeqType'
  <2>1. /\ call' = [call EXCEPT ![p] = r.call] /\ todo' = [todo EXCEPT ![p] = Program(r.call)]
        /\ arg' = [arg EXCEPT ![p] = r.arg] /\ retval' = [retval EXCEPT ![p] = 0]
        /\ kbuff' = [kbuff EXCEPT ![p] = <<>>] /\ UNCHANGED <<uart, reg, returned, divisor>>
    BY <1>15, Zenon DEF Call
  <2>2. Program(r.call) \in Left(r.call)
    BY RequestType, Programs, Zenon DEF Names, Left
  <2>3. \A q \in Procs : todo'[q] \in Left(call'[q])
    BY <1>0, <2>1, <2>2, Zenon
  <2>4. /\ call' \in [Procs -> Names] /\ arg' \in [Procs -> [div : Nat, wl : Nat]]
        /\ retval' \in [Procs -> Nat] /\ kbuff' \in [Procs -> Seq(Nat)] /\ DOMAIN todo' = Procs
    BY <1>0, <2>1, RequestType
  <2>5. \A q \in Procs : PlainLengths => arg'[q].wl < 128
    BY <1>0, <2>1, RequestType, Zenon
  <2> QED BY <1>0, <2>1, <2>3, <2>4, <2>5, Zenon DEF SeqType, uart
<1>16. ASSUME UNCHANGED <<process, latch, returned, divisor>>, rx' \in Seq(Nat \ {Junk}), arrived' \in Nat
       PROVE  SeqType'
  BY <1>0, <1>16, Zenon DEF SeqType, process, locals, latch
<1>17. CASE Receive
  <2>1. arrived + 1 \in Nat \ {Junk} /\ arrived' = arrived + 1 /\ rx' \in {rx, Append(rx, arrived + 1)}
    BY <1>0, <1>17 DEF Receive, Junk
  <2>2. rx' \in Seq(Nat \ {Junk})
    <3> DEFINE S == Nat \ {Junk}
    <3>1. rx \in Seq(S) /\ arrived + 1 \in S
      BY <1>0, <2>1, Zenon
    <3> HIDE DEF S
    <3>2. rx' \in Seq(S)
      BY <2>1, <3>1
    <3> QED BY <3>2, Zenon DEF S
  <2> QED BY <1>16, <1>17, <2>1, <2>2, Zenon DEF Receive, history
<1>18. ASSUME NEW p \in Procs, Release(p) PROVE SeqType'
  BY <1>0, <1>18, Zenon DEF SeqType, Release, uart, locals, history
<1>19. ASSUME NEW r, NEW n, NEW a, Load(r, n, a) PROVE SeqType'
  BY <1>0, <1>16, <1>19, Zenon DEF Load, uart, latch, history
<1>20. CASE Unload \/ Transmit \/ UNCHANGED vars
  BY <1>0, <1>16, <1>20, Zenon DEF Unload, Transmit, vars, uart, latch, history
<1> QED BY <1>3, <1>4, <1>5, <1>6, <1>7, <1>8, <1>9, <1>10, <1>11, <1>12, <1>13, <1>14, <1>15,
           <1>17, <1>18, <1>19, <1>20, Zenon DEF Next, Access

LEMMA AloneInit == Init => AloneInv
<1> SUFFICES ASSUME Init PROVE AloneInv
  OBVIOUS
<1>1. HighBits(0) = 0
  BY DEF HighBits
<1>2. Single /\ \A p \in Procs : call[p] = "none"
  BY Zenon DEF Init, Single
<1>3. Rest
  BY <1>1 DEF Init, Rest
<1>4. \A p \in Procs : Clean(kbuff[p]) /\ Clean(returned[p])
  BY DEF Init, Clean
<1> QED BY <1>2, <1>3, <1>4, Zenon DEF AloneInv

\* The process that makes an access is the only one in a call.
LEMMA OnlyCall ==
  ASSUME SeqType, AloneInv, NEW p \in Procs, todo[p] # <<>>
  PROVE  call[p] # "none" /\ Mine(p) /\ \A q \in Procs : q # p => call[q] = "none"
<1>1. call[p] # "none"
  BY Zenon DEF SeqType, Left
<1> QED BY <1>1, Zenon DEF AloneInv, Single

LEMMA AccessAlone ==
  ASSUME SeqType, AloneInv, NEW p \in Procs, AccessAs(p), Mine(p)',
         \A q \in Procs : Clean(kbuff'[q])
  PROVE  AloneInv'
<1>1. call[p] # "none" /\ \A q \in Procs : q # p => call[q] = "none"
  BY OnlyCall, Zenon DEF AccessAs
<1>2. Single' /\ ~Quiet' /\ \A q \in Procs : call'[q] # "none" => q = p
  BY <1>1, Zenon DEF AccessAs, Single, Quiet
<1>3. \A q \in Procs : call'[q] # "none" => Mine(q)'
  BY <1>2, Zenon
<1>4. \A q \in Procs : Clean(returned'[q])
  BY Zenon DEF AloneInv, AccessAs
<1> QED BY <1>2, <1>3, <1>4, Zenon DEF AloneInv

\* An access after which the latch, LCR and what is read of them are the same, and
\* that leaves the call at no place with a claim of its own.
LEMMA PlainAccess ==
  ASSUME SeqType, AloneInv, NEW p \in Procs, AccessAs(p),
         UNCHANGED <<lcr, dll, dlm, divisor, kbuff>>,
         todo'[p] \in Latched <=> todo[p] \in Latched,
         todo'[p] \notin Half, todo[p] \notin Half, todo'[p] # G3,
         todo'[p] \in Wording => ~reg'[p].dlab,
         call[p] = "baudget" /\ todo'[p] \in Both => retval'[p] = dlm * 16 + dll,
         todo'[p] = RI => rx' # <<>>
  PROVE  AloneInv'
<1>1. Mine(p)
  BY OnlyCall, Zenon DEF AccessAs
<1>2. UNCHANGED <<lcr, dll, dlm, divisor, kbuff, call>>
  BY Zenon DEF AccessAs
<1>3. lcr'.dlab <=> todo'[p] \in Latched
  BY <1>1, <1>2, Zenon DEF Mine
<1>4. dll' = divisor' % 256 /\ dlm' = HighBits(divisor')
  BY <1>1, <1>2, Zenon DEF Mine
<1>5. /\ call'[p] = "baudget" /\ todo'[p] = G3 => retval'[p] = dlm' * 16
      /\ call'[p] = "baudget" /\ todo'[p] \in Both => retval'[p] = dlm' * 16 + dll'
  BY <1>2, Zenon
<1>6. Mine(p)'
  BY <1>3, <1>4, <1>5, Zenon DEF Mine
<1>7. \A q \in Procs : Clean(kbuff'[q])
  BY <1>2, Zenon DEF AloneInv
<1> QED BY <1>6, <1>7, AccessAlone, Zenon

LEMMA SetregAlone ==
  ASSUME SeqType, AloneInv, PlainLengths, NEW p \in Procs, SetregIn(p) \/ SetregOut(p)
  PROVE  AloneInv'
<1>0. /\ todo[p] # <<>> /\ call[p] \in Names /\ todo[p] \in Left(call[p]) /\ reg[p] \in Lcr
      /\ arg[p].wl \in Nat /\ arg[p].wl < 128 /\ reg \in [Procs -> Lcr] /\ DOMAIN todo = Procs
  BY Zenon DEF SeqType, SetregIn, SetregOut, Doing
<1>1. AccessAs(p) /\ Mine(p)
  BY <1>0, AccessShape, OnlyCall, Zenon DEF Access, SetregIn, SetregOut, Return, Doing
<1>2. todo'[p] = Tail(todo[p])
  BY <1>0, Zenon DEF SetregIn, SetregOut, Done
<1>3. CASE SetregIn(p)
  <2>1. reg'[p] = lcr /\ UNCHANGED <<lcr, dll, dlm, divisor, kbuff, retval, rx>>
    BY <1>0, <1>3, Zenon DEF SetregIn, uart, history
  <2>2. todo[p] \in {RW2, B6, C8, G6, W2, O3, O8}
    BY <1>0, <1>3, Places, Zenon DEF SetregIn, Doing
  <2>3. /\ todo'[p] \in Latched <=> todo[p] \in Latched
        /\ todo'[p] \in {RW1, B5, C7, G5, W1, O2, O7}
        /\ todo'[p] \in {C7, W1} => todo[p] \notin Latched
    <3>1. \/ todo[p] = RW2 /\ todo'[p] = RW1
          \/ todo[p] = O3 /\ todo'[p] = O2
          \/ todo[p] \in {B6, C8, G6, W2, O8} /\ todo'[p] \in {B5, C7, G5, W1, O7}
      BY <1>2, <2>2, Tails, Zenon
    <3>2. CASE todo[p] = RW2 /\ todo'[p] = RW1
      BY <3>2, Apart, Zenon
    <3>3. CASE todo[p] = O3 /\ todo'[p] = O2
      BY <3>3, Apart, Zenon
    <3>4. CASE todo[p] \in {B6, C8, G6, W2, O8} /\ todo'[p] \in {B5, C7, G5, W1, O7}
      BY <3>4, Apart, Zenon
    <3> QED BY <3>1, <3>2, <3>3, <3>4, Zenon
  <2>4. todo'[p] \notin Half /\ todo[p] \notin Half /\ todo'[p] # G3 /\ todo'[p] # RI
    BY <2>2, <2>3, Marks, Zenon
  <2>5. todo'[p] \in Wording => ~reg'[p].dlab
    BY <1>1, <2>1, <2>3, Zenon DEF Mine, Wording
  <2>6. todo'[p] \in Both => todo[p] \in Both
    <3>1. todo[p] = RW2 \/ todo'[p] \in {B5, C7, G5, W1, O2, O7}
      BY <1>2, <2>2, Tails, Zenon
    <3>2. RW2 \in Both
      BY Zenon DEF Both
    <3> QED BY <3>1, <3>2, Marks, Zenon
  <2>7. call[p] = "baudget" /\ todo'[p] \in Both => retval'[p] = dlm * 16 + dll
    BY <1>1, <2>1, <2>6, Zenon DEF Mine
  <2> QED BY <1>1, <2>1, <2>3, <2>4, <2>5, <2>7, PlainAccess, Zenon
<1>4. CASE SetregOut(p)
  <2>1. PICK access \in {"latch", "rw", "word", "frame"} :
          Head(todo[p]) = access /\ lcr' = Masked(reg[p], access, arg[p].wl)
    BY <1>4, Zenon DEF SetregOut, Doing
  <2>2. UNCHANGED <<dll, dlm, divisor, kbuff, retval, rx, reg, arg, call>>
    BY <1>4, Zenon DEF SetregOut, fifos, locals, history
  <2>3. /\ access = "latch" => todo[p] \in {B5, G5, O7} /\ todo'[p] \in {B4, G4, O6}
        /\ access = "rw" => todo[p] = RW1 /\ todo'[p] = <<>>
        /\ access = "word" => todo[p] \in Wording /\ todo'[p] \in {<<>>, B6}
        /\ access = "frame" => todo[p] = O2 /\ todo'[p] = O1
    <3>1. /\ Head(todo[p]) = "latch" => todo[p] \in {B5, G5, O7}
          /\ Head(todo[p]) = "rw" => todo[p] = RW1
          /\ Head(todo[p]) = "word" => todo[p] \in Wording
          /\ Head(todo[p]) = "frame" => todo[p] = O2
      BY <1>0, Places, Zenon
    <3>2. Tail(B5) = B4 /\ Tail(G5) = G4 /\ Tail(O7) = O6 /\ Tail(RW1) = <<>> /\ Tail(O2) = O1
      BY Tails, Zenon
    <3>3. todo[p] \in Wording => Tail(todo[p]) \in {<<>>, B6}
      BY Tails, Zenon DEF Wording
    <3> QED BY <1>2, <2>1, <3>1, <3>2, <3>3, Zenon
  <2>4. lcr'.dlab <=> todo'[p] \in Latched
    <3>0. /\ access = "latch" => lcr'.dlab
          /\ access = "rw" => ~lcr'.dlab
          /\ access = "frame" => ~lcr'.dlab
          /\ access = "word" /\ ~reg[p].dlab => ~lcr'.dlab
      BY <1>0, <2>1, MaskedType, Zenon
    <3>1. CASE access = "latch"
      BY <2>3, <3>0, <3>1, Apart, Zenon
    <3>2. CASE access = "rw"
      BY <2>3, <3>0, <3>2, Apart, Zenon
    <3>3. CASE access = "word"
      <4>1. ~reg[p].dlab
        BY <1>1, <2>3, <3>3, Zenon DEF Mine
      <4> QED BY <2>3, <3>0, <3>3, <4>1, Apart, Zenon
    <3>4. CASE access = "frame"
      BY <2>3, <3>0, <3>4, Apart, Zenon
    <3> QED BY <3>1, <3>2, <3>3, <3>4, Zenon
  <2>5. todo'[p] \in {B4, G4, O6, O1, B6, <<>>} /\ todo[p] \in {B5, G5, O7, RW1, W1, C7, O2}
    BY <2>1, <2>3, Zenon DEF Wording
  <2>6. todo'[p] \notin Half /\ todo[p] \notin Half /\ todo'[p] \notin Wording /\ todo'[p] # G3 /\ todo'[p] # RI
    BY <2>5, Marks, Zenon
  <2>7. call[p] = "baudget" /\ todo'[p] \in Both => todo[p] \in Both
    <3>1. CASE access = "rw"
      BY <2>3, <3>1, Zenon DEF Both
    <3>2. CASE access = "latch" \/ access = "frame"
      BY <2>3, <3>2, Marks, Zenon
    <3>3. CASE access = "word"
      <4>1. call[p] # "baudget"
        BY <1>0, <2>1, <3>3, Heads, Zenon DEF Left
      <4> QED BY <4>1, Zenon
    <3> QED BY <3>1, <3>2, <3>3, Zenon
  <2>8. Mine(p)'
    <3>1. dll' = divisor' % 256 /\ dlm' = HighBits(divisor')
      BY <1>1, <2>2, <2>6, Zenon DEF Mine
    <3>2. call'[p] = "baudget" /\ todo'[p] \in Both => retval'[p] = dlm' * 16 + dll'
      BY <1>1, <2>2, <2>7, Zenon DEF Mine
    <3> QED BY <2>4, <2>6, <3>1, <3>2, Zenon DEF Mine
  <2>9. \A q \in Procs : Clean(kbuff'[q])
    BY <2>2, Zenon DEF AloneInv
  <2> QED BY <1>1, <2>8, <2>9, AccessAlone, Zenon
<1> QED BY <1>3, <1>4, Zenon

LEMMA DivisorAlone ==
  ASSUME SeqType, AloneInv, NEW p \in Procs, OutDLL(p) \/ Peek(p) \/ OutDLM(p) \/ OutIER(p)
  PROVE  AloneInv'
<1>0. /\ todo[p] # <<>> /\ call[p] \in Names /\ todo[p] \in Left(call[p]) /\ DOMAIN todo = Procs
      /\ arg[p].div \in Nat
  BY Zenon DEF SeqType, OutDLL, Peek, OutDLM, OutIER, Doing
<1>1. AccessAs(p) /\ Mine(p)
  BY <1>0, AccessShape, OnlyCall, Zenon DEF Access, OutDLL, Peek, OutDLM, OutIER, Return, Doing
<1>2. todo'[p] = Tail(todo[p])
  BY <1>0, Zenon DEF OutDLL, Peek, OutDLM, OutIER, Done
<1>3. UNCHANGED <<lcr, kbuff, retval, reg, arg, call>>
  BY Zenon DEF OutDLL, Peek, OutDLM, OutIER, latch, fifos, locals, history
<1>4. \A q \in Procs : Clean(kbuff'[q])
  BY <1>3, Zenon DEF AloneInv
<1>5. CASE OutDLL(p)
  <2>1. todo[p] \in {B4, O6} /\ todo'[p] \in {B3, O5}
    <3>1. todo[p] \in {B4, O6}
      BY <1>0, <1>5, Places, Zenon DEF OutDLL, Doing
    <3> QED BY <1>2, <3>1, Tails, Zenon
  <2>2. todo[p] \in Latched /\ todo'[p] \in Latched /\ todo'[p] \in Half
    BY <2>1, Apart, Zenon DEF Half
  <2>3. lcr.dlab /\ lcr'.dlab
    BY <1>1, <1>3, <2>2, Zenon DEF Mine
  <2>4. dll' = arg[p].div % 256 /\ divisor' = arg[p].div
    BY <1>5, <2>3, Zenon DEF OutDLL, Out
  <2>5. todo'[p] \notin Wording /\ todo'[p] # G3 /\ todo'[p] \notin Both /\ todo'[p] # RI
    BY <2>1, Marks, Zenon
  <2>6. Mine(p)'
    BY <1>3, <2>2, <2>3, <2>4, <2>5, Zenon DEF Mine
  <2> QED BY <1>1, <1>4, <2>6, AccessAlone, Zenon
<1>6. CASE Peek(p)
  <2>1. todo[p] = O5 /\ todo'[p] = O4
    BY <1>0, <1>2, <1>6, Places, Tails, Zenon DEF Peek, Doing
  <2>2. todo[p] \in Latched /\ todo'[p] \in Latched /\ todo[p] \in Half /\ todo'[p] \in Half
    BY <2>1, Apart, Zenon DEF Half
  <2>3. todo'[p] \notin Wording /\ todo'[p] # G3 /\ todo'[p] \notin Both /\ todo'[p] # RI
    BY <2>1, Marks, Zenon
  <2>4. UNCHANGED <<dll, divisor>>
    BY <1>6, Zenon DEF Peek, latch, history
  <2>5. Mine(p)'
    BY <1>1, <1>3, <2>2, <2>3, <2>4, Zenon DEF Mine
  <2> QED BY <1>1, <1>4, <2>5, AccessAlone
<1>7. CASE OutDLM(p)
  <2>1. todo[p] \in {B3, O4} /\ todo'[p] \in {RW2, O3}
    <3>1. todo[p] \in {B3, O4}
      BY <1>0, <1>7, Places, Zenon DEF OutDLM, Doing
    <3> QED BY <1>2, <3>1, Tails, Zenon
  <2>2. todo[p] \in Latched /\ todo'[p] \in Latched /\ todo[p] \in Half
    BY <2>1, Apart, Zenon DEF Half
  <2>3. todo'[p] \notin Half /\ todo'[p] \notin Wording /\ todo'[p] # G3 /\ todo'[p] # RI
    BY <2>1, Marks, Zenon
  <2>4. lcr.dlab /\ lcr'.dlab /\ arg[p].div = divisor
    BY <1>1, <1>3, <2>2, Zenon DEF Mine
  <2>5. dlm' = HighBits(divisor) /\ UNCHANGED <<dll, divisor>>
    BY <1>7, <2>4, Zenon DEF OutDLM, history
  <2>6. call[p] # "baudget"
    BY <1>0, <2>1, Heads DEF Left
  <2>7. Mine(p)'
    BY <1>1, <1>3, <2>2, <2>3, <2>4, <2>5, <2>6, Zenon DEF Mine
  <2> QED BY <1>1, <1>4, <2>7, AccessAlone
<1>8. CASE OutIER(p)
  <2>1. todo[p] = O1 /\ todo'[p] = <<>>
    BY <1>0, <1>2, <1>8, Places, Tails, Zenon DEF OutIER, Doing
  <2>2. ~lcr.dlab
    BY <1>1, <2>1, Apart, Zenon DEF Mine
  <2>3. UNCHANGED <<dll, dlm, divisor>>
    BY <1>8, <2>2, Zenon DEF OutIER, history
  <2>4. call[p] # "baudget"
    BY <1>0, <2>1, Heads, Zenon DEF Left
  <2>5. /\ todo'[p] \notin Latched /\ todo[p] \notin Latched /\ todo'[p] \notin Half /\ todo[p] \notin Half
        /\ todo'[p] \notin Wording /\ todo'[p] # G3 /\ todo'[p] # RI
    BY <2>1, Marks, Apart, Zenon
  <2> QED BY <1>1, <1>3, <2>3, <2>4, <2>5, PlainAccess, Zenon
<1> QED BY <1>5, <1>6, <1>7, <1>8, Zenon

LEMMA BaudGetAlone ==
  ASSUME SeqType, AloneInv, NEW p \in Procs, InDLM(p) \/ InDLL(p)
  PROVE  AloneInv'
<1>0. /\ todo[p] # <<>> /\ call[p] \in Names /\ todo[p] \in Left(call[p]) /\ DOMAIN todo = Procs
      /\ retval \in [Procs -> Nat]
  BY Zenon DEF SeqType, InDLM, InDLL, Doing
<1>1. AccessAs(p) /\ Mine(p)
  BY <1>0, AccessShape, OnlyCall, Zenon DEF Access, InDLM, InDLL, Return, Doing
<1>2. todo'[p] = Tail(todo[p])
  BY <1>0, Zenon DEF InDLM, InDLL, Done
<1>3. UNCHANGED <<lcr, dll, dlm, divisor, kbuff, reg, arg, call>>
  BY Zenon DEF InDLM, InDLL, latch, uart, history
<1>4. CASE InDLM(p)
  <2>1. todo[p] = G4 /\ todo'[p] = G3
    BY <1>0, <1>2, <1>4, Places, Tails, Zenon DEF InDLM, Doing
  <2>2. /\ todo[p] \in Latched /\ todo'[p] \in Latched /\ todo[p] \notin Half /\ todo'[p] \notin Half
        /\ todo'[p] \notin Wording /\ todo'[p] \notin Both /\ todo'[p] # RI
    BY <2>1, Apart, Marks, Zenon
  <2>3. lcr.dlab /\ lcr'.dlab /\ dlm' = HighBits(divisor') /\ dll' = divisor' % 256
    BY <1>1, <1>3, <2>2, Zenon DEF Mine
  <2>4. retval'[p] = dlm' * 16
    BY <1>0, <1>3, <1>4, <2>3, Zenon DEF InDLM
  <2>5. Mine(p)'
    BY <2>2, <2>3, <2>4, Zenon DEF Mine
  <2>6. \A q \in Procs : Clean(kbuff'[q])
    BY <1>3, Zenon DEF AloneInv
  <2> QED BY <1>1, <2>5, <2>6, AccessAlone, Zenon
<1>5. CASE InDLL(p)
  <2>1. todo[p] = G3 /\ todo'[p] = RW2
    BY <1>0, <1>2, <1>5, Places, Tails, Zenon DEF InDLL, Doing
  <2>2. /\ todo[p] \in Latched /\ todo'[p] \in Latched /\ todo[p] \notin Half /\ todo'[p] \notin Half
        /\ todo'[p] \notin Wording /\ todo'[p] # G3 /\ todo'[p] # RI
    BY <2>1, Apart, Marks, Zenon
  <2>3. lcr.dlab
    BY <1>1, <2>2, Zenon DEF Mine
  <2>4. call[p] = "baudget" => retval[p] = dlm * 16
    BY <1>1, <2>1, Zenon DEF Mine
  <2>5. retval'[p] = retval[p] + dll
    BY <1>0, <1>5, <2>3, Zenon DEF InDLL
  <2> QED BY <1>1, <1>3, <2>2, <2>4, <2>5, PlainAccess, Zenon
<1> QED BY <1>4, <1>5, Zenon

LEMMA LoopAlone ==
  ASSUME SeqType, AloneInv, NEW p \in Procs,
         ReadWait(p) \/ ReadTest(p) \/ ReadIn(p) \/ WriteWait(p) \/ WriteTest(p) \/ WriteOut(p)
  PROVE  AloneInv'
<1>0. /\ todo[p] # <<>> /\ call[p] \in Names /\ todo[p] \in Left(call[p]) /\ DOMAIN todo = Procs
      /\ kbuff \in [Procs -> Seq(Nat)]
  BY Zenon DEF SeqType, ReadWait, ReadTest, ReadIn, WriteWait, WriteTest, WriteOut, Doing
<1>1. AccessAs(p) /\ Mine(p)
  BY <1>0, AccessShape, OnlyCall, Zenon
     DEF Access, ReadWait, ReadTest, ReadIn, WriteWait, WriteTest, WriteOut, Return, Doing
<1>2. todo[p] \in {R1, R2, RI, X1, X2, XO}
  BY <1>0, Places, Zenon DEF ReadWait, ReadTest, ReadIn, WriteWait, WriteTest, WriteOut, Doing
<1>3. call[p] # "baudget" /\ call'[p] # "baudget"
  <2>1. call[p] # "baudget"
    BY <1>0, <1>2, Heads DEF Left
  <2> QED BY <1>1, <2>1, Zenon DEF AccessAs
<1>4. todo'[p] \in {R1, RI, X1, XO, <<>>} /\ (todo'[p] = RI => ReadTest(p) /\ rx # <<>>)
  <2>1. CASE ReadTest(p)
    BY <1>0, <2>1, Marks, Zenon DEF ReadTest, DataAvailable, RI
  <2>2. CASE WriteTest(p)
    <3>1. todo'[p] \in {XO, <<>>}
      BY <1>0, <2>2, Zenon DEF WriteTest, XO
    <3> QED BY <3>1, Marks, Zenon
  <2>3. CASE ReadWait(p) \/ ReadIn(p) \/ WriteWait(p) \/ WriteOut(p)
    <3>1. todo'[p] = Tail(todo[p]) /\ todo[p] \in {R2, RI, X2, XO}
      BY <1>0, <2>3, Places, Zenon DEF ReadWait, ReadIn, WriteWait, WriteOut, Doing, Done
    <3>2. todo'[p] \in {R1, X1}
      BY <3>1, Tails, Zenon
    <3> QED BY <3>2, Marks, Zenon
  <2> QED BY <2>1, <2>2, <2>3, Zenon
<1>5. /\ todo[p] \notin Latched /\ todo'[p] \notin Latched /\ todo[p] \notin Half /\ todo'[p] \notin Half
      /\ todo'[p] \notin Wording /\ todo'[p] # G3
  BY <1>2, <1>4, Apart, Marks, Zenon
<1>6. ~lcr.dlab
  BY <1>1, <1>5, Zenon DEF Mine
<1>7. UNCHANGED <<lcr, dll, dlm, divisor>>
  BY <1>6, Zenon DEF ReadWait, ReadTest, ReadIn, WriteWait, WriteTest, WriteOut, Out, uart, latch, history
<1>8. CASE ReadIn(p)
  <2>1. todo[p] = RI
    BY <1>0, <1>8, Places, Zenon DEF ReadIn, Doing
  <2>2. rx # <<>> /\ rx \in Seq(Nat \ {Junk})
    BY <1>1, <2>1, Zenon DEF Mine, SeqType
  <2>3. Head(rx) \in Nat \ {Junk}
    BY <2>2
  <2>4. kbuff' = [kbuff EXCEPT ![p] = Append(kbuff[p], Head(rx))]
    BY <1>6, <1>8, <2>2, Zenon DEF ReadIn
  <2>5. ASSUME NEW q \in Procs PROVE Clean(kbuff'[q])
    <3>1. Clean(kbuff[q]) /\ kbuff[q] \in Seq(Nat)
      BY <1>0, Zenon DEF AloneInv
    <3>2. CASE q = p
      <4>1. kbuff'[q] = Append(kbuff[q], Head(rx))
        BY <1>0, <2>4, <3>2, Zenon
      <4> QED BY <2>3, <3>1, <4>1 DEF Clean
    <3>3. CASE q # p
      BY <1>0, <2>4, <3>1, <3>3, Zenon
    <3> QED BY <3>2, <3>3, Zenon
  <2>6. todo'[p] # RI
    BY <1>0, <1>4, <1>8, <2>1, Tails, Marks, Zenon DEF ReadIn, Done
  <2>7. Mine(p)'
    BY <1>1, <1>3, <1>5, <1>6, <1>7, <2>6, Zenon DEF Mine
  <2> QED BY <1>1, <2>5, <2>7, AccessAlone, Zenon
<1>9. CASE ~ReadIn(p)
  <2>1. UNCHANGED <<kbuff, rx>>
    BY <1>9, Zenon DEF ReadWait, ReadTest, WriteWait, WriteTest, WriteOut, Out, uart, locals
  <2> QED BY <1>1, <1>3, <1>4, <1>5, <1>7, <2>1, PlainAccess, Zenon
<1> QED BY <1>8, <1>9, Zenon

LEMMA ReturnAlone ==
  ASSUME SeqType, AloneInv, NEW p \in Procs, Return(p)
  PROVE  AloneInv'
<1>0. /\ call[p] # "none" /\ todo[p] = <<>> /\ call' = [call EXCEPT ![p] = "none"]
      /\ returned' = returned \/ returned' = [returned EXCEPT ![p] = returned[p] \o kbuff[p]]
      /\ UNCHANGED <<lcr, dll, dlm, divisor, kbuff>> /\ call \in [Procs -> Names]
      /\ kbuff \in [Procs -> Seq(Nat)] /\ returned \in [Procs -> Seq(Nat)]
  BY Zenon DEF Return, uart, locals, SeqType
<1>1. Mine(p) /\ \A q \in Procs : q # p => call[q] = "none"
  BY <1>0, Zenon DEF AloneInv, Single
<1>2. \A q \in Procs : call'[q] = "none"
  BY <1>0, <1>1, Zenon
<1>3. Rest'
  BY <1>0, <1>1, Apart, Marks, Zenon DEF Mine, Rest
<1>4. ASSUME NEW q \in Procs PROVE Clean(returned'[q])
  <2>1. Clean(returned[q]) /\ Clean(kbuff[q]) /\ returned[q] \in Seq(Nat) /\ kbuff[q] \in Seq(Nat)
    BY <1>0, Zenon DEF AloneInv
  <2>2. Clean(returned[q] \o kbuff[q])
    <3>1. ASSUME NEW s \in Seq(Nat), NEW t \in Seq(Nat), Clean(s), Clean(t) PROVE Clean(s \o t)
      BY <3>1 DEF Clean
    <3> QED BY <2>1, <3>1, Zenon
  <2>3. returned'[q] = returned[q] \/ returned'[q] = returned[q] \o kbuff[q]
    BY <1>0, Zenon
  <2> QED BY <2>1, <2>2, <2>3, Zenon
<1>5. \A q \in Procs : Clean(kbuff'[q])
  BY <1>0, Zenon DEF AloneInv
<1> QED BY <1>2, <1>3, <1>4, <1>5, Zenon DEF AloneInv, Single

LEMMA CallAlone ==
  ASSUME SeqType, AloneInv, ~overlapped', NEW p \in Procs, NEW r \in Requests, Call(p, r)
  PROVE  AloneInv'
<1>0. /\ call' = [call EXCEPT ![p] = r.call] /\ todo' = [todo EXCEPT ![p] = Program(r.call)]
      /\ kbuff' = [kbuff EXCEPT ![p] = <<>>]
      /\ UNCHANGED <<lcr, dll, dlm, divisor, returned>>
      /\ kbuff \in [Procs -> Seq(Nat)] /\ call \in [Procs -> Names] /\ DOMAIN todo = Procs
  BY Zenon DEF Call, uart, SeqType
<1>1. \A q \in Procs : call[q] = "none"
  BY Zenon DEF Call
<1>2. Rest
  BY <1>1, Zenon DEF AloneInv, Quiet
<1>3. todo'[p] \in {O8, B6, W2, G6, C8, R2, X2}
  BY <1>0, RequestType, Programs, Zenon DEF Names
<1>4. /\ todo'[p] \notin Latched /\ todo'[p] \notin Half /\ todo'[p] \notin Wording
      /\ todo'[p] # G3 /\ todo'[p] \notin Both /\ todo'[p] # RI
  BY <1>3, Apart, Marks, Zenon
<1>5. Mine(p)'
  BY <1>0, <1>2, <1>4, Zenon DEF Mine, Rest
<1>6. \A q \in Procs : call'[q] # "none" => q = p
  BY <1>0, <1>1, Zenon
<1>7. call'[p] # "none"
  BY <1>0, RequestType, Zenon
<1>8. \A q \in Procs : Clean(kbuff'[q]) /\ Clean(returned'[q])
  <2>1. Clean(<<>>)
    BY DEF Clean
  <2> QED BY <1>0, <2>1, Zenon DEF AloneInv
<1>9. Single' /\ ~Quiet'
  BY <1>6, <1>7, Zenon DEF Single, Quiet
<1>10. \A q \in Procs : call'[q] # "none" => Mine(q)'
  BY <1>5, <1>6, Zenon
<1> QED BY <1>8, <1>9, <1>10, Zenon DEF AloneInv

LEMMA SeqInvNext == SeqInv /\ [Next]_vars => SeqInv'
<1> SUFFICES ASSUME SeqInv, [Next]_vars PROVE SeqInv'
  OBVIOUS
<1>0. SeqType /\ SeqType'
  BY SeqTypeNext, Zenon DEF SeqInv
<1>1. ~overlapped' => ~overlapped
  <2>1. ASSUME NEW p \in Procs, Access(p) PROVE overlapped' = overlapped
    BY <2>1, Zenon DEF Access, SetregIn, SetregOut, OutDLL, OutDLM, Peek, OutIER, InDLM, InDLL, ReadWait,
                       ReadTest, ReadIn, WriteWait, WriteTest, WriteOut, Return, history
  <2>2. ASSUME NEW p \in Procs, NEW r \in Requests, Call(p, r) PROVE ~overlapped' => ~overlapped
    BY <2>2, Zenon DEF Call
  <2>3. ASSUME NEW p \in Procs, Release(p) PROVE overlapped' = overlapped
    BY <2>3, Zenon DEF Release, history
  <2>4. ASSUME NEW r, NEW n, NEW a, Load(r, n, a) PROVE overlapped' = overlapped
    BY <2>4, Zenon DEF Load, history
  <2>5. CASE Unload \/ Receive \/ Transmit \/ UNCHANGED vars
    BY <2>5, Zenon DEF Unload, Receive, Transmit, vars, history
  <2> QED BY <2>1, <2>2, <2>3, <2>4, <2>5, Zenon DEF Next
<1>2. SUFFICES ASSUME ~overlapped', PlainLengths, AloneInv PROVE AloneInv'
  BY <1>0, <1>1, Zenon DEF SeqInv
<1>3. ASSUME NEW p \in Procs, Access(p) PROVE AloneInv'
  BY <1>0, <1>2, <1>3, SetregAlone, DivisorAlone, BaudGetAlone, LoopAlone, ReturnAlone, Zenon DEF Access
<1>4. ASSUME NEW p \in Procs, NEW r \in Requests, Call(p, r) PROVE AloneInv'
  BY <1>0, <1>2, <1>4, CallAlone, Zenon
<1>5. ASSUME UNCHANGED <<call, todo, latch, locals, returned, divisor>>, rx = <<>> \/ rx' # <<>>
      PROVE  AloneInv'
  BY <1>2, <1>5, Zenon DEF AloneInv, Single, Quiet, Rest, Mine, latch, locals
<1>6. CASE Receive
  <2>1. rx = <<>> \/ rx' # <<>>
    <3>1. rx' = rx \/ rx' = Append(rx, arrived + 1)
      BY <1>6, Zenon DEF Receive
    <3>2. Append(rx, arrived + 1) # <<>>
      <4>1. ASSUME NEW S, NEW s \in Seq(S), NEW x \in S PROVE Append(s, x) # <<>>
        <5>1. Len(Append(s, x)) = Len(s) + 1 /\ Len(s) \in Nat /\ Len(<<>>) = 0
          BY <4>1
        <5>2. ASSUME Append(s, x) = <<>> PROVE FALSE
          <6>1. Len(Append(s, x)) = Len(<<>>)
            BY <5>2, Zenon
          <6> QED BY <5>1, <6>1
        <5> QED BY <5>2, Zenon
      <4>2. arrived + 1 \in Nat \ {Junk} /\ rx \in Seq(Nat \ {Junk})
        <5>1. arrived \in Nat /\ rx \in Seq(Nat \ {Junk})
          BY <1>0, Zenon DEF SeqType
        <5>2. arrived + 1 \in Nat \ {Junk}
          BY <5>1 DEF Junk
        <5> QED BY <5>1, <5>2, Zenon
      <4> QED BY <4>1, <4>2, Zenon
    <3> QED BY <3>1, <3>2, Zenon
  <2> QED BY <1>5, <1>6, <2>1, Zenon DEF Receive, process, history
<1>7. ASSUME NEW p \in Procs, Release(p) PROVE AloneInv'
  BY <1>5, <1>7, Zenon DEF Release, uart, latch, history
<1>8. ASSUME NEW r, NEW n, NEW a, Load(r, n, a) PROVE AloneInv'
  BY <1>5, <1>8, Zenon DEF Load, uart, latch, process, history
<1>9. CASE Unload \/ Transmit \/ UNCHANGED vars
  BY <1>5, <1>9, Zenon DEF Unload, Transmit, vars, uart, latch, process, history
<1> QED BY <1>3, <1>4, <1>6, <1>7, <1>8, <1>9, Zenon DEF Next

\* The shifts of the two calls undo each other, but for the four bits that the
\* port does not take.
LEMMA TwelveBits ==
  ASSUME NEW d \in Nat, NEW h, NEW r, h = HighBits(d), r = d % 256
  PROVE  h * 16 + r = d % 4096
<1> DEFINE q == d \div 256
<1>1. q \in Nat /\ r \in Nat /\ r < 256
  OBVIOUS
<1>2. d = 256 * q + r
  BY SMT
<1>3. h = (q * 16) % 256
  BY Zenon DEF HighBits
<1> HIDE DEF q
<1>4. (q * 16) % 256 = 16 * (q % 16)
  BY <1>1
<1>5. (256 * q + r) % 4096 = 256 * (q % 16) + r
  BY <1>1
<1>6. d % 4096 = 256 * (q % 16) + r
  BY <1>2, <1>5
<1> DEFINE m == q % 16
           n == d % 4096
<1>7. m \in Nat /\ h = 16 * m /\ n = 256 * m + r
  BY <1>1, <1>3, <1>4, <1>6
<1> HIDE DEF m, n
<1>8. h * 16 + r = n
  BY <1>1, <1>7
<1> QED BY <1>8, Zenon DEF n

LEMMA SeqInvAlways == Spec => []SeqInv
<1>1. Init => SeqInv
  BY SeqTypeInit, AloneInit, Zenon DEF SeqInv
<1> QED BY <1>1, SeqInvNext, PTL DEF Spec

\* A divisor of one byte has nothing for DLM.
LEMMA OneByte ==
  ASSUME NEW d \in Nat, d < 256
  PROVE  HighBits(d) = 0 /\ d % 256 = d
<1>1. d \div 256 = 0 /\ d % 256 = d
  OBVIOUS
<1> QED BY <1>1 DEF HighBits

\* While no two calls have overlapped and no word length sets DLAB: the UART works
\* with the divisor that open or ioctl set last, if it is below 256, and
\* RS_BAUDRATEGET gives it back, if it is below 4096, for all divisors, word lengths
\* and processes (setreg, rs232_open, rs232_ioctl).
THEOREM DivisorIsKept == Spec => []DivisorKept
<1>1. SeqInv => DivisorKept
  <2> SUFFICES ASSUME SeqInv, ~overlapped, PlainLengths
      PROVE  /\ Quiet => ~lcr.dlab /\ (divisor < 256 => Latch = divisor)
             /\ \A p \in Procs :
                  call[p] = "baudget" /\ todo[p] = <<>> /\ divisor < 4096 => retval[p] = divisor
    BY DEF DivisorKept
  <2>0. AloneInv /\ divisor \in Nat
    BY Zenon DEF SeqInv, SeqType
  <2>1. Quiet => Rest
    BY <2>0, Zenon DEF AloneInv
  <2>2. ASSUME Rest, divisor < 256 PROVE Latch = divisor
    <3>1. dlm = HighBits(divisor) /\ dll = divisor % 256
      BY <2>2 DEF Rest
    <3>2. HighBits(divisor) = 0 /\ divisor % 256 = divisor
      BY <2>0, <2>2, OneByte
    <3>3. dlm = 0 /\ dll = divisor
      BY <3>1, <3>2
    <3> QED BY <2>0, <3>3 DEF Latch
  <2>3. ASSUME NEW p \in Procs, call[p] = "baudget", todo[p] = <<>>
        PROVE  retval[p] = divisor % 4096
    <3>1. Mine(p) /\ <<>> \notin Half /\ <<>> \in Both
      BY <2>0, <2>3, Marks, Zenon DEF AloneInv, Both
    <3>2. retval[p] = dlm * 16 + dll /\ dlm = HighBits(divisor) /\ dll = divisor % 256
      BY <2>3, <3>1, Zenon DEF Mine
    <3> QED BY <2>0, <3>2, TwelveBits
  <2>5. divisor < 4096 => divisor % 4096 = divisor
    BY <2>0
  <2>4. Quiet => ~lcr.dlab
    BY <2>1, Zenon DEF Rest
  <2> QED BY <2>1, <2>2, <2>3, <2>4, <2>5
<1> QED BY <1>1, SeqInvAlways, PTL

\* While no two calls have overlapped and no word length sets DLAB: a read returns
\* only bytes that came on the line (the loops of rs232_read).
THEOREM ReadsNoJunk == Spec => []NoJunk
<1>1. SeqInv => NoJunk
  <2> SUFFICES ASSUME SeqInv, ~overlapped, PlainLengths, NEW p \in Procs, NEW i \in DOMAIN returned[p]
      PROVE  returned[p][i] # Junk
    BY Zenon DEF NoJunk
  <2>1. returned[p] \in Seq(Nat) /\ Clean(returned[p])
    BY Zenon DEF SeqInv, SeqType, AloneInv
  <2> QED BY <2>1 DEF Clean
<1> QED BY <1>1, SeqInvAlways, PTL
=============================================================================
