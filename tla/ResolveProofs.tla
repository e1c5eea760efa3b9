--------------------------- MODULE ResolveProofs ---------------------------
(***************************************************************************)
(* The two halves of the resolution of a chunk (rtxResolve) for every      *)
(* input.                                                                  *)
(*                                                                         *)
(* Type reordering: BlockReordering emits every chunk once, and the types  *)
(* a type depends on before it, whatever the declarations.                 *)
(*                                                                         *)
(* Weaving: the modifier of a block always turns the recorded index of the *)
(* next placeholder into its current one, for blocks, chunks and sequences *)
(* of every size, and a resolution without error leaves nothing to resolve.*)
(***************************************************************************)
EXTENDS TypeReordering, Weave, TLAPS

----------------------------------------------------------------------------
(* Type reordering.                                                        *)

Phases == {"build", "struct", "union", "typedef", "rest", "done"}
Frame == [type : Types, dep : Nat \ {0}]

\* The state of BlockReordering has its type; the stack is that of the calls of
\* the three loops over the entries, and every type on it has an entry.
ReorderType ==
  /\ source \in Sources /\ phase \in Phases /\ cur \in Nat \ {0} /\ field \in Nat
  /\ entries \in [TypeKinds -> Seq(Names)]
  /\ location \in [Types -> Nat] /\ list \in [Types -> Seq(Deps)]
  /\ managed \in [Types -> {"unset", "false", "true"}]
  /\ inserted \subseteq 1..Len(source)
  /\ result \in Seq(1..Len(source))
  /\ stack \in Seq(Frame)
Loops ==
  /\ phase = "build" => cur <= Len(source) + 1
  /\ phase = "build" /\ field > 0 => cur <= Len(source)
  /\ phase \notin TypeKinds => stack = <<>>
  /\ phase = "build" =>
       /\ inserted = {} /\ result = <<>>
       /\ \A t \in Types : managed[t] = "unset"
Found ==
  /\ \A t \in Types : location[t] <= Len(source)
  /\ \A k \in TypeKinds : \A e \in 1..Len(entries[k]) : location[<<k, entries[k][e]>>] # 0
  /\ \A i \in 1..Len(stack) : location[stack[i].type] # 0

\* The keys that are in the result, and the loop over the rest.
Once ==
  /\ \A i, j \in 1..Len(result) : result[i] = result[j] => i = j
  /\ inserted = {result[i] : i \in 1..Len(result)}
  /\ phase = "rest" => 1..(cur - 1) \subseteq inserted
  /\ phase = "done" => inserted = 1..Len(source)

LostInv == ReorderType /\ Loops /\ Found /\ Once

Entered(k) == phase # "build" \/ k < cur \/ (k = cur /\ field > 0)
Visited(k, d) == phase # "build" \/ k < cur \/ (k = cur /\ d < field)

\* What has an entry, and where its chunk is.
GraphInv ==
  /\ \A t \in Types : location[t] # 0 =>
       /\ Declares(source, location[t], t) /\ Entered(location[t])
       /\ \E e \in 1..Len(entries[t[1]]) : entries[t[1]][e] = t[2]
  /\ \A t \in Types : \A k \in 1..Len(source) :
       Entered(k) /\ Declares(source, k, t) => location[t] # 0

\* The lists of the types of a chunk are the same, and hold the types its fields
\* mention.
Unlisted == \A t \in Types : location[t] = 0 => list[t] = <<>>
Mentioned ==
  \A t \in Types : \A e \in 1..Len(list[t]) :
    \E d \in 1..Len(source[location[t]].deps) :
      source[location[t]].deps[d].type = list[t][e].type
Alike ==
  \A t, u \in Types : \A k \in 1..Len(source) :
    Declares(source, k, t) /\ Declares(source, k, u) => list[t] = list[u]
AllListed ==
  \A t \in Types : \A k \in 1..Len(source) : \A d \in 1..Len(source[k].deps) :
    Declares(source, k, t) /\ Visited(k, d) =>
      \E e \in 1..Len(list[t]) : list[t][e].type = source[k].deps[d].type
ListInv == DeclaredOnce(source) => Unlisted /\ Mentioned /\ Alike /\ AllListed

\* The entries that the loops have called DoRecursive for.
Iterated(k, e) ==
  \/ phase \in {"rest", "done"}
  \/ phase = "union" /\ k = "struct"
  \/ phase = "typedef" /\ k \in {"struct", "union"}
  \/ phase = k /\ e < cur

Settled == \A t \in Types : managed[t] = "true" => location[t] \in inserted
Running ==
  \A t \in Types : managed[t] = "false" =>
    location[t] \in inserted \/ \E i \in 1..Len(stack) : stack[i].type = t
AllPassed ==
  \A k \in TypeKinds : \A e \in 1..Len(entries[k]) :
    Iterated(k, e) => managed[<<k, entries[k][e]>>] # "unset"
SortInv == phase # "build" => Settled /\ Running /\ AllPassed

ChunkOf(i) == location[stack[i].type]
Descends(rank) ==
  \A i, j \in 1..Len(stack) : i < j =>
    ChunkOf(i) = ChunkOf(j) \/ rank[ChunkOf(j)] < rank[ChunkOf(i)]
Served ==
  \A i \in 1..Len(stack) : \A e \in 1..Len(list[stack[i].type]) :
    LET t == list[stack[i].type][e].type
    IN e < stack[i].dep /\ location[t] # 0 =>
         \/ location[t] \in inserted
         \/ location[t] = ChunkOf(i)
         \/ i < Len(stack) /\ stack[i + 1].type = t
InOrder ==
  \A p \in 1..Len(result) : \A k \in 1..Len(source) :
    Uses(source, result[p], k) => \E q \in 1..(p - 1) : result[q] = k
RankInv ==
  DeclaredOnce(source) =>
    \A rank \in [1..Len(source) -> 1..Len(source)] :
      Ranks(source, rank) => Descends(rank) /\ Served /\ InOrder

----------------------------------------------------------------------------
\* What the chunks of a block are.
LEMMA SourceType ==
  ASSUME NEW s \in Sources
  PROVE  /\ s \in Seq(Chunk) /\ Len(s) \in Nat
         /\ \A k \in 1..Len(s) :
              /\ s[k] \in Chunk
              /\ s[k].names \in Seq(Types) /\ Len(s[k].names) \in Nat
              /\ \A n \in 1..Len(s[k].names) : s[k].names[n] \in Types
              /\ s[k].deps \in Seq(Deps) /\ Len(s[k].deps) \in Nat
              /\ \A d \in 1..Len(s[k].deps) :
                   s[k].deps[d] \in Deps /\ s[k].deps[d].type \in Types
<1>1. s \in Seq(Chunk)
  BY SourcesAssumption, Zenon
<1>2. Len(s) \in Nat /\ \A k \in 1..Len(s) : s[k] \in Chunk
  BY <1>1
<1>3. ASSUME NEW c \in Chunk
      PROVE  c.names \in Seq(Types) /\ c.deps \in Seq(Deps)
  BY <1>3, Zenon DEF Chunk
<1>4. ASSUME NEW q \in Seq(Types)
      PROVE  Len(q) \in Nat /\ \A n \in 1..Len(q) : q[n] \in Types
  OBVIOUS
<1>5. ASSUME NEW q \in Seq(Deps)
      PROVE  Len(q) \in Nat /\ \A n \in 1..Len(q) : q[n] \in Deps
  OBVIOUS
<1>6. \A d \in Deps : d.type \in Types
  BY Zenon DEF Deps
<1>7. QED
  BY <1>1, <1>2, <1>3, <1>4, <1>5, <1>6, Zenon

\* A type is a kind and a name.
LEMMA TypePair ==
  /\ \A t \in Types : t[1] \in TypeKinds /\ t[2] \in Names /\ t = <<t[1], t[2]>>
  /\ \A k \in TypeKinds, x \in Names : <<k, x>> \in Types /\ <<k, x>>[1] = k /\ <<k, x>>[2] = x
  BY DEF Types

\* A sequence without its last element.
LEMMA Shorter ==
  ASSUME NEW S, NEW s \in Seq(S), Len(s) # 0
  PROVE  LET b == SubSeq(s, 1, Len(s) - 1) IN
         /\ b \in Seq(S) /\ Len(b) = Len(s) - 1
         /\ \A i \in 1..Len(s) - 1 : b[i] = s[i]
<1> DEFINE m == Len(s) - 1
<1>1. m \in Nat /\ m <= Len(s)
  OBVIOUS
<1> HIDE DEF m
<1>2. SubSeq(s, 1, m) \in Seq(S) /\ Len(SubSeq(s, 1, m)) = m
  BY <1>1
<1>3. \A i \in 1..m : SubSeq(s, 1, m)[i] = s[i]
  BY <1>1
<1>4. QED
  BY <1>2, <1>3, Zenon DEF m

\* The activations under the one that runs, and those when it goes on.
LEMMA Frames ==
  ASSUME stack \in Seq(Frame), stack # <<>>
  PROVE  /\ Len(stack) \in Nat \ {0} /\ Top = stack[Len(stack)]
         /\ Top \in Frame /\ Top.type \in Types /\ Top.dep \in Nat \ {0}
         /\ Below \in Seq(Frame) /\ Len(Below) = Len(stack) - 1
         /\ \A i \in 1..Len(stack) - 1 : Below[i] = stack[i]
         /\ Advanced \in Seq(Frame) /\ Len(Advanced) = Len(stack)
         /\ \A i \in 1..Len(stack) - 1 : Advanced[i] = stack[i]
         /\ Advanced[Len(stack)] = [type |-> Top.type, dep |-> Top.dep + 1]
         /\ \A i \in 1..Len(stack) : Advanced[i].type = stack[i].type
<1>1. Len(stack) \in Nat \ {0} /\ \A i \in 1..Len(stack) : stack[i] \in Frame
  OBVIOUS
<1>2. Top = stack[Len(stack)] /\ Top \in Frame
  BY <1>1 DEF Top
<1>3. Top.type \in Types /\ Top.dep \in Nat \ {0}
  BY <1>2, Zenon DEF Frame
<1>4. /\ Below \in Seq(Frame) /\ Len(Below) = Len(stack) - 1
      /\ \A i \in 1..Len(stack) - 1 : Below[i] = stack[i]
  BY <1>1, Shorter, Zenon DEF Below
<1> DEFINE f == [Top EXCEPT !.dep = @ + 1]
<1>5. f = [type |-> Top.type, dep |-> Top.dep + 1] /\ f \in Frame
  BY <1>2, <1>3 DEF Frame
<1>6. Advanced = Append(Below, f)
  BY Zenon DEF Advanced
<1> HIDE DEF f
<1>7. /\ Advanced \in Seq(Frame) /\ Len(Advanced) = Len(stack)
      /\ \A i \in 1..Len(stack) - 1 : Advanced[i] = stack[i]
      /\ Advanced[Len(stack)] = f
  BY <1>1, <1>4, <1>5, <1>6
<1>8. \A i \in 1..Len(stack) : Advanced[i].type = stack[i].type
  <2> SUFFICES ASSUME NEW i \in 1..Len(stack) PROVE Advanced[i].type = stack[i].type
    BY Zenon
  <2>1. CASE i = Len(stack)
    BY <2>1, <1>2, <1>5, <1>7
  <2>2. CASE i # Len(stack)
    BY <2>2, <1>1, <1>7
  <2> QED
    BY <2>1, <2>2, Zenon
<1>9. QED
  BY <1>1, <1>2, <1>3, <1>4, <1>5, <1>7, <1>8, Zenon

\* The two early returns of DoRecursive, and its start.
Returns(type, frames) ==
  managed[type] # "unset" /\ managed' = managed /\ stack' = frames
Settles(type, frames) ==
  /\ managed[type] = "unset" /\ location[type] \in inserted
  /\ managed' = [managed EXCEPT ![type] = "true"] /\ stack' = frames
Starts(type, frames) ==
  /\ managed[type] = "unset" /\ location[type] \notin inserted
  /\ managed' = [managed EXCEPT ![type] = "false"]
  /\ stack' = Append(frames, [type |-> type, dep |-> 1])

LEMMA CallCases ==
  ASSUME NEW type, NEW frames, Call(type, FALSE, frames)
  PROVE  Returns(type, frames) \/ Settles(type, frames) \/ Starts(type, frames)
<1>1. CASE managed[type] # "unset"
  BY <1>1, Zenon DEF Call, Returns
<1>2. CASE managed[type] = "unset" /\ location[type] \in inserted
  BY <1>2, Zenon DEF Call, Settles
<1>3. CASE managed[type] = "unset" /\ location[type] \notin inserted
  BY <1>3, Zenon DEF Call, Starts
<1>4. QED
  BY <1>1, <1>2, <1>3, Zenon

\* What a call leaves: the marks have their type, and one activation more at most.
LEMMA CallType ==
  ASSUME NEW type \in Types, NEW frames \in Seq(Frame), Call(type, FALSE, frames),
         managed \in [Types -> {"unset", "false", "true"}]
  PROVE  /\ managed' \in [Types -> {"unset", "false", "true"}]
         /\ managed'[type] # "unset"
         /\ \A t \in Types : managed[t] # "unset" => managed'[t] = managed[t]
         /\ stack' \in Seq(Frame)
         /\ \/ stack' = frames
            \/ /\ Len(stack') = Len(frames) + 1
               /\ \A i \in 1..Len(frames) : stack'[i] = frames[i]
               /\ stack'[Len(frames) + 1] = [type |-> type, dep |-> 1]
<1> DEFINE f == [type |-> type, dep |-> 1]
<1>1. f \in Frame
  BY DEF Frame
<1>2. Returns(type, frames) \/ Settles(type, frames) \/ Starts(type, frames)
  BY CallCases, Zenon
<1>3. CASE Returns(type, frames)
  BY <1>3, Zenon DEF Returns
<1>4. CASE Settles(type, frames)
  BY <1>4, Zenon DEF Settles
<1>5. CASE Starts(type, frames)
  <2> HIDE DEF f
  <2>1. stack' = Append(frames, f) /\ managed' = [managed EXCEPT ![type] = "false"]
        /\ managed[type] = "unset"
    BY <1>5, Zenon DEF Starts, f
  <2>2. /\ stack' \in Seq(Frame) /\ Len(stack') = Len(frames) + 1
        /\ \A i \in 1..Len(frames) : stack'[i] = frames[i]
        /\ stack'[Len(frames) + 1] = f
    BY <2>1, <1>1
  <2>3. QED
    BY <2>1, <2>2, Zenon DEF f
<1>6. QED
  BY <1>2, <1>3, <1>4, <1>5, Zenon

----------------------------------------------------------------------------
(* Every chunk once.                                                       *)

LEMMA LostInit == ReorderInit => LostInv
<1> SUFFICES ASSUME ReorderInit PROVE LostInv
  BY Zenon
<1> USE DEF ReorderInit
<1>1. Len(source) \in Nat
  BY SourceType, Zenon
<1>2. ReorderType
  BY <1>1 DEF ReorderType, Phases
<1>3. Loops
  BY <1>1 DEF Loops
<1>4. Found
  BY <1>1 DEF Found
<1>5. Once
  BY DEF Once
<1>6. QED
  BY <1>2, <1>3, <1>4, <1>5, Zenon DEF LostInv

\* A chunk that the result does not have goes to its end.
LEMMA OneMore ==
  ASSUME NEW n \in Nat, NEW r \in Seq(1..n), NEW k \in 1..n,
         \A i, j \in 1..Len(r) : r[i] = r[j] => i = j,
         k \notin {r[i] : i \in 1..Len(r)}
  PROVE  LET q == Append(r, k) IN
         /\ q \in Seq(1..n) /\ Len(q) = Len(r) + 1 /\ q[Len(r) + 1] = k
         /\ \A i \in 1..Len(r) : q[i] = r[i]
         /\ \A i, j \in 1..Len(q) : q[i] = q[j] => i = j
         /\ {q[i] : i \in 1..Len(q)} = {r[i] : i \in 1..Len(r)} \cup {k}
<1> DEFINE q == Append(r, k)
<1>1. /\ q \in Seq(1..n) /\ Len(q) = Len(r) + 1 /\ q[Len(r) + 1] = k
      /\ \A i \in 1..Len(r) : q[i] = r[i]
  OBVIOUS
<1> HIDE DEF q
<1>2. \A i \in 1..Len(q) : i \in 1..Len(r) \/ i = Len(r) + 1
  BY <1>1
<1>3. \A i \in 1..Len(r) : r[i] # k
  BY Zenon
<1>4. \A i, j \in 1..Len(q) : q[i] = q[j] => i = j
  BY <1>1, <1>2, <1>3, Zenon
<1>5. 1..Len(q) = 1..Len(r) \cup {Len(r) + 1}
  BY <1>1
<1>6. {q[i] : i \in 1..Len(q)} = {r[i] : i \in 1..Len(r)} \cup {k}
  <2> SUFFICES ASSUME NEW v
               PROVE  v \in {q[i] : i \in 1..Len(q)} <=> v \in {r[i] : i \in 1..Len(r)} \cup {k}
    BY Zenon
  <2>1. ASSUME NEW i \in 1..Len(q), v = q[i] PROVE (\E j \in 1..Len(r) : v = r[j]) \/ v = k
    BY <1>1, <1>2, <2>1, Zenon
  <2>2. ASSUME NEW i \in 1..Len(r), v = r[i] PROVE \E j \in 1..Len(q) : v = q[j]
    BY <1>1, <1>5, <2>2, Zenon
  <2>3. ASSUME v = k PROVE \E j \in 1..Len(q) : v = q[j]
    BY <1>1, <1>5, <2>3, Zenon
  <2>4. QED
    BY <2>1, <2>2, <2>3, Zenon
<1>7. QED
  BY <1>1, <1>4, <1>6, Zenon DEF q

\* A name that New gives a kind.
LEMMA NewName ==
  ASSUME NEW k \in TypeKinds, NewNames(k) # {}
  PROVE  LET x == CHOOSE x \in Names : x \in NewNames(k) IN
         x \in Names /\ x \in NewNames(k) /\ Declares(source, cur, <<k, x>>) /\ ~Known(<<k, x>>)
<1> DEFINE x == CHOOSE x \in Names : x \in NewNames(k)
<1>1. \E y \in Names : y \in NewNames(k)
  BY Zenon DEF NewNames
<1>2. x \in Names /\ x \in NewNames(k)
  BY <1>1, Zenon
<1> HIDE DEF x
<1>3. Declares(source, cur, <<k, x>>) /\ ~Known(<<k, x>>)
  BY <1>2, Zenon DEF NewNames
<1>4. QED
  BY <1>2, <1>3, Zenon DEF x

\* The entries after a chunk's types are entered.
LEMMA DeclareEntries ==
  ASSUME ReorderType, Declare, NEW k \in TypeKinds
  PROVE  \/ NewNames(k) = {} /\ entries'[k] = entries[k]
         \/ \E x \in Names :
              /\ Declares(source, cur, <<k, x>>) /\ ~Known(<<k, x>>)
              /\ entries'[k] = Append(entries[k], x)
<1>1. entries'[k] = IF NewNames(k) = {} THEN entries[k]
                    ELSE Append(entries[k], CHOOSE x \in Names : x \in NewNames(k))
  BY Zenon DEF Declare
<1>2. CASE NewNames(k) = {}
  BY <1>1, <1>2, Zenon
<1>3. CASE NewNames(k) # {}
  BY <1>1, <1>3, NewName, Zenon
<1>4. QED
  BY <1>2, <1>3, Zenon

LEMMA LostDeclare ==
  ASSUME LostInv, Declare
  PROVE  LostInv'
<1> USE DEF LostInv
<1>0. Len(source) \in Nat /\ cur \in 1..Len(source) /\ cur # 0
  BY SourceType DEF ReorderType, Declare
<1>1. /\ source' = source /\ phase' = phase /\ cur' = cur /\ field' = 1 /\ list' = list
      /\ managed' = managed /\ inserted' = inserted /\ result' = result /\ stack' = stack
      /\ phase = "build"
  BY Zenon DEF Declare, sorting
<1>2. location' \in [Types -> Nat]
  BY <1>0, Zenon DEF ReorderType, Declare
<1>3. \A t \in Types : location'[t] = IF Declares(source, cur, t) THEN cur ELSE location[t]
  BY Zenon DEF Declare
<1>4. \A k \in TypeKinds : entries'[k] \in Seq(Names)
  <2> SUFFICES ASSUME NEW k \in TypeKinds PROVE entries'[k] \in Seq(Names)
    BY Zenon
  <2>1. entries[k] \in Seq(Names)
    BY Zenon DEF ReorderType
  <2>2. CASE entries'[k] = entries[k]
    BY <2>1, <2>2, Zenon
  <2>3. CASE \E x \in Names : entries'[k] = Append(entries[k], x)
    BY <2>1, <2>3
  <2>4. QED
    BY <2>2, <2>3, DeclareEntries, Zenon
<1>5. entries' \in [TypeKinds -> Seq(Names)]
  <2> DEFINE g(k) == IF NewNames(k) = {} THEN entries[k]
                     ELSE Append(entries[k], CHOOSE x \in Names : x \in NewNames(k))
  <2>1. entries' = [k \in TypeKinds |-> g(k)]
    BY Zenon DEF Declare
  <2> HIDE DEF g
  <2>2. \A k \in TypeKinds : g(k) \in Seq(Names)
    BY <2>1, <1>4, Zenon
  <2>3. QED
    BY <2>1, <2>2, Zenon
<1>6. ReorderType'
  BY <1>1, <1>2, <1>5, Zenon DEF ReorderType
<1>7. Loops'
  BY <1>0, <1>1 DEF Loops
<1>8. \A t \in Types : location[t] # 0 => location'[t] # 0
  BY <1>0, <1>3, Zenon
<1>9. Found'
  <2>1. \A t \in Types : location'[t] <= Len(source)
    BY <1>0, <1>3 DEF Found
  <2>2. ASSUME NEW k \in TypeKinds, NEW e \in 1..Len(entries'[k])
        PROVE  location'[<<k, entries'[k][e]>>] # 0
    <3>1. entries[k] \in Seq(Names) /\ Len(entries[k]) \in Nat
      BY DEF ReorderType
    <3>2. ASSUME e \in 1..Len(entries[k]), entries'[k][e] = entries[k][e]
          PROVE  location'[<<k, entries'[k][e]>>] # 0
      <4>1. location[<<k, entries[k][e]>>] # 0
        BY <3>2, Zenon DEF Found
      <4>2. entries[k][e] \in Names
        BY <3>1, <3>2
      <4>3. <<k, entries[k][e]>> \in Types
        BY <4>2, TypePair, Zenon
      <4>4. QED
        BY <4>1, <4>3, <3>2, <1>8, Zenon
    <3>3. CASE entries'[k] = entries[k]
      BY <3>2, <3>3, Zenon
    <3>4. ASSUME NEW x \in Names, Declares(source, cur, <<k, x>>),
                 entries'[k] = Append(entries[k], x)
          PROVE  location'[<<k, entries'[k][e]>>] # 0
      <4>1. CASE e \in 1..Len(entries[k])
        BY <3>1, <3>2, <3>4, <4>1
      <4>2. CASE e \notin 1..Len(entries[k])
        <5>1. entries'[k][e] = x
          BY <3>1, <3>4, <4>2
        <5>2. <<k, x>> \in Types
          BY TypePair, Zenon
        <5>3. QED
          BY <5>1, <5>2, <3>4, <1>3, <1>0, Zenon
      <4>3. QED
        BY <4>1, <4>2, Zenon
    <3>5. QED
      BY <3>3, <3>4, DeclareEntries, Zenon
  <2>3. \A i \in 1..Len(stack) : location'[stack[i].type] # 0
    <3>1. stack = <<>>
      BY <1>1, Zenon DEF Loops, TypeKinds
    <3>2. QED
      BY <3>1
  <2>4. QED
    BY <2>1, <2>2, <2>3, <1>1, Zenon DEF Found
<1>10. Once'
  BY <1>1, Zenon DEF Once
<1>11. QED
  BY <1>6, <1>7, <1>9, <1>10, Zenon

\* The other steps of the build leave all but the loops and the lists alone.
LEMMA LostBuild ==
  ASSUME LostInv, InsertDep \/ ChunkDone \/ BuildDone
  PROVE  LostInv'
<1> USE DEF LostInv
<1>0. Len(source) \in Nat
  BY SourceType, Zenon DEF ReorderType
<1>1. /\ source' = source /\ entries' = entries /\ location' = location
      /\ managed' = managed /\ inserted' = inserted /\ result' = result /\ stack' = stack
      /\ phase = "build" /\ phase' \in {"build", "struct"}
  BY Zenon DEF InsertDep, ChunkDone, BuildDone, sorting, graph
<1>2. cur' \in Nat \ {0} /\ field' \in Nat
  BY DEF InsertDep, ChunkDone, BuildDone, ReorderType
<1>3. list' \in [Types -> Seq(Deps)]
  <2>1. CASE InsertDep
    <3>1. cur \in 1..Len(source) /\ field \in 1..Len(source[cur].deps)
      BY <2>1 DEF InsertDep, ReorderType, Loops
    <3>2. source[cur].deps[field] \in Deps
      BY <3>1, SourceType, Zenon DEF ReorderType
    <3> DEFINE dep == source[cur].deps[field]
    <3>3. \A t \in Types : list[t] \in Seq(Deps) /\ Append(list[t], dep) \in Seq(Deps)
      BY <3>2 DEF ReorderType
    <3>4. PICK c : list' = [t \in Types |->
              IF Declares(source, cur, t) /\ ~c THEN Append(list[t], dep) ELSE list[t]]
      BY <2>1, Zenon DEF InsertDep
    <3> HIDE DEF dep
    <3>5. QED
      BY <3>3, <3>4, Zenon
  <2>2. CASE ChunkDone \/ BuildDone
    BY <2>2, Zenon DEF ChunkDone, BuildDone, graph, ReorderType
  <2>3. QED
    BY <2>1, <2>2, Zenon
<1>4. ReorderType'
  BY <1>1, <1>2, <1>3, Zenon DEF ReorderType, Phases
<1>5. Loops'
  <2>1. stack = <<>>
    BY <1>1, Zenon DEF Loops, TypeKinds
  <2>2. CASE InsertDep
    BY <2>1, <2>2, <1>1, Zenon DEF Loops, InsertDep
  <2>3. CASE ChunkDone
    BY <2>1, <2>3, <1>0, <1>1, <1>2 DEF Loops, ChunkDone, ReorderType
  <2>4. CASE BuildDone
    BY <2>1, <2>4, <1>1, Zenon DEF Loops, BuildDone
  <2>5. QED
    BY <2>2, <2>3, <2>4, Zenon
<1>6. Found'
  BY <1>1, Zenon DEF Found
<1>7. Once'
  BY <1>1, Zenon DEF Once
<1>8. QED
  BY <1>4, <1>5, <1>6, <1>7, Zenon

\* A call of DoRecursive, from a loop over the entries or from another call.
LEMMA LostCall ==
  ASSUME LostInv, NEW type \in Types, location[type] # 0,
         NEW frames \in Seq(Frame), Call(type, FALSE, frames),
         \A i \in 1..Len(frames) : location[frames[i].type] # 0,
         phase \in TypeKinds, phase' = phase, source' = source, field' = field,
         cur' \in Nat \ {0}, UNCHANGED <<graph, inserted, result>>
  PROVE  LostInv'
<1> USE DEF LostInv
<1>1. entries' = entries /\ location' = location /\ list' = list
      /\ inserted' = inserted /\ result' = result
  BY Zenon DEF graph
<1>2. /\ managed' \in [Types -> {"unset", "false", "true"}] /\ stack' \in Seq(Frame)
      /\ \/ stack' = frames
         \/ /\ Len(stack') = Len(frames) + 1
            /\ \A i \in 1..Len(frames) : stack'[i] = frames[i]
            /\ stack'[Len(frames) + 1] = [type |-> type, dep |-> 1]
  BY CallType, Zenon DEF ReorderType
<1>3. ReorderType'
  BY <1>1, <1>2, Zenon DEF ReorderType
<1>4. phase \notin {"build", "rest", "done"}
  BY Zenon DEF TypeKinds
<1>5. Loops'
  BY <1>4, Zenon DEF Loops
<1>6. \A i \in 1..Len(stack') : location[stack'[i].type] # 0
  <2>1. CASE stack' = frames
    BY <2>1, Zenon
  <2>2. CASE stack' # frames
    <3> SUFFICES ASSUME NEW i \in 1..Len(stack') PROVE location[stack'[i].type] # 0
      BY Zenon
    <3>1. Len(frames) \in Nat
      OBVIOUS
    <3>2. CASE i \in 1..Len(frames)
      BY <3>2, <2>2, <1>2, Zenon
    <3>3. CASE i = Len(frames) + 1
      BY <3>3, <2>2, <1>2
    <3>4. QED
      BY <3>1, <3>2, <3>3, <2>2, <1>2
  <2>3. QED
    BY <2>1, <2>2, Zenon
<1>7. Found'
  BY <1>1, <1>6, Zenon DEF Found
<1>8. Once'
  BY <1>1, <1>4, Zenon DEF Once
<1>9. QED
  BY <1>3, <1>5, <1>7, <1>8, Zenon

LEMMA LostRecurse ==
  ASSUME LostInv, Recurse \/ Ignore
  PROVE  LostInv'
<1> USE DEF LostInv
<1>1. stack \in Seq(Frame) /\ stack # <<>> /\ phase \in TypeKinds /\ Len(stack) \in Nat
  BY DEF Recurse, Ignore, ReorderType, Loops
<1>2. /\ phase' = phase /\ source' = source /\ field' = field /\ cur' = cur
      /\ UNCHANGED <<graph, inserted, result>>
  BY Zenon DEF Recurse, Ignore
<1>3. Advanced \in Seq(Frame) /\ \A i \in 1..Len(Advanced) : location[Advanced[i].type] # 0
  BY <1>1, Frames, Zenon DEF Found
<1>4. CASE Recurse
  <2> DEFINE dep == list[Top.type][Top.dep]
  <2>1. Top.type \in Types /\ Top.dep \in 1..Len(list[Top.type])
    BY <1>1, <1>4, Frames DEF Recurse
  <2>2. dep \in Deps
    BY <2>1 DEF ReorderType
  <2>3. dep.type \in Types
    BY <2>2, Zenon DEF Deps
  <2>4. location[dep.type] # 0 /\ Call(dep.type, FALSE, Advanced)
    <3>1. Known(dep.type) /\ Call(dep.type, Forced(dep), Advanced)
      BY <1>4, Zenon DEF Recurse
    <3>2. Forced(dep) = FALSE
      BY Zenon DEF Forced
    <3>3. Call(dep.type, FALSE, Advanced)
      BY <3>1, <3>2, Zenon
    <3>4. QED
      BY <3>1, <3>3, Zenon DEF Known
  <2>5. cur' \in Nat \ {0}
    BY <1>2, Zenon DEF ReorderType
  <2>6. QED
    BY <1>1, <1>2, <1>3, <2>3, <2>4, <2>5, LostCall, Zenon
<1>5. CASE Ignore
  <2>1. stack' = Advanced /\ managed' = managed
    BY <1>5, Zenon DEF Ignore
  <2>2. ReorderType'
    BY <1>2, <1>3, <2>1, Zenon DEF ReorderType, graph
  <2>3. phase \notin {"build", "rest", "done"}
    BY <1>1, Zenon DEF TypeKinds
  <2>4. Loops'
    BY <2>3, <1>1, <1>2, Zenon DEF Loops
  <2>5. Found'
    BY <1>2, <1>3, <2>1, Zenon DEF Found, graph
  <2>6. Once'
    BY <1>2, <2>3, Zenon DEF Once
  <2>7. QED
    BY <2>2, <2>4, <2>5, <2>6, Zenon
<1>6. QED
  BY <1>4, <1>5, Zenon

LEMMA LostInsert ==
  ASSUME LostInv, InsertType
  PROVE  LostInv'
<1> USE DEF LostInv
<1>0. Len(source) \in Nat
  BY SourceType, Zenon DEF ReorderType
<1>1. stack \in Seq(Frame) /\ stack # <<>> /\ phase \in TypeKinds
  BY Zenon DEF InsertType, ReorderType, Loops
<1>2. /\ phase' = phase /\ source' = source /\ field' = field /\ cur' = cur
      /\ entries' = entries /\ location' = location /\ list' = list /\ stack' = Below
  BY Zenon DEF InsertType, graph
<1>3. /\ Below \in Seq(Frame) /\ Top.type \in Types
      /\ \A i \in 1..Len(Below) : i \in 1..Len(stack) /\ Below[i] = stack[i]
      /\ location[Top.type] \in 1..Len(source)
  <2>1. Len(stack) \in Nat \ {0} /\ Top = stack[Len(stack)]
    BY <1>1, Frames, Zenon
  <2>2. location[Top.type] # 0
    BY <2>1 DEF Found
  <2>3. QED
    BY <1>1, <2>1, <2>2, Frames DEF Found, ReorderType
<1>4. phase \notin {"build", "rest", "done"}
  BY <1>1, Zenon DEF TypeKinds
<1>5. /\ managed' \in [Types -> {"unset", "false", "true"}]
      /\ inserted' \subseteq 1..Len(source) /\ result' \in Seq(1..Len(source))
      /\ \A i, j \in 1..Len(result') : result'[i] = result'[j] => i = j
      /\ inserted' = {result'[i] : i \in 1..Len(result')}
  <2>1. CASE location[Top.type] \in inserted
    <3>1. result' = result /\ inserted' = inserted /\ managed' = managed
      BY <2>1, Zenon DEF InsertType
    <3>2. QED
      BY <3>1 DEF ReorderType, Once
  <2>2. CASE location[Top.type] \notin inserted
    <3>1. /\ result' = Append(result, location[Top.type])
          /\ inserted' = inserted \cup {location[Top.type]}
          /\ managed' = [managed EXCEPT ![Top.type] = "true"]
      BY <2>2, Zenon DEF InsertType
    <3>2. /\ result \in Seq(1..Len(source)) /\ inserted \subseteq 1..Len(source)
          /\ managed \in [Types -> {"unset", "false", "true"}]
      BY Zenon DEF ReorderType
    <3>3. /\ \A i, j \in 1..Len(result) : result[i] = result[j] => i = j
          /\ inserted = {result[i] : i \in 1..Len(result)}
      BY Zenon DEF Once
    <3>4. /\ result' \in Seq(1..Len(source))
          /\ \A i, j \in 1..Len(result') : result'[i] = result'[j] => i = j
          /\ inserted' = {result'[i] : i \in 1..Len(result')}
      BY <3>1, <3>2, <3>3, <2>2, <1>0, <1>3, OneMore
    <3>5. QED
      BY <3>1, <3>2, <3>4, <1>3, Zenon
  <2>3. QED
    BY <2>1, <2>2, Zenon
<1>6. ReorderType'
  BY <1>2, <1>3, <1>5, Zenon DEF ReorderType
<1>7. Loops'
  BY <1>1, <1>2, <1>4, Zenon DEF Loops
<1>8. Found'
  BY <1>2, <1>3, Zenon DEF Found
<1>9. Once'
  BY <1>2, <1>4, <1>5, Zenon DEF Once
<1>10. QED
  BY <1>6, <1>7, <1>8, <1>9

LEMMA LostLoops ==
  ASSUME LostInv, Iterate \/ NextKind \/ AppendRest \/ Finish
  PROVE  LostInv'
<1> USE DEF LostInv
<1>0. Len(source) \in Nat /\ cur \in Nat \ {0}
  BY SourceType, Zenon DEF ReorderType
<1>1. CASE Iterate
  <2>1. /\ phase \in TypeKinds /\ cur \in 1..Len(entries[phase])
        /\ phase' = phase /\ source' = source /\ field' = field /\ cur' = cur + 1
        /\ UNCHANGED <<graph, inserted, result>>
    BY <1>0, <1>1 DEF Iterate
  <2> DEFINE type == <<phase, entries[phase][cur]>>
  <2>2. entries[phase][cur] \in Names
    BY <2>1 DEF ReorderType
  <2>3. type \in Types
    BY <2>1, <2>2, TypePair, Zenon
  <2>4. location[type] # 0
    BY <2>1, Zenon DEF Found
  <2>5. Call(type, FALSE, <<>>)
    BY <1>1, Zenon DEF Iterate
  <2>6. <<>> \in Seq(Frame) /\ \A i \in 1..Len(<<>>) : location[<<>>[i].type] # 0
    OBVIOUS
  <2>7. cur' \in Nat \ {0}
    BY <2>1, <1>0
  <2> HIDE DEF type
  <2>8. QED
    BY <2>1, <2>3, <2>4, <2>5, <2>6, <2>7, LostCall, Zenon
<1>2. CASE NextKind
  <2>1. /\ source' = source /\ field' = field /\ cur' = 1
        /\ entries' = entries /\ location' = location /\ list' = list /\ stack' = stack
        /\ managed' = managed /\ inserted' = inserted /\ result' = result
    BY <1>2, Zenon DEF NextKind, graph, sorting
  <2>2. stack = <<>> /\ phase' \in {"union", "typedef", "rest"}
    BY <1>2, Zenon DEF NextKind, TypeKinds
  <2>3. ReorderType'
    BY <2>1, <2>2 DEF ReorderType, Phases
  <2>4. Loops'
    BY <2>1, <2>2, Zenon DEF Loops
  <2>5. Found'
    BY <2>1, Zenon DEF Found
  <2>6. Once'
    BY <2>1, <2>2 DEF Once
  <2>7. QED
    BY <2>3, <2>4, <2>5, <2>6, Zenon
<1>3. CASE AppendRest
  <2>1. /\ source' = source /\ field' = field /\ cur' = cur + 1 /\ phase' = phase
        /\ entries' = entries /\ location' = location /\ list' = list /\ stack' = stack
        /\ managed' = managed /\ phase = "rest" /\ cur \in 1..Len(source)
    BY <1>0, <1>3 DEF AppendRest, graph
  <2>2. /\ inserted' \subseteq 1..Len(source) /\ result' \in Seq(1..Len(source))
        /\ \A i, j \in 1..Len(result') : result'[i] = result'[j] => i = j
        /\ inserted' = {result'[i] : i \in 1..Len(result')}
        /\ inserted' = inserted \cup {cur}
    <3>1. CASE cur \in inserted
      <4>1. result' = result /\ inserted' = inserted
        BY <1>3, <3>1, Zenon DEF AppendRest
      <4>2. QED
        BY <3>1, <4>1 DEF ReorderType, Once
    <3>2. CASE cur \notin inserted
      <4>1. result' = Append(result, cur) /\ inserted' = inserted \cup {cur}
        BY <1>3, <3>2, Zenon DEF AppendRest
      <4>2. result \in Seq(1..Len(source)) /\ inserted \subseteq 1..Len(source)
        BY Zenon DEF ReorderType
      <4>3. /\ \A i, j \in 1..Len(result) : result[i] = result[j] => i = j
            /\ inserted = {result[i] : i \in 1..Len(result)}
        BY Zenon DEF Once
      <4>4. /\ result' \in Seq(1..Len(source))
            /\ \A i, j \in 1..Len(result') : result'[i] = result'[j] => i = j
            /\ inserted' = {result'[i] : i \in 1..Len(result')}
        BY <4>1, <4>2, <4>3, <3>2, <1>0, <2>1, OneMore
      <4>5. QED
        BY <4>1, <4>2, <4>4, <2>1, Zenon
    <3>3. QED
      BY <3>1, <3>2, Zenon
  <2>3. ReorderType'
    BY <1>0, <2>1, <2>2 DEF ReorderType
  <2>4. Loops'
    BY <2>1, Zenon DEF Loops
  <2>5. Found'
    BY <2>1, Zenon DEF Found
  <2>6. 1..(cur' - 1) \subseteq inserted'
    <3>1. 1..(cur - 1) \subseteq inserted
      BY <2>1, Zenon DEF Once
    <3>2. \A k \in 1..(cur' - 1) : k \in 1..(cur - 1) \/ k = cur
      BY <1>0, <2>1
    <3>3. inserted' = inserted \cup {cur}
      BY <2>2, Zenon
    <3>4. QED
      BY <3>1, <3>2, <3>3, Zenon
  <2>7. Once'
    BY <2>1, <2>2, <2>6, Zenon DEF Once
  <2>8. QED
    BY <2>3, <2>4, <2>5, <2>7
<1>4. CASE Finish
  <2>1. /\ source' = source /\ field' = field /\ cur' = cur /\ phase' = "done"
        /\ entries' = entries /\ location' = location /\ list' = list /\ stack' = stack
        /\ managed' = managed /\ inserted' = inserted /\ result' = result
        /\ phase = "rest" /\ cur > Len(source)
    BY <1>4, Zenon DEF Finish, graph, sorting
  <2>2. inserted = 1..Len(source)
    <3>1. 1..(cur - 1) \subseteq inserted
      BY <2>1, Zenon DEF Once
    <3>2. \A k \in 1..Len(source) : k \in 1..(cur - 1)
      BY <1>0, <2>1
    <3>3. inserted \subseteq 1..Len(source)
      BY Zenon DEF ReorderType
    <3>4. QED
      BY <3>1, <3>2, <3>3, Zenon
  <2>3. stack = <<>>
    BY <2>1, Zenon DEF Loops, TypeKinds
  <2>4. ReorderType'
    BY <2>1, Zenon DEF ReorderType, Phases
  <2>5. Loops'
    BY <2>1, <2>3, Zenon DEF Loops
  <2>6. Found'
    BY <2>1, Zenon DEF Found
  <2>7. Once'
    BY <2>1, <2>2 DEF Once
  <2>8. QED
    BY <2>4, <2>5, <2>6, <2>7
<1>5. QED
  BY <1>1, <1>2, <1>3, <1>4, Zenon

LEMMA LostNext ==
  ASSUME LostInv, [ReorderNext]_reorderVars
  PROVE  LostInv'
<1>1. CASE UNCHANGED reorderVars
  <2>1. /\ source' = source /\ phase' = phase /\ cur' = cur /\ field' = field
        /\ entries' = entries /\ location' = location /\ list' = list /\ managed' = managed
        /\ inserted' = inserted /\ result' = result /\ stack' = stack
    BY <1>1, Zenon DEF reorderVars
  <2>2. QED
    BY <2>1 DEF LostInv, ReorderType, Loops, Found, Once
<1>2. CASE Declare
  BY <1>2, LostDeclare, Zenon
<1>3. CASE InsertDep \/ ChunkDone \/ BuildDone
  BY <1>3, LostBuild, Zenon
<1>4. CASE Recurse \/ Ignore
  BY <1>4, LostRecurse, Zenon
<1>5. CASE InsertType
  BY <1>5, LostInsert
<1>6. CASE Iterate \/ NextKind \/ AppendRest \/ Finish
  BY <1>6, LostLoops, Zenon
<1>7. CASE Reordered
  BY <1>1, <1>7, Zenon DEF Reordered
<1>8. QED
  BY <1>1, <1>2, <1>3, <1>4, <1>5, <1>6, <1>7, Zenon DEF ReorderNext

\* For every block, circular types included: rtxResolve_BlockReordering gives back
\* every chunk exactly once.
THEOREM ChunksKept == ReorderSpec => []NothingLost
<1>1. LostInv => NothingLost
  BY Zenon DEF LostInv, Once, NothingLost
<1>2. QED
  BY <1>1, LostInit, LostNext, PTL DEF ReorderSpec

----------------------------------------------------------------------------
(* The entries and the lists of dependencies.                              *)

\* A chunk declares one type of a kind.
LEMMA OneOfAKind ==
  ASSUME NEW s \in Sources, NEW c \in 1..Len(s), NEW k \in TypeKinds,
         NEW x \in Names, NEW y \in Names,
         Declares(s, c, <<k, x>>), Declares(s, c, <<k, y>>)
  PROVE  x = y
<1>1. PICK m \in 1..Len(s[c].names) : s[c].names[m] = <<k, x>>
  BY Zenon DEF Declares
<1>2. PICK n \in 1..Len(s[c].names) : s[c].names[n] = <<k, y>>
  BY Zenon DEF Declares
<1>3. s[c].names[m][1] = k /\ s[c].names[n][1] = k
  BY <1>1, <1>2
<1>4. m = n
  BY <1>3, SourcesAssumption, Zenon
<1>5. <<k, x>> = <<k, y>>
  BY <1>1, <1>2, <1>4, Zenon
<1>6. QED
  BY <1>5, Zenon

\* The steps that make and visit the lists, and the others, leave what is entered.
LEMMA EnteredSame ==
  ASSUME LostInv, [ReorderNext]_reorderVars, ~Declare, NEW k \in 1..Len(source)
  PROVE  /\ source' = source /\ entries' = entries /\ location' = location
         /\ Entered(k)' <=> Entered(k)
         /\ ~InsertDep => list' = list
<1> USE DEF LostInv
<1>0. Len(source) \in Nat /\ cur \in Nat \ {0} /\ field \in Nat
  BY SourceType, Zenon DEF ReorderType
<1>1. CASE InsertDep
  <2>1. /\ source' = source /\ entries' = entries /\ location' = location
        /\ phase' = phase /\ cur' = cur /\ field' = field + 1 /\ field > 0
    BY <1>1, Zenon DEF InsertDep
  <2>2. Entered(k)' <=> Entered(k)
    BY <2>1, <1>0 DEF Entered
  <2>3. QED
    BY <2>1, <2>2, <1>1, Zenon
<1>2. CASE ChunkDone
  <2>1. /\ source' = source /\ entries' = entries /\ location' = location /\ list' = list
        /\ phase' = phase /\ cur' = cur + 1 /\ field' = 0 /\ field > 0
    BY <1>2, Zenon DEF ChunkDone, graph
  <2>2. Entered(k)' <=> Entered(k)
    BY <2>1, <1>0 DEF Entered
  <2>3. QED
    BY <2>1, <2>2, Zenon
<1>3. CASE BuildDone
  <2>1. /\ source' = source /\ entries' = entries /\ location' = location /\ list' = list
        /\ phase' = "struct" /\ cur > Len(source)
    BY <1>3, Zenon DEF BuildDone, graph
  <2>2. Entered(k)' <=> Entered(k)
    BY <2>1, <1>0 DEF Entered
  <2>3. QED
    BY <2>1, <2>2, Zenon
<1>4. CASE UNCHANGED reorderVars
  BY <1>4, Zenon DEF reorderVars, Entered
<1>5. CASE Recurse \/ Ignore \/ InsertType \/ Iterate \/ NextKind \/ AppendRest \/ Finish
  <2>1. source' = source /\ entries' = entries /\ location' = location /\ list' = list
    BY <1>5, Zenon DEF Recurse, Ignore, InsertType, Iterate, NextKind, AppendRest, Finish, graph
  <2>2. phase # "build"
    BY <1>5, Zenon DEF Recurse, Ignore, InsertType, Iterate, NextKind, AppendRest, Finish,
                Loops, TypeKinds
  <2>3. phase' # "build"
    <3>1. CASE NextKind
      BY <3>1, Zenon DEF NextKind, TypeKinds
    <3>2. CASE ~NextKind
      BY <1>5, <2>2, <3>2, Zenon DEF Recurse, Ignore, InsertType, Iterate, AppendRest, Finish
    <3>3. QED
      BY <3>1, <3>2, Zenon
  <2>4. QED
    BY <2>1, <2>2, <2>3, Zenon DEF Entered
<1>6. QED
  BY <1>1, <1>2, <1>3, <1>4, <1>5, Zenon DEF ReorderNext, Reordered

LEMMA GraphNext ==
  ASSUME LostInv, GraphInv, [ReorderNext]_reorderVars
  PROVE  GraphInv'
<1>0. Len(source) \in Nat /\ cur \in Nat \ {0} /\ source \in Sources
  BY SourceType, Zenon DEF LostInv, ReorderType
<1>1. CASE ~Declare
  <2>1. CASE Len(source) = 0
    <3>1. \A t \in Types : location[t] = 0
      BY <2>1 DEF LostInv, Found, ReorderType
    <3>2. source' = source /\ entries' = entries /\ location' = location
      BY <1>1, Zenon DEF ReorderNext, reorderVars, InsertDep, ChunkDone, BuildDone, Recurse, Ignore,
                  InsertType, Iterate, NextKind, AppendRest, Finish, Reordered, graph
    <3>3. QED
      BY <2>1, <3>1, <3>2 DEF GraphInv
  <2>2. CASE Len(source) # 0
    <3>1. source' = source /\ entries' = entries /\ location' = location
      BY <1>0, <1>1, <2>2, EnteredSame
    <3>2. \A k \in 1..Len(source) : Entered(k)' <=> Entered(k)
      BY <1>1, EnteredSame, Zenon
    <3>3. \A t \in Types : location[t] # 0 => location[t] \in 1..Len(source)
      BY <1>0 DEF LostInv, Found, ReorderType
    <3>4. ASSUME NEW t \in Types, location[t] # 0
          PROVE  /\ Declares(source, location[t], t) /\ Entered(location[t])'
                 /\ \E e \in 1..Len(entries[t[1]]) : entries[t[1]][e] = t[2]
      <4>1. PICK k \in 1..Len(source) : k = location[t]
        BY <3>3, <3>4, Zenon
      <4>2. Entered(k)' <=> Entered(k)
        BY <3>2, Zenon
      <4>3. Entered(location[t])
        BY <3>4, Zenon DEF GraphInv
      <4>4. Entered(location[t])'
        BY <4>1, <4>2, <4>3, <3>1, Zenon DEF Entered
      <4>5. QED
        BY <4>4, <3>4, Zenon DEF GraphInv
    <3>5. QED
      BY <3>1, <3>2, <3>4, Zenon DEF GraphInv, Entered
  <2>3. QED
    BY <2>1, <2>2, Zenon
<1>2. CASE Declare
  <2>1. /\ source' = source /\ phase' = phase /\ cur' = cur /\ field' = 1
        /\ phase = "build" /\ field = 0 /\ cur \in 1..Len(source)
    BY <1>0, <1>2 DEF Declare
  <2>2. \A t \in Types : location'[t] = IF Declares(source, cur, t) THEN cur ELSE location[t]
    BY <1>2, Zenon DEF Declare
  <2>3. ASSUME NEW t \in Types, NEW e \in 1..Len(entries[t[1]]), entries[t[1]][e] = t[2]
        PROVE  \E g \in 1..Len(entries'[t[1]]) : entries'[t[1]][g] = t[2]
    <3>1. t[1] \in TypeKinds
      BY TypePair, Zenon
    <3>2. entries[t[1]] \in Seq(Names)
      BY <3>1, Zenon DEF LostInv, ReorderType
    <3>3. CASE entries'[t[1]] = entries[t[1]]
      BY <2>3, <3>3, Zenon
    <3>4. CASE \E x \in Names : entries'[t[1]] = Append(entries[t[1]], x)
      BY <2>3, <3>2, <3>4
    <3>5. QED
      BY <1>2, <3>1, <3>3, <3>4, DeclareEntries, Zenon DEF LostInv
  <2>4. ASSUME NEW t \in Types, Declares(source, cur, t), location[t] = 0
        PROVE  \E g \in 1..Len(entries'[t[1]]) : entries'[t[1]][g] = t[2]
    <3>1. t[1] \in TypeKinds /\ t[2] \in Names /\ t = <<t[1], t[2]>>
      BY TypePair, Zenon
    <3>2. entries[t[1]] \in Seq(Names)
      BY <3>1, Zenon DEF LostInv, ReorderType
    <3>3. t[2] \in NewNames(t[1])
      BY <3>1, <2>4, Zenon DEF NewNames, Known
    <3>4. PICK x \in Names : /\ Declares(source, cur, <<t[1], x>>)
                             /\ entries'[t[1]] = Append(entries[t[1]], x)
      BY <1>2, <3>1, <3>3, DeclareEntries, Zenon DEF LostInv
    <3>5. x = t[2]
      BY <1>0, <2>1, <2>4, <3>1, <3>4, OneOfAKind, Zenon
    <3>6. QED
      BY <3>2, <3>4, <3>5
  <2>5. ASSUME NEW t \in Types, location'[t] # 0
        PROVE  /\ Declares(source, location'[t], t) /\ Entered(location[t])'
               /\ \E g \in 1..Len(entries'[t[1]]) : entries'[t[1]][g] = t[2]
    <3>1. CASE Declares(source, cur, t)
      <4>1. location'[t] = cur
        BY <2>2, <3>1, Zenon
      <4>2. Entered(location[t])'
        BY <4>1, <2>1 DEF Entered
      <4>3. CASE location[t] = 0
        BY <3>1, <4>1, <4>2, <4>3, <2>4, Zenon
      <4>4. CASE location[t] # 0
        BY <3>1, <4>1, <4>2, <4>4, <2>3, Zenon DEF GraphInv
      <4>5. QED
        BY <4>3, <4>4, Zenon
    <3>2. CASE ~Declares(source, cur, t)
      <4>1. location'[t] = location[t] /\ location[t] # 0
        BY <2>2, <2>5, <3>2, Zenon
      <4>2. Entered(location[t])
        BY <4>1, Zenon DEF GraphInv
      <4>3. Entered(location[t])'
        BY <4>1, <4>2, <2>1 DEF Entered
      <4>4. QED
        BY <4>1, <4>3, <2>3, Zenon DEF GraphInv
    <3>3. QED
      BY <3>1, <3>2, Zenon
  <2>6. ASSUME NEW t \in Types, NEW k \in 1..Len(source), Entered(k)', Declares(source, k, t)
        PROVE  location'[t] # 0
    <3>1. CASE k = cur
      BY <1>0, <2>2, <2>6, <3>1, Zenon
    <3>2. CASE k # cur
      <4>1. Entered(k)
        BY <2>1, <2>6, <3>2, Zenon DEF Entered
      <4>2. location[t] # 0
        BY <4>1, <2>6, Zenon DEF GraphInv
      <4>3. QED
        BY <4>2, <2>2, <1>0, Zenon
    <3>3. QED
      BY <3>1, <3>2, Zenon
  <2>7. QED
    BY <2>1, <2>5, <2>6, Zenon DEF GraphInv
<1>3. QED
  BY <1>1, <1>2, Zenon

\* In a block that declares a type once, its entry keeps its chunk.
LEMMA ChunkKept ==
  ASSUME LostInv, GraphInv, DeclaredOnce(source), NEW t \in Types, location[t] # 0,
         NEW k \in 1..Len(source), Declares(source, k, t)
  PROVE  location[t] = k
<1>1. location[t] \in 1..Len(source)
  BY SourceType DEF LostInv, Found, ReorderType
<1>2. Declares(source, location[t], t)
  BY Zenon DEF GraphInv
<1>3. QED
  BY <1>1, <1>2, Zenon DEF DeclaredOnce

LEMMA ListDeclare ==
  ASSUME LostInv, GraphInv, DeclaredOnce(source), Declare,
         Unlisted, Mentioned, Alike, AllListed
  PROVE  (Unlisted /\ Mentioned /\ Alike /\ AllListed)'
<1>0. Len(source) \in Nat /\ cur \in Nat \ {0} /\ source \in Sources
  BY SourceType, Zenon DEF LostInv, ReorderType
<1>1. /\ source' = source /\ phase' = phase /\ cur' = cur /\ field' = 1 /\ list' = list
      /\ phase = "build" /\ field = 0 /\ cur \in 1..Len(source)
  BY <1>0 DEF Declare
<1>2. \A t \in Types : location'[t] = IF Declares(source, cur, t) THEN cur ELSE location[t]
  BY Zenon DEF Declare
<1>3. \A t \in Types : location[t] # 0 => location'[t] = location[t]
  BY <1>1, <1>2, ChunkKept, Zenon
<1>4. Unlisted'
  BY <1>1, <1>3, Zenon DEF Unlisted
<1>5. Mentioned'
  <2>1. ASSUME NEW t \in Types, NEW e \in 1..Len(list[t])
        PROVE  location[t] # 0
    BY <2>1 DEF Unlisted
  <2> SUFFICES ASSUME NEW t \in Types, NEW e \in 1..Len(list[t])
               PROVE  \E d \in 1..Len(source[location'[t]].deps) :
                        source[location'[t]].deps[d].type = list[t][e].type
    BY <1>1, Zenon DEF Mentioned
  <2>2. location'[t] = location[t]
    BY <2>1, <1>3, Zenon
  <2>3. PICK d \in 1..Len(source[location[t]].deps) :
          source[location[t]].deps[d].type = list[t][e].type
    BY Zenon DEF Mentioned
  <2>4. QED
    BY <2>2, <2>3, Zenon
<1>6. Alike'
  BY <1>1, Zenon DEF Alike
<1>7. ASSUME NEW k \in 1..Len(source), NEW d \in 1..Len(source[k].deps), Visited(k, d)'
      PROVE  Visited(k, d)
  BY <1>0, <1>1, <1>7, SourceType DEF Visited
<1>8. AllListed'
  BY <1>1, <1>7 DEF AllListed
<1>9. QED
  BY <1>4, <1>5, <1>6, <1>8, Zenon

\* A dependency that is appended to a list, or that was there.
LEMMA Appended ==
  ASSUME NEW q \in Seq(Deps), NEW dep \in Deps
  PROVE  /\ Len(Append(q, dep)) = Len(q) + 1 /\ Len(q) \in Nat
         /\ Append(q, dep)[Len(q) + 1] = dep
         /\ \A e \in 1..Len(q) : e \in 1..Len(Append(q, dep)) /\ Append(q, dep)[e] = q[e]
         /\ \A e \in 1..Len(Append(q, dep)) : e \in 1..Len(q) \/ Append(q, dep)[e] = dep
  OBVIOUS

LEMMA ListInsertDep ==
  ASSUME LostInv, GraphInv, DeclaredOnce(source), InsertDep,
         Unlisted, Mentioned, Alike, AllListed
  PROVE  (Unlisted /\ Mentioned /\ Alike /\ AllListed)'
<1>0. Len(source) \in Nat /\ cur \in Nat \ {0} /\ field \in Nat /\ source \in Sources
  BY SourceType, Zenon DEF LostInv, ReorderType
<1>1. /\ source' = source /\ phase' = phase /\ cur' = cur /\ field' = field + 1
      /\ location' = location
      /\ phase = "build" /\ field > 0 /\ field <= Len(source[cur].deps)
  BY Zenon DEF InsertDep
<1>2. cur \in 1..Len(source)
  BY <1>0, <1>1 DEF LostInv, Loops
<1> DEFINE names == source[cur].names
           dep == source[cur].deps[field]
           Listed == /\ names # <<>>
                     /\ \E e \in 1..Len(list[names[1]]) : list[names[1]][e].type = dep.type
<1>3. /\ field \in 1..Len(source[cur].deps) /\ dep \in Deps
      /\ names \in Seq(Types) /\ Len(names) \in Nat
      /\ \A n \in 1..Len(names) : names[n] \in Types
  BY <1>0, <1>1, <1>2, SourceType
<1>4. \A t \in Types :
        list'[t] = IF Declares(source, cur, t) /\ ~Listed THEN Append(list[t], dep) ELSE list[t]
  BY Zenon DEF InsertDep
<1>5. \A t \in Types : Declares(source, cur, t) => location[t] = cur
  <2> SUFFICES ASSUME NEW t \in Types, Declares(source, cur, t) PROVE location[t] = cur
    BY Zenon
  <2>1. Entered(cur)
    BY <1>1, Zenon DEF Entered
  <2>2. location[t] # 0
    BY <2>1, <1>2, Zenon DEF GraphInv
  <2>3. QED
    BY <2>2, <1>2, ChunkKept, Zenon
<1>6. \A t \in Types : list[t] \in Seq(Deps)
  BY Zenon DEF LostInv, ReorderType
<1>7. ASSUME NEW t \in Types, Declares(source, cur, t)
      PROVE  Listed => \E e \in 1..Len(list[t]) : list[t][e].type = dep.type
  <2>1. PICK n \in 1..Len(names) : names[n] = t
    BY <1>7, Zenon DEF Declares
  <2>2. 1 \in 1..Len(names)
    BY <1>3, <2>1
  <2>3. names[1] \in Types /\ Declares(source, cur, names[1])
    BY <1>3, <2>2, Zenon DEF Declares
  <2>4. list[names[1]] = list[t]
    BY <1>2, <1>7, <2>3, Zenon DEF Alike
  <2>5. QED
    BY <2>4, Zenon
<1> HIDE DEF Listed, names, dep
<1>8. Unlisted'
  <2> SUFFICES ASSUME NEW t \in Types, location[t] = 0 PROVE list'[t] = <<>>
    BY <1>1, Zenon DEF Unlisted
  <2>1. ~Declares(source, cur, t)
    BY <1>0, <1>5, Zenon
  <2>2. QED
    BY <2>1, <1>4, Zenon DEF Unlisted
<1>9. Mentioned'
  <2> SUFFICES ASSUME NEW t \in Types, NEW e \in 1..Len(list'[t])
               PROVE  \E d \in 1..Len(source[location[t]].deps) :
                        source[location[t]].deps[d].type = list'[t][e].type
    BY <1>1, Zenon DEF Mentioned
  <2>1. CASE list'[t] = list[t]
    BY <2>1, Zenon DEF Mentioned
  <2>2. CASE Declares(source, cur, t) /\ list'[t] = Append(list[t], dep)
    <3>1. CASE e \in 1..Len(list[t])
      <4>1. list'[t][e] = list[t][e]
        BY <2>2, <3>1, <1>3, <1>6, Appended
      <4>2. QED
        BY <3>1, <4>1, Zenon DEF Mentioned
    <3>2. CASE e \notin 1..Len(list[t])
      <4>1. list'[t][e] = dep
        BY <2>2, <3>2, <1>3, <1>6, Appended
      <4>2. location[t] = cur
        BY <2>2, <1>5, Zenon
      <4>3. QED
        BY <4>1, <4>2, <1>3, Zenon DEF dep
    <3>3. QED
      BY <3>1, <3>2, Zenon
  <2>3. QED
    BY <2>1, <2>2, <1>4, Zenon
<1>10. Alike'
  <2> SUFFICES ASSUME NEW t \in Types, NEW u \in Types, NEW k \in 1..Len(source),
                      Declares(source, k, t), Declares(source, k, u)
               PROVE  list'[t] = list'[u]
    BY <1>1, Zenon DEF Alike
  <2>1. list[t] = list[u]
    BY Zenon DEF Alike
  <2>2. Declares(source, cur, t) <=> Declares(source, cur, u)
    BY <1>2, Zenon DEF DeclaredOnce
  <2>3. QED
    BY <2>1, <2>2, <1>4, Zenon
<1>11. AllListed'
  <2> SUFFICES ASSUME NEW t \in Types, NEW k \in 1..Len(source),
                      NEW d \in 1..Len(source[k].deps),
                      Declares(source, k, t), Visited(k, d)'
               PROVE  \E e \in 1..Len(list'[t]) : list'[t][e].type = source[k].deps[d].type
    BY <1>1 DEF AllListed
  <2>1. CASE Visited(k, d)
    <3>1. PICK e \in 1..Len(list[t]) : list[t][e].type = source[k].deps[d].type
      BY <2>1, Zenon DEF AllListed
    <3>2. CASE list'[t] = list[t]
      BY <3>1, <3>2, Zenon
    <3>3. CASE list'[t] = Append(list[t], dep)
      <4>1. e \in 1..Len(list'[t]) /\ list'[t][e] = list[t][e]
        BY <3>3, <1>3, <1>6, Appended
      <4>2. QED
        BY <3>1, <4>1, Zenon
    <3>4. QED
      BY <3>2, <3>3, <1>4, Zenon
  <2>2. CASE ~Visited(k, d)
    <3>1. k = cur /\ d = field
      BY <2>2, <1>0, <1>1, <1>2, SourceType DEF Visited
    <3>2. source[k].deps[d] = dep
      BY <3>1, Zenon DEF dep
    <3>3. CASE Listed
      BY <3>1, <3>2, <3>3, <1>4, <1>7, Zenon
    <3>4. CASE ~Listed
      <4>1. list'[t] = Append(list[t], dep)
        BY <3>1, <3>4, <1>4, Zenon
      <4>2. /\ Len(list[t]) + 1 \in 1..Len(list'[t]) /\ list'[t][Len(list[t]) + 1] = dep
        BY <4>1, <1>3, <1>6, Appended
      <4>3. QED
        BY <3>2, <4>2, Zenon
    <3>5. QED
      BY <3>3, <3>4, Zenon
  <2>3. QED
    BY <2>1, <2>2, Zenon
<1>12. QED
  BY <1>8, <1>9, <1>10, <1>11

LEMMA ListNext ==
  ASSUME LostInv, GraphInv, ListInv, [ReorderNext]_reorderVars
  PROVE  ListInv'
<1>0. Len(source) \in Nat /\ cur \in Nat \ {0} /\ field \in Nat /\ source \in Sources
  BY SourceType, Zenon DEF LostInv, ReorderType
<1>1. source' = source
  BY Zenon DEF ReorderNext, reorderVars, Declare, InsertDep, ChunkDone, BuildDone, Recurse, Ignore,
         InsertType, Iterate, NextKind, AppendRest, Finish, Reordered
<1> SUFFICES ASSUME DeclaredOnce(source)
             PROVE  (Unlisted /\ Mentioned /\ Alike /\ AllListed)'
  BY <1>1, Zenon DEF ListInv
<1>2. Unlisted /\ Mentioned /\ Alike /\ AllListed
  BY Zenon DEF ListInv
<1>3. CASE Declare
  BY <1>2, <1>3, ListDeclare, Zenon
<1>4. CASE InsertDep
  BY <1>2, <1>4, ListInsertDep
<1>5. CASE ~Declare /\ ~InsertDep
  <2>1. location' = location /\ list' = list
    BY <1>5, Zenon DEF ReorderNext, reorderVars, ChunkDone, BuildDone, Recurse, Ignore,
         InsertType, Iterate, NextKind, AppendRest, Finish, Reordered, graph
  <2>2. ASSUME NEW k \in 1..Len(source), NEW d \in 1..Len(source[k].deps), Visited(k, d)'
        PROVE  Visited(k, d)
    <3>0. Len(source[k].deps) \in Nat
      BY <1>0, SourceType, Zenon
    <3>1. CASE ChunkDone
      BY <1>0, <2>2, <3>0, <3>1 DEF ChunkDone, Visited
    <3>2. CASE BuildDone
      BY <1>0, <3>2 DEF BuildDone, Visited
    <3>3. CASE UNCHANGED reorderVars
      BY <2>2, <3>3, Zenon DEF reorderVars, Visited
    <3>4. CASE Recurse \/ Ignore \/ InsertType \/ Iterate \/ NextKind \/ AppendRest \/ Finish
      BY <3>4, Zenon DEF Recurse, Ignore, InsertType, Iterate, NextKind, AppendRest, Finish,
                  LostInv, Loops, TypeKinds, Visited
    <3>5. QED
      BY <1>5, <3>1, <3>2, <3>3, <3>4, Zenon DEF ReorderNext, Reordered
  <2>3. QED
    BY <1>1, <1>2, <2>1, <2>2 DEF Unlisted, Mentioned, Alike, AllListed
<1>6. QED
  BY <1>3, <1>4, <1>5, Zenon

----------------------------------------------------------------------------
(* The marks of the entries.                                               *)

\* A call of DoRecursive keeps what the marks mean.
LEMMA SortCall ==
  ASSUME LostInv, Settled, Running, NEW type \in Types,
         NEW frames \in Seq(Frame), Call(type, FALSE, frames),
         Len(frames) = Len(stack),
         \A i \in 1..Len(stack) : frames[i].type = stack[i].type,
         location' = location, inserted' = inserted
  PROVE  Settled' /\ Running'
<1>1. managed \in [Types -> {"unset", "false", "true"}] /\ Len(stack) \in Nat
  BY DEF LostInv, ReorderType
<1>2. Returns(type, frames) \/ Settles(type, frames) \/ Starts(type, frames)
  BY CallCases, Zenon
<1>3. CASE Returns(type, frames)
  BY <1>3, Zenon DEF Returns, Settled, Running
<1>4. CASE Settles(type, frames)
  <2>1. \A t \in Types : managed'[t] = IF t = type THEN "true" ELSE managed[t]
    BY <1>1, <1>4, Zenon DEF Settles
  <2>2. stack' = frames /\ location[type] \in inserted
    BY <1>4, Zenon DEF Settles
  <2>3. Settled'
    BY <2>1, <2>2, Zenon DEF Settled
  <2>4. Running'
    BY <2>1, <2>2, Zenon DEF Running
  <2>5. QED
    BY <2>3, <2>4, Zenon
<1>5. CASE Starts(type, frames)
  <2>1. \A t \in Types : managed'[t] = IF t = type THEN "false" ELSE managed[t]
    BY <1>1, <1>5, Zenon DEF Starts
  <2> DEFINE f == [type |-> type, dep |-> 1]
  <2>2. stack' = Append(frames, f) /\ f.type = type
    BY <1>5, Zenon DEF Starts
  <2> HIDE DEF f
  <2>3. /\ Len(stack') = Len(stack) + 1
        /\ \A i \in 1..Len(stack) : i \in 1..Len(stack') /\ stack'[i].type = stack[i].type
        /\ Len(stack) + 1 \in 1..Len(stack') /\ stack'[Len(stack) + 1].type = type
    BY <2>2, <1>1
  <2>4. Settled'
    BY <2>1, Zenon DEF Settled
  <2>5. Running'
    <3> SUFFICES ASSUME NEW t \in Types, managed'[t] = "false", location[t] \notin inserted
                 PROVE  \E i \in 1..Len(stack') : stack'[i].type = t
      BY Zenon DEF Running
    <3>1. CASE t = type
      BY <3>1, <2>3, Zenon
    <3>2. CASE t # type
      <4>1. PICK i \in 1..Len(stack) : stack[i].type = t
        BY <3>2, <2>1, Zenon DEF Running
      <4>2. QED
        BY <4>1, <2>3, Zenon
    <3>3. QED
      BY <3>1, <3>2, Zenon
  <2>6. QED
    BY <2>4, <2>5
<1>6. QED
  BY <1>2, <1>3, <1>4, <1>5, Zenon

LEMMA SortNext ==
  ASSUME LostInv, SortInv, [ReorderNext]_reorderVars
  PROVE  SortInv'
<1>0. /\ Len(source) \in Nat /\ cur \in Nat \ {0} /\ stack \in Seq(Frame) /\ Len(stack) \in Nat
      /\ managed \in [Types -> {"unset", "false", "true"}]
      /\ entries \in [TypeKinds -> Seq(Names)] /\ list \in [Types -> Seq(Deps)]
      /\ phase \in Phases
  BY SourceType DEF LostInv, ReorderType
<1>1. CASE Declare \/ InsertDep \/ ChunkDone
  BY <1>1, Zenon DEF Declare, InsertDep, ChunkDone, SortInv
<1>2. CASE BuildDone
  <2>1. /\ managed' = managed /\ stack' = stack /\ entries' = entries
        /\ phase' = "struct" /\ cur' = 1 /\ phase = "build"
    BY <1>2, Zenon DEF BuildDone, graph, sorting
  <2>2. \A t \in Types : managed[t] = "unset"
    BY <2>1, Zenon DEF LostInv, Loops
  <2>3. Settled' /\ Running'
    BY <2>1, <2>2, Zenon DEF Settled, Running
  <2>4. \A k \in TypeKinds : \A e \in 1..Len(entries[k]) : ~Iterated(k, e)'
    BY <1>0, <2>1 DEF Iterated
  <2>5. QED
    BY <2>1, <2>3, <2>4, Zenon DEF SortInv, AllPassed
<1>3. CASE Recurse \/ Ignore
  <2>1. /\ stack # <<>> /\ phase \in TypeKinds /\ phase # "build"
        /\ location' = location /\ inserted' = inserted /\ entries' = entries
        /\ phase' = phase /\ cur' = cur
    BY <1>3, Zenon DEF Recurse, Ignore, LostInv, Loops, graph, TypeKinds
  <2>2. /\ Advanced \in Seq(Frame) /\ Len(Advanced) = Len(stack)
        /\ \A i \in 1..Len(stack) : Advanced[i].type = stack[i].type
        /\ Top.type \in Types /\ Top.dep \in Nat \ {0}
    BY <1>0, <2>1, Frames, Zenon
  <2>3. Settled /\ Running /\ AllPassed
    BY <2>1, Zenon DEF SortInv
  <2>4. CASE Recurse
    <3> DEFINE dep == list[Top.type][Top.dep]
    <3>1. Call(dep.type, FALSE, Advanced)
      <4>1. Call(dep.type, Forced(dep), Advanced)
        BY <2>4, Zenon DEF Recurse
      <4>2. Forced(dep) = FALSE
        BY Zenon DEF Forced
      <4>3. QED
        BY <4>1, <4>2, Zenon
    <3>2. Top.dep \in 1..Len(list[Top.type]) /\ list[Top.type] \in Seq(Deps)
      BY <1>0, <2>2, <2>4 DEF Recurse
    <3>3. dep.type \in Types
      <4>1. dep \in Deps
        BY <3>2
      <4>2. QED
        BY <4>1, Zenon DEF Deps
    <3> HIDE DEF dep
    <3>4. Settled' /\ Running'
      BY <2>1, <2>2, <2>3, <3>1, <3>3, SortCall, Zenon
    <3>5. \A t \in Types : managed[t] # "unset" => managed'[t] = managed[t]
      BY <1>0, <2>2, <3>1, <3>3, CallType, Zenon
    <3>6. AllPassed'
      <4> SUFFICES ASSUME NEW k \in TypeKinds, NEW e \in 1..Len(entries[k]), Iterated(k, e)'
                   PROVE  managed'[<<k, entries[k][e]>>] # "unset"
        BY <2>1, Zenon DEF AllPassed
      <4>1. Iterated(k, e)
        BY <2>1, Zenon DEF Iterated
      <4>2. managed[<<k, entries[k][e]>>] # "unset"
        BY <4>1, <2>3, Zenon DEF AllPassed
      <4>3. entries[k][e] \in Names
        BY <1>0
      <4>4. <<k, entries[k][e]>> \in Types
        BY <4>3, TypePair, Zenon
      <4>5. QED
        BY <4>2, <4>4, <3>5, Zenon
    <3>7. QED
      BY <3>4, <3>6, Zenon DEF SortInv
  <2>5. CASE Ignore
    <3>1. managed' = managed /\ stack' = Advanced
      BY <2>5, Zenon DEF Ignore
    <3>2. Settled' /\ Running' /\ AllPassed'
      BY <2>1, <2>2, <2>3, <3>1, Zenon DEF Settled, Running, AllPassed, Iterated
    <3>3. QED
      BY <3>2, Zenon DEF SortInv
  <2>6. QED
    BY <1>3, <2>4, <2>5, Zenon
<1>4. CASE InsertType
  <2>1. /\ stack # <<>> /\ phase \in TypeKinds /\ phase # "build"
        /\ location' = location /\ entries' = entries /\ phase' = phase /\ cur' = cur
        /\ stack' = Below
    BY <1>4, Zenon DEF InsertType, LostInv, Loops, graph, TypeKinds
  <2>2. /\ Len(stack) \in Nat \ {0} /\ Top = stack[Len(stack)] /\ Top.type \in Types
        /\ Len(Below) = Len(stack) - 1
        /\ \A i \in 1..Len(stack) - 1 : Below[i] = stack[i]
    BY <1>0, <2>1, Frames, Zenon
  <2>3. Settled /\ Running /\ AllPassed
    BY <2>1, Zenon DEF SortInv
  <2>4. /\ inserted \subseteq inserted' /\ location[Top.type] \in inserted'
        /\ \A t \in Types : managed'[t] = managed[t] \/ (t = Top.type /\ managed'[t] = "true")
    <3>1. CASE location[Top.type] \in inserted
      BY <1>4, <3>1, Zenon DEF InsertType
    <3>2. CASE location[Top.type] \notin inserted
      BY <1>0, <1>4, <3>2, Zenon DEF InsertType
    <3>3. QED
      BY <3>1, <3>2, Zenon
  <2>5. Settled'
    BY <2>1, <2>3, <2>4, Zenon DEF Settled
  <2>6. Running'
    <3> SUFFICES ASSUME NEW t \in Types, managed'[t] = "false", location[t] \notin inserted'
                 PROVE  \E i \in 1..Len(Below) : Below[i].type = t
      BY <2>1, Zenon DEF Running
    <3>1. managed[t] = "false" /\ location[t] \notin inserted /\ t # Top.type
      BY <2>4, Zenon
    <3>2. PICK i \in 1..Len(stack) : stack[i].type = t
      BY <2>3, <3>1, Zenon DEF Running
    <3>3. i # Len(stack)
      BY <3>1, <3>2, <2>2, Zenon
    <3>4. QED
      BY <3>2, <3>3, <2>2
  <2>7. AllPassed'
    <3> SUFFICES ASSUME NEW k \in TypeKinds, NEW e \in 1..Len(entries[k]), Iterated(k, e)'
                 PROVE  managed'[<<k, entries[k][e]>>] # "unset"
      BY <2>1, Zenon DEF AllPassed
    <3>1. Iterated(k, e)
      BY <2>1, Zenon DEF Iterated
    <3>2. managed[<<k, entries[k][e]>>] # "unset"
      BY <3>1, <2>3 DEF AllPassed
    <3>3. entries[k][e] \in Names
      BY <1>0
    <3>4. <<k, entries[k][e]>> \in Types
      BY <3>3, TypePair
    <3>5. QED
      BY <3>2, <3>4, <2>4, Zenon
  <2>8. QED
    BY <2>5, <2>6, <2>7, Zenon DEF SortInv
<1>5. CASE Iterate
  <2>1. /\ phase \in TypeKinds /\ phase # "build" /\ cur \in 1..Len(entries[phase])
        /\ phase' = phase /\ cur' = cur + 1 /\ stack = <<>>
        /\ location' = location /\ inserted' = inserted /\ entries' = entries
    BY <1>0, <1>5 DEF Iterate, graph, TypeKinds
  <2> DEFINE type == <<phase, entries[phase][cur]>>
  <2>2. entries[phase][cur] \in Names
    BY <1>0, <2>1
  <2>3. type \in Types
    BY <2>1, <2>2, TypePair, Zenon
  <2>4. Call(type, FALSE, <<>>)
    BY <1>5, Zenon DEF Iterate
  <2>5. <<>> \in Seq(Frame) /\ Len(stack) = Len(<<>>)
        /\ \A i \in 1..Len(stack) : <<>>[i].type = stack[i].type
    BY <2>1
  <2>6. Settled /\ Running /\ AllPassed
    BY <2>1, Zenon DEF SortInv
  <2>7. Settled' /\ Running'
    BY <2>1, <2>3, <2>4, <2>5, <2>6, SortCall, Zenon
  <2>8. /\ \A t \in Types : managed[t] # "unset" => managed'[t] = managed[t]
        /\ managed'[type] # "unset"
    BY <1>0, <2>3, <2>4, <2>5, CallType, Zenon
  <2>9. AllPassed'
    <3> SUFFICES ASSUME NEW k \in TypeKinds, NEW e \in 1..Len(entries[k]), Iterated(k, e)'
                 PROVE  managed'[<<k, entries[k][e]>>] # "unset"
      BY <2>1, Zenon DEF AllPassed
    <3>1. CASE Iterated(k, e)
      <4>2. managed[<<k, entries[k][e]>>] # "unset"
        BY <3>1, <2>6, Zenon DEF AllPassed
      <4>3. entries[k][e] \in Names
        BY <1>0
      <4>4. <<k, entries[k][e]>> \in Types
        BY <4>3, TypePair
      <4>5. QED
        BY <4>2, <4>4, <2>8, Zenon
    <3>2. CASE ~Iterated(k, e)
      <4>1. k = phase /\ e = cur
        BY <1>0, <3>2, <2>1 DEF Iterated
      <4>2. QED
        BY <4>1, <2>8, Zenon
    <3>3. QED
      BY <3>1, <3>2, Zenon
  <2>10. QED
    BY <2>7, <2>9 DEF SortInv
<1>6. CASE NextKind
  <2>1. /\ phase \in TypeKinds /\ phase # "build" /\ cur > Len(entries[phase])
        /\ stack' = stack /\ managed' = managed /\ cur' = 1
        /\ location' = location /\ inserted' = inserted /\ entries' = entries
        /\ phase' = CASE phase = "struct" -> "union"
                      [] phase = "union" -> "typedef"
                      [] phase = "typedef" -> "rest"
    BY <1>6, Zenon DEF NextKind, graph, sorting, TypeKinds
  <2>2. Settled /\ Running /\ AllPassed
    BY <2>1, Zenon DEF SortInv
  <2>3. ASSUME NEW k \in TypeKinds, NEW e \in 1..Len(entries[k]), Iterated(k, e)'
        PROVE  Iterated(k, e)
    <3>0. Len(entries[k]) \in Nat
      BY <1>0
    <3>1. CASE phase = "struct"
      BY <1>0, <2>1, <2>3, <3>0, <3>1 DEF Iterated, TypeKinds
    <3>2. CASE phase = "union"
      BY <1>0, <2>1, <2>3, <3>0, <3>2 DEF Iterated, TypeKinds
    <3>3. CASE phase = "typedef"
      BY <1>0, <2>1, <2>3, <3>0, <3>3 DEF Iterated, TypeKinds
    <3>4. QED
      BY <2>1, <3>1, <3>2, <3>3, Zenon DEF TypeKinds
  <2>4. Settled' /\ Running' /\ AllPassed'
    BY <2>1, <2>2, <2>3, Zenon DEF Settled, Running, AllPassed
  <2>5. QED
    BY <2>4 DEF SortInv
<1>7. CASE AppendRest \/ Finish
  <2>1. /\ phase = "rest" /\ phase' \in {"rest", "done"} /\ inserted \subseteq inserted'
        /\ stack' = stack /\ managed' = managed /\ location' = location /\ entries' = entries
    BY <1>7, Zenon DEF AppendRest, Finish, graph, sorting
  <2>2. Settled /\ Running /\ AllPassed
    BY <2>1, Zenon DEF SortInv
  <2>3. Settled' /\ Running' /\ AllPassed'
    BY <2>1, <2>2, Zenon DEF Settled, Running, AllPassed, Iterated
  <2>4. QED
    BY <2>3 DEF SortInv
<1>8. CASE UNCHANGED reorderVars
  BY <1>8, Zenon DEF reorderVars, SortInv, Settled, Running, AllPassed, Iterated
<1>9. QED
  BY <1>1, <1>2, <1>3, <1>4, <1>5, <1>6, <1>7, <1>8, Zenon DEF ReorderNext, Reordered

----------------------------------------------------------------------------
(* The order of the result.                                                *)

\* A type that a list holds is declared by the chunk itself or by one it uses.
LEMMA ListedIsUsed ==
  ASSUME LostInv, GraphInv, ListInv, DeclaredOnce(source),
         NEW t \in Types, NEW e \in 1..Len(list[t]),
         location[t] # 0, location[list[t][e].type] # 0,
         location[list[t][e].type] # location[t]
  PROVE  Uses(source, location[t], location[list[t][e].type])
<1>1. list[t][e] \in Deps
  BY DEF LostInv, ReorderType
<1>2. list[t][e].type \in Types
  BY <1>1, Zenon DEF Deps
<1>3. PICK d \in 1..Len(source[location[t]].deps) :
        source[location[t]].deps[d].type = list[t][e].type
  BY Zenon DEF ListInv, Mentioned
<1>4. Declares(source, location[list[t][e].type], list[t][e].type)
  BY <1>2, Zenon DEF GraphInv
<1>5. QED
  BY <1>3, <1>4, Zenon DEF Uses

\* After the build, a chunk that another uses declares a type of its lists.
LEMMA UsedIsListed ==
  ASSUME LostInv, GraphInv, ListInv, DeclaredOnce(source), phase # "build",
         NEW t \in Types, location[t] # 0,
         NEW k \in 1..Len(source), Uses(source, location[t], k)
  PROVE  \E e \in 1..Len(list[t]) :
           list[t][e].type \in Types /\ location[list[t][e].type] = k
<1>0. location[t] \in 1..Len(source) /\ source \in Sources
  BY SourceType DEF LostInv, Found, ReorderType
<1>1. PICK d \in 1..Len(source[location[t]].deps) :
        Declares(source, k, source[location[t]].deps[d].type)
  BY Zenon DEF Uses
<1>2. source[location[t]].deps[d].type \in Types
  BY <1>0, SourceType, Zenon
<1>3. Declares(source, location[t], t)
  BY Zenon DEF GraphInv
<1>4. Visited(location[t], d)
  BY Zenon DEF Visited
<1>5. AllListed
  BY Zenon DEF ListInv
<1>6. PICK e \in 1..Len(list[t]) : list[t][e].type = source[location[t]].deps[d].type
  BY <1>0, <1>3, <1>4, <1>5, Zenon DEF AllListed
<1>7. Entered(k)
  BY Zenon DEF Entered
<1>8. location[source[location[t]].deps[d].type] # 0
  BY <1>1, <1>2, <1>7, Zenon DEF GraphInv
<1>9. location[source[location[t]].deps[d].type] = k
  BY <1>1, <1>2, <1>8, ChunkKept, Zenon
<1>10. QED
  BY <1>2, <1>6, <1>9, Zenon

\* After the loops, every chunk that declares a type is in the result.
LEMMA DeclaredIsIn ==
  ASSUME LostInv, GraphInv, SortInv, DeclaredOnce(source), phase = "rest",
         NEW t \in Types, NEW k \in 1..Len(source), Declares(source, k, t)
  PROVE  k \in inserted
<1>1. Entered(k)
  BY Zenon DEF Entered
<1>2. location[t] # 0
  BY <1>1, Zenon DEF GraphInv
<1>3. location[t] = k
  BY <1>2, ChunkKept, Zenon
<1>4. PICK e \in 1..Len(entries[t[1]]) : entries[t[1]][e] = t[2]
  BY <1>2, Zenon DEF GraphInv
<1>5. t[1] \in TypeKinds /\ t = <<t[1], t[2]>>
  BY TypePair, Zenon
<1>6. Iterated(t[1], e)
  BY Zenon DEF Iterated
<1>7. managed[t] # "unset"
  BY <1>4, <1>5, <1>6, Zenon DEF SortInv, AllPassed
<1>8. managed[t] \in {"unset", "false", "true"}
  BY Zenon DEF LostInv, ReorderType
<1>9. stack = <<>>
  BY Zenon DEF LostInv, Loops, TypeKinds
<1>10. QED
  BY <1>3, <1>7, <1>8, <1>9 DEF SortInv, Settled, Running

\* Every chunk that another uses is in the result when the other goes there.
LEMMA OrderKept ==
  ASSUME LostInv, InOrder, NEW c \in 1..Len(source), source' = source,
         result' = Append(result, c),
         \A k \in 1..Len(source) : Uses(source, c, k) => k \in inserted
  PROVE  InOrder'
<1>1. result \in Seq(1..Len(source)) /\ Len(result) \in Nat
  BY DEF LostInv, ReorderType
<1>2. /\ Len(result') = Len(result) + 1 /\ result'[Len(result) + 1] = c
      /\ \A i \in 1..Len(result) : result'[i] = result[i]
  BY <1>1
<1>3. inserted = {result[i] : i \in 1..Len(result)}
  BY Zenon DEF LostInv, Once
<1> SUFFICES ASSUME NEW p \in 1..Len(result'), NEW k \in 1..Len(source),
                    Uses(source, result'[p], k)
             PROVE  \E q \in 1..(p - 1) : result'[q] = k
  BY DEF InOrder
<1>4. CASE p \in 1..Len(result)
  <2>1. Uses(source, result[p], k)
    BY <1>2, <1>4, Zenon
  <2>2. PICK q \in 1..(p - 1) : result[q] = k
    BY <2>1, <1>4, Zenon DEF InOrder
  <2>3. q \in 1..Len(result)
    BY <1>1, <1>4
  <2>4. QED
    BY <2>2, <2>3, <1>2, Zenon
<1>5. CASE p = Len(result) + 1
  <2>1. k \in inserted
    BY <1>2, <1>5, Zenon
  <2>2. PICK q \in 1..Len(result) : result[q] = k
    BY <2>1, <1>3, Zenon
  <2>3. QED
    BY <2>2, <1>1, <1>2, <1>5
<1>6. QED
  BY <1>1, <1>2, <1>4, <1>5

\* foreach dep in type.list: the call for a type of the block.
LEMMA RankRecurse ==
  ASSUME LostInv, GraphInv, ListInv, SortInv, DeclaredOnce(source), Recurse,
         NEW rank \in [1..Len(source) -> 1..Len(source)], Ranks(source, rank),
         Descends(rank), Served, InOrder
  PROVE  Descends(rank)' /\ Served' /\ InOrder'
<1> DEFINE L == Len(stack)
           top == Top.type
           here == location[top]
           d == list[top][Top.dep].type
<1>1. /\ stack \in Seq(Frame) /\ stack # <<>> /\ phase # "build"
      /\ source' = source /\ location' = location /\ list' = list
      /\ inserted' = inserted /\ result' = result
  BY Zenon DEF Recurse, LostInv, Loops, ReorderType, graph, TypeKinds
<1>2. /\ L \in Nat \ {0} /\ Top = stack[L] /\ top \in Types /\ Top.dep \in Nat \ {0}
      /\ Advanced \in Seq(Frame) /\ Len(Advanced) = L
      /\ \A i \in 1..L - 1 : Advanced[i] = stack[i]
      /\ Advanced[L] = [type |-> top, dep |-> Top.dep + 1]
      /\ \A i \in 1..L : Advanced[i].type = stack[i].type
  BY <1>1, Frames, Zenon
<1>3. Top.dep \in 1..Len(list[top]) /\ list[top][Top.dep] \in Deps
  <2>1. Top.dep <= Len(list[top])
    BY Zenon DEF Recurse
  <2>2. list[top] \in Seq(Deps) /\ Top.dep \in Nat \ {0}
    BY <1>2, Zenon DEF LostInv, ReorderType
  <2>3. QED
    BY <2>1, <2>2
<1>4. d \in Types
  BY <1>3, Zenon DEF Deps
<1>5. location[d] # 0 /\ Call(d, FALSE, Advanced)
  <2>1. Known(d) /\ Call(d, Forced(list[top][Top.dep]), Advanced)
    BY Zenon DEF Recurse
  <2>2. Forced(list[top][Top.dep]) = FALSE
    BY Zenon DEF Forced
  <2>3. Call(d, FALSE, Advanced)
    BY <2>1, <2>2, Zenon
  <2>4. QED
    BY <2>1, <2>3, Zenon DEF Known
<1>6. /\ \A t \in Types : location[t] # 0 => location[t] \in 1..Len(source)
      /\ \A i \in 1..L : stack[i].type \in Types /\ location[stack[i].type] \in 1..Len(source)
  <2>1. \A t \in Types : location[t] # 0 => location[t] \in 1..Len(source)
    BY SourceType DEF LostInv, Found, ReorderType
  <2>2. \A i \in 1..L : stack[i].type \in Types /\ location[stack[i].type] # 0
    <3>1. \A i \in 1..L : stack[i] \in Frame
      BY <1>1
    <3>2. \A f \in Frame : f.type \in Types
      BY Zenon DEF Frame
    <3>3. \A i \in 1..L : location[stack[i].type] # 0
      BY Zenon DEF LostInv, Found
    <3>4. QED
      BY <3>1, <3>2, <3>3, Zenon
  <2>3. QED
    BY <2>1, <2>2, Zenon
<1>7. here \in 1..Len(source) /\ location[d] \in 1..Len(source) /\ Len(source) \in Nat
  <2>1. L \in 1..L
    BY <1>2
  <2>2. here \in 1..Len(source)
    BY <2>1, <1>2, <1>6, Zenon
  <2>3. location[d] \in 1..Len(source)
    BY <1>4, <1>5, <1>6, Zenon
  <2>4. Len(source) \in Nat
    BY SourceType, Zenon DEF LostInv, ReorderType
  <2>5. QED
    BY <2>2, <2>3, <2>4, Zenon
<1>8. location[d] # here => rank[location[d]] < rank[here]
  <2> SUFFICES ASSUME location[d] # here PROVE rank[location[d]] < rank[here]
    BY Zenon
  <2>0. here # 0
    BY <1>7
  <2>1. Uses(source, here, location[d])
    BY <2>0, <1>2, <1>3, <1>5, ListedIsUsed, Zenon
  <2>2. QED
    BY <2>1, <1>7, Zenon DEF Ranks
<1>9. \A k \in 1..Len(source) : rank[k] \in Nat
  BY <1>7
<1>10. \A i \in 1..L : i < L => ChunkOf(i) = here \/ rank[here] < rank[ChunkOf(i)]
  <2>1. L \in 1..L
    BY <1>2
  <2>2. ChunkOf(L) = here
    BY <1>2, Zenon DEF ChunkOf
  <2>3. QED
    BY <2>1, <2>2, Zenon DEF Descends
<1>11. \A i \in 1..L : ChunkOf(i) \in 1..Len(source)
  BY <1>6, Zenon DEF ChunkOf
<1>12. ChunkOf(L) = here
  BY <1>2, Zenon DEF ChunkOf
<1>13. \A i \in 1..L : ChunkOf(i) = location[d] \/ rank[location[d]] < rank[ChunkOf(i)]
  <2> HIDE DEF L, here, d
  <2> SUFFICES ASSUME NEW i \in 1..L, ChunkOf(i) # location[d]
               PROVE  rank[location[d]] < rank[ChunkOf(i)]
    BY Zenon
  <2>1. rank[location[d]] \in Nat /\ rank[here] \in Nat /\ rank[ChunkOf(i)] \in Nat
    BY <1>7, <1>9, <1>11, Zenon
  <2>2. ChunkOf(i) = here \/ rank[here] < rank[ChunkOf(i)]
    BY <1>2, <1>10, <1>12
  <2>3. CASE location[d] = here
    BY <2>2, <2>3, Zenon
  <2>4. CASE location[d] # here
    BY <2>1, <2>2, <2>4, <1>8
  <2>5. QED
    BY <2>3, <2>4, Zenon
<1>14. ASSUME NEW i \in 1..L, stack[i].type = d
       PROVE  location[d] = here
  <2> HIDE DEF L, here, d
  <2>1. ChunkOf(i) = location[d]
    BY <1>14, Zenon DEF ChunkOf
  <2>2. CASE i = L
    BY <2>1, <2>2, <1>12, Zenon
  <2>3. CASE i # L
    <3>1. location[d] = here \/ rank[here] < rank[location[d]]
      BY <2>1, <2>3, <1>2, <1>10
    <3>2. rank[location[d]] \in Nat /\ rank[here] \in Nat
      BY <1>7, <1>9, Zenon
    <3>3. QED
      BY <3>1, <3>2, <1>8
  <2>4. QED
    BY <2>2, <2>3, Zenon
<1>15. /\ Len(stack') \in {L, L + 1}
       /\ \A i \in 1..L : stack'[i].type = stack[i].type
       /\ \A i \in 1..L - 1 : stack'[i] = stack[i]
       /\ stack'[L].dep = Top.dep + 1
       /\ Len(stack') = L + 1 => stack'[L + 1] = [type |-> d, dep |-> 1]
       /\ Len(stack') = L => location[d] \in inserted \/ location[d] = here
  <2>0. Returns(d, Advanced) \/ Settles(d, Advanced) \/ Starts(d, Advanced)
    BY <1>5, CallCases, Zenon
  <2> HIDE DEF L, here, d, top
  <2>1. CASE Returns(d, Advanced)
    <3>1. stack' = Advanced /\ managed[d] \in {"false", "true"}
      BY <2>1, <1>4, Zenon DEF Returns, LostInv, ReorderType
    <3>2. location[d] \in inserted \/ \E i \in 1..Len(stack) : stack[i].type = d
      BY <3>1, <1>1, <1>4, Zenon DEF SortInv, Settled, Running
    <3>3. location[d] \in inserted \/ location[d] = here
      BY <3>2, <1>14, Zenon DEF L
    <3>4. L # L + 1 /\ Advanced[L].dep = Top.dep + 1
      BY <1>2
    <3>5. QED
      BY <3>1, <3>3, <3>4, <1>2, Zenon
  <2>2. CASE Settles(d, Advanced)
    <3>1. stack' = Advanced /\ location[d] \in inserted
      BY <2>2, Zenon DEF Settles
    <3>2. L # L + 1 /\ Advanced[L].dep = Top.dep + 1
      BY <1>2
    <3>3. QED
      BY <3>1, <3>2, <1>2, Zenon
  <2>3. CASE Starts(d, Advanced)
    <3> DEFINE f == [type |-> d, dep |-> 1]
    <3>1. stack' = Append(Advanced, f) /\ f \in Frame
      BY <2>3, <1>4 DEF Starts, Frame
    <3> HIDE DEF f
    <3>2. /\ Len(stack') = L + 1 /\ stack'[L + 1] = f
          /\ \A i \in 1..L : stack'[i] = Advanced[i]
      BY <3>1, <1>2
    <3>3. QED
      BY <3>2, <1>2 DEF f
  <2>4. QED
    BY <2>0, <2>1, <2>2, <2>3, Zenon
<1>16. Descends(rank)'
  <2> SUFFICES ASSUME NEW i \in 1..Len(stack'), NEW j \in 1..Len(stack'), i < j
               PROVE  \/ location[stack'[i].type] = location[stack'[j].type]
                      \/ rank[location[stack'[j].type]] < rank[location[stack'[i].type]]
    BY <1>1, Zenon DEF Descends, ChunkOf
  <2> HIDE DEF L, here, d, top
  <2>1. i \in 1..L
    BY <1>2, <1>15
  <2>2. CASE j \in 1..L
    BY <2>1, <2>2, <1>15, Zenon DEF Descends, ChunkOf, L
  <2>3. CASE j = L + 1
    <3>1. stack'[j].type = d
      BY <2>3, <1>2, <1>15
    <3>2. QED
      BY <2>1, <3>1, <1>13, <1>15, Zenon DEF ChunkOf
  <2>4. QED
    BY <2>2, <2>3, <1>2, <1>15
<1>17. Served'
  <2> SUFFICES ASSUME NEW i \in 1..Len(stack'), NEW e \in 1..Len(list[stack'[i].type]),
                      e < stack'[i].dep, location[list[stack'[i].type][e].type] # 0
               PROVE  LET t == list[stack'[i].type][e].type IN
                      \/ location[t] \in inserted
                      \/ location[t] = location[stack'[i].type]
                      \/ i < Len(stack') /\ stack'[i + 1].type = t
    BY <1>1, Zenon DEF Served, ChunkOf
  <2> DEFINE t == list[stack'[i].type][e].type
  <2>1. /\ L = Len(stack) /\ L \in 1..L /\ top = Top.type /\ top = stack[L].type
        /\ here = location[top] /\ d = list[top][Top.dep].type
    BY <1>2
  <2>2. L \in Nat \ {0} /\ Top.dep \in Nat \ {0}
    BY <1>2, Zenon
  <2> HIDE DEF L, top, here, d
  <2>3. Len(stack') \in {L, L + 1}
    BY <1>15, Zenon
  <2>4. i \in 1..L - 1 \/ i = L \/ i = L + 1
    BY <2>2, <2>3
  <2>5. CASE i \in 1..L - 1
    <3>1. i \in 1..L /\ i + 1 \in 1..L /\ i < Len(stack')
      BY <2>2, <2>3, <2>5
    <3>2. stack'[i] = stack[i] /\ stack'[i + 1].type = stack[i + 1].type
      BY <2>5, <3>1, <1>15, Zenon
    <3>3. \/ location[t] \in inserted
          \/ location[t] = ChunkOf(i)
          \/ i < Len(stack) /\ stack[i + 1].type = t
      <4>1. /\ e \in 1..Len(list[stack[i].type]) /\ e < stack[i].dep
            /\ t = list[stack[i].type][e].type /\ location[t] # 0
        BY <3>2, Zenon
      <4> HIDE DEF t
      <4>2. i \in 1..Len(stack)
        BY <2>1, <3>1, Zenon
      <4>3. QED
        BY <4>1, <4>2, Zenon DEF Served
    <3>4. QED
      BY <3>1, <3>2, <3>3, Zenon DEF ChunkOf
  <2>6. CASE i = L
    <3>1. stack'[i].type = top /\ stack'[i].dep = Top.dep + 1
      BY <2>1, <2>6, <1>15, Zenon
    <3>2. Len(list[top]) \in Nat
      <4>1. list[top] \in Seq(Deps)
        BY <1>2, Zenon DEF LostInv, ReorderType
      <4>2. QED
        BY <4>1
    <3>3. e < Top.dep \/ e = Top.dep
      <4>1. e \in 1..Len(list[top]) /\ e < Top.dep + 1
        BY <3>1, Zenon
      <4>2. QED
        BY <4>1, <3>2, <2>2
    <3>4. CASE e < Top.dep
      <4>1. ~(L < Len(stack))
        BY <2>1, <2>2
      <4>2. e < stack[L].dep /\ stack[L].type = top
        BY <3>4, <2>1, <1>2, Zenon
      <4>3. location[t] \in inserted \/ location[t] = ChunkOf(L)
        BY <2>1, <2>6, <3>1, <4>1, <4>2, Zenon DEF Served
      <4>4. QED
        BY <2>1, <3>1, <4>3, Zenon DEF ChunkOf
    <3>5. CASE e = Top.dep
      <4>1. t = d
        BY <2>1, <3>1, <3>5, Zenon
      <4>2. CASE Len(stack') = L
        BY <2>1, <3>1, <4>1, <4>2, <1>15, Zenon
      <4>3. CASE Len(stack') = L + 1
        <5>1. stack'[L + 1].type = d
          BY <4>3, <1>15
        <5>2. i < Len(stack')
          BY <2>2, <2>6, <4>3
        <5>3. QED
          BY <2>6, <4>1, <5>1, <5>2, Zenon
      <4>4. QED
        BY <4>2, <4>3, <2>3, Zenon
    <3>6. QED
      BY <3>3, <3>4, <3>5, Zenon
  <2>7. CASE i = L + 1
    <3>1. Len(stack') = L + 1
      BY <2>2, <2>3, <2>7
    <3>2. stack'[i] = [type |-> d, dep |-> 1]
      BY <2>7, <3>1, <1>15, Zenon
    <3>3. stack'[i].dep = 1 /\ stack'[i].type = d
      BY <3>2
    <3>4. list[d] \in Seq(Deps)
      BY <1>4, Zenon DEF LostInv, ReorderType
    <3>5. e \in 1..Len(list[d]) /\ e < 1
      BY <3>3, Zenon
    <3>6. QED
      BY <3>4, <3>5
  <2>8. QED
    BY <2>4, <2>5, <2>6, <2>7, Zenon
<1>18. InOrder'
  BY <1>1, Zenon DEF InOrder
<1>19. QED
  BY <1>16, <1>17, <1>18, Zenon

\* A type that is declared elsewhere is passed over.
LEMMA RankIgnore ==
  ASSUME LostInv, Ignore, NEW rank, Descends(rank), Served, InOrder
  PROVE  Descends(rank)' /\ Served' /\ InOrder'
<1> DEFINE L == Len(stack)
<1>1. /\ stack \in Seq(Frame) /\ stack # <<>>
      /\ source' = source /\ location' = location /\ list' = list
      /\ inserted' = inserted /\ result' = result /\ stack' = Advanced
      /\ location[list[Top.type][Top.dep].type] = 0
  BY Zenon DEF Ignore, LostInv, ReorderType, graph, Known
<1>1a. location' = location /\ list' = list
  BY <1>1, Zenon
<1>2. /\ L \in Nat \ {0} /\ Top = stack[L] /\ Top.type \in Types /\ Top.dep \in Nat \ {0}
      /\ Len(stack') = L
      /\ \A i \in 1..L - 1 : stack'[i] = stack[i]
      /\ stack'[L] = [type |-> Top.type, dep |-> Top.dep + 1]
      /\ \A i \in 1..L : stack'[i].type = stack[i].type
  BY <1>1, Frames, Zenon
<1>3. stack'[L].dep = Top.dep + 1 /\ L \in 1..L
  BY <1>2
<1>4. Descends(rank)'
  <2>1. \A i \in 1..L : location'[stack'[i].type] = ChunkOf(i)
    BY <1>1a, <1>2, Zenon DEF ChunkOf
  <2>2. QED
    BY <2>1, <1>2, Zenon DEF Descends, ChunkOf
<1>5. Served'
  <2> SUFFICES ASSUME NEW i \in 1..Len(stack'), NEW e \in 1..Len(list[stack'[i].type]),
                      e < stack'[i].dep, location[list[stack'[i].type][e].type] # 0
               PROVE  LET t == list[stack'[i].type][e].type IN
                      \/ location[t] \in inserted'
                      \/ location[t] = location[stack'[i].type]
                      \/ i < Len(stack') /\ stack'[i + 1].type = t
    BY <1>1a, Zenon DEF Served, ChunkOf
  <2> DEFINE t == list[stack[i].type][e].type
  <2>0. /\ i \in 1..L /\ stack'[i].type = stack[i].type
        /\ e \in 1..Len(list[stack[i].type]) /\ location[t] # 0
    BY <1>2, Zenon
  <2>1. e < stack[i].dep
    <3>1. CASE i # L
      BY <3>1, <1>2
    <3>2. CASE i = L
      <4>1. list[Top.type] \in Seq(Deps)
        BY <1>2, Zenon DEF LostInv, ReorderType
      <4>2a. e \in 1..Len(list[Top.type]) /\ e < Top.dep + 1 /\ e # Top.dep
        BY <2>0, <3>2, <1>1, <1>2, <1>3, Zenon
      <4>2. e \in Nat /\ e < Top.dep + 1 /\ e # Top.dep
        BY <4>1, <4>2a
      <4>3. QED
        BY <4>2, <3>2, <1>2
    <3>3. QED
      BY <3>1, <3>2, Zenon
  <2>2. i < L => stack'[i + 1].type = stack[i + 1].type
    BY <1>2
  <2>3. \/ location[t] \in inserted
        \/ location[t] = ChunkOf(i)
        \/ i < L /\ stack[i + 1].type = t
    BY <2>0, <2>1, Zenon DEF Served
  <2>4. QED
    BY <2>0, <2>2, <2>3, <1>1, <1>2, Zenon DEF ChunkOf
<1>6. InOrder'
  BY <1>1 DEF InOrder
<1>7. QED
  BY <1>4, <1>5, <1>6, Zenon

\* The type's chunk goes to the result: every chunk it uses is there.
LEMMA RankInsert ==
  ASSUME LostInv, GraphInv, ListInv, DeclaredOnce(source), InsertType,
         NEW rank, Descends(rank), Served, InOrder
  PROVE  Descends(rank)' /\ Served' /\ InOrder'
<1> DEFINE L == Len(stack)
           here == location[Top.type]
<1>1. /\ stack \in Seq(Frame) /\ stack # <<>> /\ phase # "build"
      /\ source' = source /\ location' = location /\ list' = list /\ stack' = Below
      /\ Top.dep > Len(list[Top.type])
  BY Zenon DEF InsertType, LostInv, Loops, ReorderType, graph, TypeKinds
<1>1a. location' = location /\ list' = list
  BY <1>1, Zenon
<1>2. /\ L \in Nat \ {0} /\ Top = stack[L] /\ Top.type \in Types /\ Top.dep \in Nat \ {0}
      /\ Len(stack') = L - 1 /\ \A i \in 1..L - 1 : stack'[i] = stack[i]
  BY <1>1, Frames, Zenon
<1>3. inserted \subseteq inserted' /\ here \in inserted'
  BY Zenon DEF InsertType
<1>4. here # 0 /\ here \in 1..Len(source)
  BY <1>2, SourceType DEF LostInv, Found, ReorderType
<1>5. Descends(rank)'
  <2>1. \A i \in 1..L - 1 : i \in 1..L
    BY <1>2
  <2>2. QED
    BY <2>1, <1>1, <1>2, SMTT(30) DEF Descends, ChunkOf
<1>6. Served'
  <2> SUFFICES ASSUME NEW i \in 1..Len(stack'), NEW e \in 1..Len(list[stack'[i].type]),
                      e < stack'[i].dep, location[list[stack'[i].type][e].type] # 0
               PROVE  LET t == list[stack'[i].type][e].type IN
                      \/ location[t] \in inserted'
                      \/ location[t] = location[stack'[i].type]
                      \/ i < Len(stack') /\ stack'[i + 1].type = t
    BY <1>1a, Zenon DEF Served, ChunkOf
  <2> DEFINE t == list[stack[i].type][e].type
  <2>0. /\ i \in 1..L - 1 /\ stack'[i] = stack[i]
        /\ e \in 1..Len(list[stack[i].type]) /\ e < stack[i].dep /\ location[t] # 0
    BY <1>2, Zenon
  <2>1. i \in 1..L
    BY <1>2
  <2>2. \/ location[t] \in inserted
        \/ location[t] = ChunkOf(i)
        \/ i < L /\ stack[i + 1].type = t
    BY <2>0, <2>1, Zenon DEF Served
  <2>3. ASSUME stack[i + 1].type = t
        PROVE  location[t] \in inserted' \/ (i < Len(stack') /\ stack'[i + 1].type = t)
    <3>1. CASE i = L - 1
      <4>1. t = Top.type
        BY <2>3, <3>1, <1>2
      <4>2. QED
        BY <4>1, <1>3, Zenon
    <3>2. CASE i # L - 1
      <4>1. i + 1 \in 1..L - 1 /\ i < L - 1
        BY <2>0, <3>2, <1>2
      <4>2. QED
        BY <2>3, <4>1, <1>2, Zenon
    <3>3. QED
      BY <3>1, <3>2, Zenon
  <2>4. QED
    BY <2>0, <2>2, <2>3, <1>3, Zenon DEF ChunkOf
<1>7. InOrder'
  <2>1. CASE here \in inserted
    <3>1. result' = result
      BY <2>1, Zenon DEF InsertType
    <3>2. QED
      BY <3>1, <1>1, Zenon DEF InOrder
  <2>2. CASE here \notin inserted
    <3>1. result' = Append(result, here)
      BY <2>2, Zenon DEF InsertType
    <3>2. ASSUME NEW k \in 1..Len(source), Uses(source, here, k)
          PROVE  k \in inserted
      <4>1. PICK e \in 1..Len(list[Top.type]) :
              list[Top.type][e].type \in Types /\ location[list[Top.type][e].type] = k
        BY <1>1, <1>2, <1>4, <3>2, UsedIsListed, Zenon
      <4>2. list[Top.type] \in Seq(Deps)
        BY <1>2, Zenon DEF LostInv, ReorderType
      <4>3. e < Top.dep /\ k # 0 /\ L \in 1..L /\ ~(L < L)
        BY <4>2, <1>1, <1>2
      <4>4. k \in inserted \/ k = ChunkOf(L)
        BY <4>1, <4>3, <1>2, Zenon DEF Served
      <4>5. ChunkOf(L) = here /\ here # k
        BY <3>2, <1>2, Zenon DEF ChunkOf, Uses
      <4>6. QED
        BY <4>4, <4>5, Zenon
    <3>3. QED
      BY <3>1, <3>2, <1>1, <1>4, OrderKept, Zenon
  <2>3. QED
    BY <2>1, <2>2, Zenon
<1>8. QED
  BY <1>5, <1>6, <1>7, Zenon

\* A loop over the entries starts on a type.
LEMMA RankIterate ==
  ASSUME LostInv, Iterate, NEW rank, Descends(rank), Served, InOrder
  PROVE  Descends(rank)' /\ Served' /\ InOrder'
<1>1. /\ source' = source /\ location' = location /\ list' = list
      /\ inserted' = inserted /\ result' = result
  BY Zenon DEF Iterate, graph
<1> DEFINE type == <<phase, entries[phase][cur]>>
<1>2. phase \in TypeKinds /\ cur \in 1..Len(entries[phase]) /\ Call(type, FALSE, <<>>)
  <2>1. Call(type, FALSE, <<>>)
    BY Zenon DEF Iterate
  <2>2. phase \in TypeKinds /\ cur \in 1..Len(entries[phase])
    BY DEF Iterate, LostInv, ReorderType
  <2>3. QED
    BY <2>1, <2>2, Zenon
<1>3. entries[phase][cur] \in Names
  BY <1>2 DEF LostInv, ReorderType
<1>4. type \in Types
  BY <1>2, <1>3, TypePair, Zenon
<1> HIDE DEF type
<1>5. <<>> \in Seq(Frame) /\ Len(<<>>) = 0
  OBVIOUS
<1>6. \/ stack' = <<>>
      \/ Len(stack') = 1 /\ stack'[1] = [type |-> type, dep |-> 1]
  <2>1. managed \in [Types -> {"unset", "false", "true"}]
    BY Zenon DEF LostInv, ReorderType
  <2>2. \/ stack' = <<>>
        \/ Len(stack') = Len(<<>>) + 1 /\ stack'[Len(<<>>) + 1] = [type |-> type, dep |-> 1]
    BY <2>1, <1>2, <1>4, <1>5, CallType, Zenon
  <2>3. Len(<<>>) + 1 = 1
    OBVIOUS
  <2>4. QED
    BY <2>2, <2>3, Zenon
<1>7. Descends(rank)'
  <2>1. Len(stack') = 0 \/ Len(stack') = 1
    BY <1>6
  <2>1a. \A i, j \in 1..Len(stack') : ~(i < j)
    <3>1. \A n \in {0, 1} : \A i, j \in 1..n : ~(i < j)
      OBVIOUS
    <3>2. QED
      BY <2>1, <3>1, Zenon
  <2>2. QED
    BY <2>1a, Zenon DEF Descends
<1>8. Served'
  <2>1. CASE stack' = <<>>
    BY <2>1 DEF Served
  <2>2. CASE Len(stack') = 1 /\ stack'[1] = [type |-> type, dep |-> 1]
    <3>1. list[type] \in Seq(Deps)
      BY <1>4, Zenon DEF LostInv, ReorderType
    <3>2. \A i \in 1..Len(stack') : i = 1 /\ stack'[i].dep = 1 /\ stack'[i].type = type
      BY <2>2
    <3>3. \A e \in 1..Len(list[type]) : ~(e < 1)
      BY <3>1
    <3>4. QED
      BY <3>2, <3>3, <1>1, Zenon DEF Served
  <2>3. QED
    BY <1>6, <2>1, <2>2, Zenon
<1>9. InOrder'
  BY <1>1, Zenon DEF InOrder
<1>10. QED
  BY <1>7, <1>8, <1>9

LEMMA RankNext ==
  ASSUME LostInv, GraphInv, ListInv, SortInv, RankInv, [ReorderNext]_reorderVars
  PROVE  RankInv'
<1>1. source' = source
  BY Zenon DEF ReorderNext, reorderVars, Declare, InsertDep, ChunkDone, BuildDone, Recurse, Ignore,
         InsertType, Iterate, NextKind, AppendRest, Finish, Reordered
<1> SUFFICES ASSUME DeclaredOnce(source),
                    NEW rank \in [1..Len(source) -> 1..Len(source)], Ranks(source, rank)
             PROVE  Descends(rank)' /\ Served' /\ InOrder'
  BY <1>1, Zenon DEF RankInv
<1>2. Descends(rank) /\ Served /\ InOrder
  BY Zenon DEF RankInv
<1>3. CASE Declare \/ InsertDep \/ ChunkDone \/ BuildDone
  <2>1. phase = "build" /\ stack' = stack /\ result' = result
    BY <1>3, Zenon DEF Declare, InsertDep, ChunkDone, BuildDone, sorting
  <2>2. stack' = <<>> /\ result' = <<>>
    BY <2>1, Zenon DEF LostInv, Loops, TypeKinds
  <2>3. QED
    BY <2>2 DEF Descends, Served, InOrder
<1>4. CASE Recurse
  BY <1>2, <1>4, RankRecurse, Zenon
<1>5. CASE Ignore
  BY <1>2, <1>5, RankIgnore, Zenon
<1>6. CASE InsertType
  BY <1>2, <1>6, RankInsert, Zenon
<1>7. CASE Iterate
  BY <1>2, <1>7, RankIterate
<1>8. CASE AppendRest
  <2>1. /\ phase = "rest" /\ cur \in 1..Len(source)
        /\ location' = location /\ list' = list /\ stack' = stack
    BY <1>8 DEF AppendRest, graph, LostInv, ReorderType
  <2>2. stack' = <<>>
    BY <2>1, Zenon DEF LostInv, Loops, TypeKinds
  <2>3. Descends(rank)' /\ Served'
    BY <2>2 DEF Descends, Served
  <2>4. CASE cur \in inserted
    <3>1. result' = result
      BY <1>8, <2>4, Zenon DEF AppendRest
    <3>2. QED
      BY <3>1, <2>3, <1>1, <1>2, Zenon DEF InOrder
  <2>5. CASE cur \notin inserted
    <3>1. result' = Append(result, cur)
      BY <1>8, <2>5, Zenon DEF AppendRest
    <3>2. ASSUME NEW k \in 1..Len(source), Uses(source, cur, k)
          PROVE  k \in inserted
      <4>1. PICK d \in 1..Len(source[cur].deps) : Declares(source, k, source[cur].deps[d].type)
        BY <3>2, Zenon DEF Uses
      <4>2. source[cur].deps[d].type \in Types
        BY <2>1, SourceType, Zenon DEF LostInv, ReorderType
      <4>3. QED
        BY <2>1, <4>1, <4>2, DeclaredIsIn, Zenon
    <3>3. InOrder'
      BY <3>1, <3>2, <2>1, <1>1, <1>2, OrderKept, Zenon
    <3>4. QED
      BY <3>3, <2>3, Zenon
  <2>6. QED
    BY <2>4, <2>5, Zenon
<1>9. CASE NextKind \/ Finish \/ UNCHANGED reorderVars
  <2>1. /\ location' = location /\ list' = list /\ stack' = stack
        /\ inserted' = inserted /\ result' = result
    BY <1>9, Zenon DEF NextKind, Finish, reorderVars, graph, sorting
  <2>2. Descends(rank)'
    BY <1>2, <2>1, Zenon DEF Descends, ChunkOf
  <2>3. Served'
    <3>1. location' = location /\ list' = list
      BY <2>1, Zenon
    <3> SUFFICES ASSUME NEW i \in 1..Len(stack'), NEW e \in 1..Len(list[stack'[i].type]),
                        e < stack'[i].dep, location[list[stack'[i].type][e].type] # 0
                 PROVE  LET t == list[stack'[i].type][e].type IN
                        \/ location[t] \in inserted'
                        \/ location[t] = location[stack'[i].type]
                        \/ i < Len(stack') /\ stack'[i + 1].type = t
      BY <3>1, Zenon DEF Served, ChunkOf
    <3>2. stack' = stack /\ inserted' = inserted
      BY <2>1, Zenon
    <3>3. QED
      BY <1>2, <3>2 DEF Served, ChunkOf
  <2>4. InOrder'
    BY <1>1, <1>2, <2>1, Zenon DEF InOrder
  <2>5. QED
    BY <2>2, <2>3, <2>4, Zenon
<1>10. QED
  BY <1>3, <1>4, <1>5, <1>6, <1>7, <1>8, <1>9, Zenon DEF ReorderNext, Reordered

LEMMA ReorderInitial == ReorderInit => LostInv /\ GraphInv /\ ListInv /\ SortInv /\ RankInv
<1> SUFFICES ASSUME ReorderInit PROVE LostInv /\ GraphInv /\ ListInv /\ SortInv /\ RankInv
  BY Zenon
<1>1. LostInv
  BY LostInit, Zenon
<1>2. /\ phase = "build" /\ cur = 1 /\ field = 0 /\ stack = <<>> /\ result = <<>>
      /\ \A t \in Types : location[t] = 0 /\ list[t] = <<>>
      /\ Len(source) \in Nat /\ source \in Sources
  BY SourceType, Zenon DEF ReorderInit
<1>3. \A k \in 1..Len(source) : ~Entered(k)
  BY <1>2 DEF Entered
<1>4. GraphInv
  BY <1>2, <1>3, Zenon DEF GraphInv
<1>5. \A k \in 1..Len(source) : \A d \in 1..Len(source[k].deps) : ~Visited(k, d)
  BY <1>2, SourceType DEF Visited
<1>6. ListInv
  <2>1. Unlisted /\ Alike
    BY <1>2, Zenon DEF Unlisted, Alike
  <2>2. Mentioned
    <3>1. \A e \in 1..Len(<<>>) : FALSE
      OBVIOUS
    <3>2. QED
      BY <3>1, <1>2, Zenon DEF Mentioned
  <2>3. AllListed
    BY <1>5, Zenon DEF AllListed
  <2>4. QED
    BY <2>1, <2>2, <2>3, Zenon DEF ListInv
<1>7. SortInv
  BY <1>2, Zenon DEF SortInv
<1>8. RankInv
  BY <1>2 DEF RankInv, Descends, Served, InOrder
<1>9. QED
  BY <1>1, <1>4, <1>6, <1>7, <1>8, Zenon

\* For every block that declares its types once and without a circle: the order
\* rtxResolve_BlockReordering gives puts every chunk after the chunks it uses.
THEOREM TypesInOrder == ReorderSpec => []DependenciesFirst
<1> DEFINE Inv == LostInv /\ GraphInv /\ ListInv /\ SortInv /\ RankInv
<1>1. Inv => DependenciesFirst
  <2> SUFFICES ASSUME Inv, phase = "done", DeclaredOnce(source), Orderable(source),
                      NEW j \in 1..Len(source), NEW k \in 1..Len(source), Uses(source, j, k)
               PROVE  At(k) < At(j)
    BY Zenon DEF DependenciesFirst
  <2>1. InOrder
    BY Zenon DEF Orderable, RankInv
  <2>2. /\ inserted = {result[i] : i \in 1..Len(result)} /\ inserted = 1..Len(source)
        /\ \A a, b \in 1..Len(result) : result[a] = result[b] => a = b
        /\ Len(result) \in Nat
    <3>1. result \in Seq(1..Len(source))
      BY Zenon DEF LostInv, ReorderType
    <3>2. Len(result) \in Nat
      BY <3>1
    <3>3. Once
      BY Zenon DEF LostInv
    <3>4. QED
      BY <3>2, <3>3, Zenon DEF Once
  <2>3. \A c \in 1..Len(source) : At(c) \in 1..Len(result) /\ result[At(c)] = c
    <3> SUFFICES ASSUME NEW c \in 1..Len(source)
                 PROVE  At(c) \in 1..Len(result) /\ result[At(c)] = c
      BY Zenon
    <3>1. \E i \in 1..Len(result) : result[i] = c
      BY <2>2, Zenon
    <3>2. QED
      BY <3>1, Zenon DEF At
  <2>4. PICK q \in 1..(At(j) - 1) : result[q] = k
    BY <2>1, <2>3, Zenon DEF InOrder
  <2>5. q \in 1..Len(result) /\ q < At(j)
    BY <2>2, <2>3
  <2>6. q = At(k)
    BY <2>2, <2>3, <2>4, <2>5, Zenon
  <2>7. QED
    BY <2>5, <2>6, Zenon
<1>2. Inv /\ [ReorderNext]_reorderVars => Inv'
  BY LostNext, GraphNext, ListNext, SortNext, RankNext, Zenon
<1> HIDE DEF Inv
<1>3. ReorderInit => Inv
  BY ReorderInitial, Zenon DEF Inv
<1>4. QED
  BY <1>1, <1>2, <1>3, PTL DEF ReorderSpec

----------------------------------------------------------------------------
(* Weaving.                                                                *)

USE SizesAssumption

----------------------------------------------------------------------------
(* Sequences.                                                              *)

\* The type and the length of a concatenation.
LEMMA CatType ==
  ASSUME NEW S, NEW s \in Seq(S), NEW t \in Seq(S)
  PROVE s \o t \in Seq(S) /\ Len(s \o t) = Len(s) + Len(t)
  OBVIOUS

\* The type and the length of a part of a sequence.
LEMMA SubType ==
  ASSUME NEW S, NEW s \in Seq(S), NEW m \in 1..Len(s) + 1, NEW n \in m - 1..Len(s)
  PROVE SubSeq(s, m, n) \in Seq(S) /\ Len(SubSeq(s, m, n)) = n - m + 1
  OBVIOUS

\* Removing a statement leaves one less.
LEMMA WithoutType ==
  ASSUME NEW S, NEW b \in Seq(S), NEW idx \in 0..Len(b) - 1
  PROVE  Without(b, idx) \in Seq(S) /\ Len(Without(b, idx)) = Len(b) - 1
<1> DEFINE e == idx + 2
           h == SubSeq(b, 1, idx)
           t == SubSeq(b, e, Len(b))
<1>0. e \in 1..Len(b) + 1 /\ Len(b) \in e - 1..Len(b) /\ e = idx + 2 /\ Len(b) \in Nat
  OBVIOUS
<1> HIDE DEF e
<1>1. h \in Seq(S) /\ Len(h) = idx
  OBVIOUS
<1>2. t \in Seq(S) /\ Len(t) = Len(b) - e + 1
  BY <1>0, SubType, Zenon
<1> HIDE DEF h, t
<1>3. h \o t \in Seq(S) /\ Len(h \o t) = Len(h) + Len(t)
  BY <1>1, <1>2, CatType, Zenon
<1>3a. Len(h \o t) = Len(b) - 1
  BY <1>0, <1>1, <1>2, <1>3
<1>4. Without(b, idx) = h \o t
  BY Zenon DEF Without, h, t, e
<1>5. QED
  BY <1>3, <1>4, <1>3a, Zenon

\* Inserting code makes a block longer by its length.
LEMMA WithType ==
  ASSUME NEW S, NEW b \in Seq(S), NEW idx \in 0..Len(b), NEW c \in Seq(S)
  PROVE  With(b, idx, c) \in Seq(S) /\ Len(With(b, idx, c)) = Len(b) + Len(c)
<1> DEFINE e == idx + 1
           h == SubSeq(b, 1, idx)
           t == SubSeq(b, e, Len(b))
<1>0. e \in 1..Len(b) + 1 /\ Len(b) \in e - 1..Len(b) /\ e = idx + 1 /\ Len(b) \in Nat
  OBVIOUS
<1> HIDE DEF e
<1>1. h \in Seq(S) /\ Len(h) = idx
  OBVIOUS
<1>2. t \in Seq(S) /\ Len(t) = Len(b) - e + 1
  BY <1>0, SubType, Zenon
<1> HIDE DEF h, t
<1>3. h \o c \in Seq(S) /\ Len(h \o c) = Len(h) + Len(c)
  BY <1>1, <1>2, CatType, Zenon
<1>4. (h \o c) \o t \in Seq(S) /\ Len((h \o c) \o t) = Len(h \o c) + Len(t)
  BY <1>2, <1>3, CatType, Zenon
<1>5. Len((h \o c) \o t) = Len(b) + Len(c)
  BY <1>0, <1>1, <1>2, <1>3, <1>4
<1>6. With(b, idx, c) = (h \o c) \o t
  BY Zenon DEF With, h, t, e
<1>7. QED
  BY <1>4, <1>5, <1>6, Zenon

\* A sequence cut where two others meet.
LEMMA CutConcat ==
  ASSUME NEW S, NEW w \in Seq(S), NEW r \in Seq(S)
  PROVE  /\ SubSeq(w \o r, 1, Len(w)) = w
         /\ SubSeq(w \o r, Len(w) + 1, Len(w \o r)) = r
         /\ Len(r) > 0 => SubSeq(w \o r, Len(w) + 2, Len(w \o r)) = SubSeq(r, 2, Len(r))
  OBVIOUS

\* Inserting code where two sequences meet.
LEMMA InsertAt ==
  ASSUME NEW S, NEW w \in Seq(S), NEW r \in Seq(S), NEW c \in Seq(S)
  PROVE  With(w \o r, Len(w), c) = (w \o c) \o r
<1> DEFINE b == w \o r
<1>1. SubSeq(b, 1, Len(w)) = w /\ SubSeq(b, Len(w) + 1, Len(b)) = r
  BY CutConcat, Zenon
<1> HIDE DEF b
<1>2. With(b, Len(w), c) = (w \o c) \o r
  BY <1>1, Zenon DEF With
<1>3. QED
  BY <1>2, Zenon DEF b

\* Removing the statement after the first of two sequences.
LEMMA RemoveAt ==
  ASSUME NEW S, NEW w \in Seq(S), NEW r \in Seq(S), Len(r) > 0
  PROVE  Without(w \o r, Len(w)) = w \o SubSeq(r, 2, Len(r))
<1> DEFINE b == w \o r
<1>1. SubSeq(b, 1, Len(w)) = w /\ SubSeq(b, Len(w) + 2, Len(b)) = SubSeq(r, 2, Len(r))
  BY CutConcat
<1> HIDE DEF b
<1>2. Without(b, Len(w)) = w \o SubSeq(r, 2, Len(r))
  BY <1>1, Zenon DEF Without
<1>3. QED
  BY <1>2, Zenon DEF b

\* The rest of a sequence without its first element.
LEMMA Rest ==
  ASSUME NEW S, NEW o \in Seq(S), NEW i \in 1..Len(o)
  PROVE  /\ SubSeq(o, i, Len(o)) \in Seq(S) /\ Len(SubSeq(o, i, Len(o))) > 0
         /\ SubSeq(SubSeq(o, i, Len(o)), 2, Len(SubSeq(o, i, Len(o)))) = SubSeq(o, i + 1, Len(o))
  OBVIOUS

\* Concatenation is associative.
LEMMA Assoc ==
  ASSUME NEW S, NEW a \in Seq(S), NEW b \in Seq(S), NEW c \in Seq(S)
  PROVE  (a \o b) \o c = a \o (b \o c)
  OBVIOUS

\* The rest of a sequence, cut before its i-th element.
LEMMA Split ==
  ASSUME NEW S, NEW o \in Seq(S), NEW p \in 0..Len(o), NEW i \in p + 1..Len(o)
  PROVE  SubSeq(o, p + 1, Len(o)) = SubSeq(o, p + 1, i - 1) \o SubSeq(o, i, Len(o))
  OBVIOUS

\* The first element of the rest of a sequence, taken out.
LEMMA Uncons ==
  ASSUME NEW S, NEW v \in Seq(S), NEW o \in Seq(S), NEW i \in 1..Len(o)
  PROVE  v \o SubSeq(o, i, Len(o)) = (v \o <<o[i]>>) \o SubSeq(o, i + 1, Len(o))
<1> DEFINE x == <<o[i]>>
           t == SubSeq(o, i + 1, Len(o))
<1>1. SubSeq(o, i, Len(o)) = x \o t
  OBVIOUS
<1>2. x \in Seq(S) /\ t \in Seq(S)
  OBVIOUS
<1> HIDE DEF x, t
<1>3. v \o (x \o t) = (v \o x) \o t
  BY <1>2, SMTT(30)
<1>4. v \o SubSeq(o, i, Len(o)) = (v \o x) \o t
  BY <1>1, <1>3, Zenon
<1>5. QED
  BY <1>4, Zenon DEF x, t

\* x between v and t gives way to d.
Exchanged(v, x, t, d) ==
  [(v \o <<x>>) \o t EXCEPT ![Len(v) + 1] = d] = (v \o <<d>>) \o t

\* The element after the first of two sequences, replaced.
LEMMA ReplaceAt ==
  ASSUME NEW v \in Seq(Item), NEW x \in Item, NEW t \in Seq(Item), NEW d \in Item
  PROVE  Exchanged(v, x, t, d)
<1> DEFINE a == (v \o <<x>>) \o t
           b == (v \o <<d>>) \o t
           n == Len(v) + 1
           c == [a EXCEPT ![n] = d]
<1>1. /\ a \in Seq(Item) /\ b \in Seq(Item)
      /\ Len(a) = Len(v) + 1 + Len(t) /\ Len(b) = Len(a)
      /\ n \in 1..Len(a)
  OBVIOUS
<1>2. b[n] = d
  OBVIOUS
<1>3. \A k \in 1..Len(a) : k # n => a[k] = b[k]
  OBVIOUS
<1> HIDE DEF a, b, n
<1>4. c \in Seq(Item) /\ Len(c) = Len(a)
  BY <1>1
<1>5. \A k \in 1..Len(a) : c[k] = b[k]
  BY <1>1, <1>2, <1>3
<1> HIDE DEF c
<1>6. c = b
  BY <1>1, <1>4, <1>5
<1>7. QED
  BY <1>6, Zenon DEF Exchanged, a, b, c, n

\* v is w and the statements of o between p and i.
PassedTo(o, w, p, i, v) ==
  /\ v \in Seq(Item)
  /\ Len(v) = Len(w) + (i - 1 - p)
  /\ w \o SubSeq(o, p + 1, Len(o)) = v \o SubSeq(o, i, Len(o))

\* What is woven when the statements before the next placeholder are passed.
LEMMA Passed ==
  ASSUME NEW o \in Seq(Item), NEW w \in Seq(Item),
         NEW p \in 0..Len(o), NEW i \in p + 1..Len(o)
  PROVE  PassedTo(o, w, p, i, w \o SubSeq(o, p + 1, i - 1))
<1> DEFINE m == SubSeq(o, p + 1, i - 1)
           t == SubSeq(o, i, Len(o))
<1>1. SubSeq(o, p + 1, Len(o)) = m \o t
  BY Split, Zenon
<1>2. m \in Seq(Item) /\ Len(m) = i - 1 - p /\ t \in Seq(Item)
  OBVIOUS
<1> HIDE DEF m, t
<1>3. w \o m \in Seq(Item) /\ Len(w \o m) = Len(w) + Len(m)
  BY <1>2, CatType, Zenon
<1>4. w \o (m \o t) = (w \o m) \o t
  BY <1>2, SMTT(30)
<1>5. w \o SubSeq(o, p + 1, Len(o)) = (w \o m) \o t
  BY <1>1, <1>4, Zenon
<1>6. PassedTo(o, w, p, i, w \o m)
  BY <1>2, <1>3, <1>5, Zenon DEF PassedTo, t
<1>7. QED
  BY <1>6, Zenon DEF m

\* The block v and the rest of o from i on, before and after the placeholder
\* o[i] makes way for c.
MakesWay(v, o, i, c) ==
  LET b == Without(v \o SubSeq(o, i, Len(o)), Len(v))
  IN /\ b = v \o SubSeq(o, i + 1, Len(o))
     /\ With(b, Len(v), c) = (v \o c) \o SubSeq(o, i + 1, Len(o))

\* A placeholder that is first in the rest of a block, replaced by code.
LEMMA Replaced ==
  ASSUME NEW v \in Seq(Item), NEW o \in Seq(Item), NEW i \in 1..Len(o),
         NEW c \in Seq(Item)
  PROVE  MakesWay(v, o, i, c)
<1> DEFINE r == SubSeq(o, i, Len(o))
           t == SubSeq(o, i + 1, Len(o))
<1>1. r \in Seq(Item) /\ Len(r) > 0 /\ SubSeq(r, 2, Len(r)) = t /\ t \in Seq(Item)
  BY Rest
<1> HIDE DEF r, t
<1>2. Without(v \o r, Len(v)) = v \o t
  BY <1>1, RemoveAt, Zenon
<1>3. With(v \o t, Len(v), c) = (v \o c) \o t
  BY <1>1, InsertAt, ZenonT(30)
<1>4. QED
  BY <1>2, <1>3, Zenon DEF MakesWay, r, t

----------------------------------------------------------------------------
(* The inductive invariant.  The modifier is what the woven part is longer  *)
(* than the part of the block it stands for, so that recorded index plus    *)
(* modifier is the length of what is woven before the placeholder.          *)

Lengths ==
  pc # "aborted" => /\ modifier = Len(woven) - Gone
                    /\ Len(block) = Len(woven) + Len(orig) - Gone
InHand ==
  /\ pc = "chunks" => startIdx = Len(woven)
  /\ pc = "calls" => pos > 0
IInv == TypeOK /\ Lengths /\ InHand /\ WovenInPlace

\* n statements of a chunk's text, numbered from 1 on.
LEMMA TextType ==
  ASSUME NEW i \in Nat, NEW n \in Nat, NEW text \in Texts
  PROVE  /\ [k \in 1..n |-> <<text, i, k>>] \in Seq(Item)
         /\ Len([k \in 1..n |-> <<text, i, k>>]) = n
  BY DEF Item, Kinds

\* n statements of code, numbered from 1 on.
LEMMA CodeType0 ==
  ASSUME NEW i \in Nat, NEW n \in Nat
  PROVE  /\ [k \in 1..n |-> <<"code", i, k>>] \in Seq(Item)
         /\ Len([k \in 1..n |-> <<"code", i, k>>]) = n
  BY DEF Item, Kinds, Texts

\* The invariant holds before the first placeholder is resolved.
LEMMA InitInv == Init => IInv
<1> SUFFICES ASSUME Init PROVE IInv
  BY Zenon
<1>1. PICK n \in 1..MaxBlock : \E kind \in [1..n -> Placeholders \cup {"stmt"}] :
        orig = [i \in 1..n |-> <<kind[i], i, 0>>]
  BY Zenon DEF Init
<1>2. PICK kind \in [1..n -> Placeholders \cup {"stmt"}] :
        orig = [i \in 1..n |-> <<kind[i], i, 0>>]
  BY <1>1, Zenon
<1>3. orig \in Seq(Item) /\ Len(orig) = n
  BY <1>2 DEF Item, Kinds
<1>4. PICK m \in 0..MaxCalls : body = [i \in 1..m |-> <<"front", i, 0>>]
  BY Zenon DEF Init
<1>5. body \in Seq(Item)
  BY <1>4 DEF Item, Kinds
<1>6. woven = <<>> /\ block = orig /\ SubSeq(orig, 1, Len(orig)) = orig
  BY <1>3 DEF Init
<1>7. TypeOK
  <2>1. moved \in BOOLEAN
    BY Zenon DEF Init
  <2>2. QED
    BY <2>1, <1>3, <1>5, <1>6 DEF Init, TypeOK
<1>8. Lengths /\ InHand
  BY <1>3, <1>6 DEF Init, Lengths, InHand, Gone
<1>9. WovenInPlace
  <2>1. Expected = woven \o SubSeq(orig, 1, Len(orig))
    BY DEF Init, Expected, Gone
  <2>2. QED
    BY <2>1, <1>3, <1>6 DEF WovenInPlace
<1>10. QED
  BY <1>7, <1>8, <1>9, Zenon DEF IInv

\* The placeholder that is taken next: v is what is woven before it.
LEMMA Taken ==
  ASSUME IInv, NEW i \in 1..Len(orig), NEW K, NextPlaceholder(i, K),
         NEW v, v = woven \o Between(i)
  PROVE  /\ v \in Seq(Item) /\ Len(v) = (i - 1) + modifier
         /\ Len(block) = Len(v) + Len(orig) - i + 1
         /\ ~moved => block = v \o SubSeq(orig, i, Len(orig))
         /\ pc = "next" /\ pos' = i /\ orig' = orig
         /\ i \in pos + 1..Len(orig)
<1>1. /\ pc = "next" /\ pos' = i /\ orig' = orig /\ i \in pos + 1..Len(orig)
      /\ Gone = pos
  BY Zenon DEF NextPlaceholder, Gone
<1>2. orig \in Seq(Item) /\ woven \in Seq(Item) /\ pos \in 0..Len(orig)
  BY Zenon DEF IInv, TypeOK
<1>3. /\ v \in Seq(Item) /\ Len(v) = Len(woven) + (i - 1 - pos)
      /\ woven \o SubSeq(orig, pos + 1, Len(orig)) = v \o SubSeq(orig, i, Len(orig))
  <2>1. v = woven \o SubSeq(orig, pos + 1, i - 1)
    BY Zenon DEF Between
  <2>2. PassedTo(orig, woven, pos, i, woven \o SubSeq(orig, pos + 1, i - 1))
    BY <1>1, <1>2, Passed, Zenon
  <2>3. QED
    BY <2>1, <2>2, Zenon DEF PassedTo
<1>4. modifier = Len(woven) - pos /\ Len(block) = Len(woven) + Len(orig) - pos
  BY <1>1, Zenon DEF IInv, Lengths
<1>5. ~moved => block = woven \o SubSeq(orig, pos + 1, Len(orig))
  BY <1>1, Zenon DEF IInv, WovenInPlace, Expected
<1>6. ~moved => block = v \o SubSeq(orig, i, Len(orig))
  BY <1>3, <1>5, Zenon
<1>7. Len(v) = (i - 1) + modifier /\ Len(block) = Len(v) + Len(orig) - i + 1
  BY <1>1, <1>2, <1>3, <1>4
<1>8. QED
  BY <1>1, <1>3, <1>6, <1>7, Zenon

\* The placeholder makes way: pointcuts with chunks, and with nothing at all.
LEMMA Removed ==
  ASSUME IInv, NEW i \in 1..Len(orig), NEW K, NextPlaceholder(i, K),
         InsertModifier(i), woven' = woven \o Between(i),
         pc' \in {"next", "chunks"}, chunks' \in Nat,
         UNCHANGED <<front, errcount, moved>>
  PROVE  IInv'
<1> DEFINE v == woven \o Between(i)
<1>1. /\ v \in Seq(Item) /\ Len(v) = (i - 1) + modifier
      /\ Len(block) = Len(v) + Len(orig) - i + 1
      /\ ~moved => block = v \o SubSeq(orig, i, Len(orig))
      /\ pc = "next" /\ pos' = i /\ orig' = orig
      /\ i \in pos + 1..Len(orig)
  BY Taken, Zenon
<1>2. woven' = v
  BY Zenon
<1> HIDE DEF v
<1>3. /\ block' = Without(block, Len(v)) /\ startIdx' = Len(v)
      /\ modifier' = modifier - 1 /\ phIdx' = 0
  BY <1>1, Zenon DEF InsertModifier
<1>4. orig \in Seq(Item) /\ block \in Seq(Item) /\ modifier \in Int /\ Len(orig) \in Nat
  BY DEF IInv, TypeOK
<1>5. Len(v) \in 0..Len(block) - 1
  BY <1>1, <1>4
<1>6. block' \in Seq(Item) /\ Len(block') = Len(block) - 1
  BY <1>3, <1>4, <1>5, WithoutType, Zenon
<1>7. TypeOK'
  <2>1. moved' \in BOOLEAN
    BY Zenon DEF IInv, TypeOK
  <2>2. QED
    BY <2>1, <1>1, <1>2, <1>3, <1>4, <1>6 DEF IInv, TypeOK, front
<1>8. Gone' = i
  BY <1>1, Zenon DEF Gone
<1>9. Lengths' /\ InHand'
  BY <1>1, <1>2, <1>3, <1>4, <1>6, <1>8, SMTT(30) DEF Lengths, InHand
<1>10. WovenInPlace'
  <2>1. SUFFICES ASSUME ~moved PROVE block' = Expected'
    BY Zenon DEF WovenInPlace
  <2>2. MakesWay(v, orig, i, v)
    BY <1>1, <1>4, Replaced, Zenon
  <2>3. block' = v \o SubSeq(orig, i + 1, Len(orig))
    BY <2>1, <2>2, <1>1, <1>3, Zenon DEF MakesWay
  <2>4. QED
    BY <2>3, <1>1, <1>2, <1>8, Zenon DEF Expected
<1>11. QED
  BY <1>7, <1>9, <1>10, Zenon DEF IInv

\* What CallFails and NoImplementation do.
Keeps(i) ==
  /\ woven' = woven \o Between(i) \o << orig[i] >>
  /\ errcount' = errcount + 1
  /\ UNCHANGED <<weaving, pc, startIdx, phIdx, chunks, front, moved>>

\* The placeholder stays in the block: calls and ::IMPLEMENTATION that fail.
LEMMA Kept ==
  ASSUME IInv, NEW i \in 1..Len(orig), NEW K, NextPlaceholder(i, K), Keeps(i)
  PROVE  IInv'
<1> DEFINE v == woven \o Between(i)
           x == << orig[i] >>
<1>1. /\ v \in Seq(Item) /\ Len(v) = (i - 1) + modifier
      /\ Len(block) = Len(v) + Len(orig) - i + 1
      /\ ~moved => block = v \o SubSeq(orig, i, Len(orig))
      /\ pc = "next" /\ pos' = i /\ orig' = orig
      /\ i \in pos + 1..Len(orig)
  BY Taken, Zenon
<1>2. woven' = v \o x
  BY Zenon DEF Keeps
<1> HIDE DEF v
<1>3. /\ orig \in Seq(Item) /\ block \in Seq(Item) /\ modifier \in Int
      /\ Len(orig) \in Nat /\ errcount \in Nat
  BY DEF IInv, TypeOK
<1>4. x \in Seq(Item) /\ Len(x) = 1
  BY <1>3
<1>5. v \o SubSeq(orig, i, Len(orig)) = (v \o x) \o SubSeq(orig, i + 1, Len(orig))
  BY <1>1, <1>3, Uncons, Zenon
<1> HIDE DEF x
<1>6. v \o x \in Seq(Item) /\ Len(v \o x) = Len(v) + 1
  BY <1>1, <1>4, CatType, Zenon
<1>7. /\ UNCHANGED <<block, modifier, pc, startIdx, phIdx, chunks, body,
                     bodyModifier, callIdx, moved>>
      /\ errcount' \in Nat
  BY <1>3 DEF Keeps, weaving, front
<1>8. TypeOK'
  <2>1. moved' \in BOOLEAN
    BY <1>7, Zenon DEF IInv, TypeOK
  <2>2. QED
    BY <2>1, <1>1, <1>2, <1>3, <1>6, <1>7 DEF IInv, TypeOK
<1>9. Gone' = i /\ pc' = "next"
  BY <1>1, <1>7, Zenon DEF Gone
<1>10. Lengths' /\ InHand'
  BY <1>1, <1>2, <1>3, <1>6, <1>7, <1>9 DEF Lengths, InHand
<1>11. WovenInPlace'
  <2>1. SUFFICES ASSUME ~moved PROVE block' = Expected'
    BY <1>7, Zenon DEF WovenInPlace
  <2>2. block' = (v \o x) \o SubSeq(orig, i + 1, Len(orig))
    BY <2>1, <1>1, <1>5, <1>7, Zenon
  <2>3. QED
    BY <2>2, <1>1, <1>2, <1>9, Zenon DEF Expected
<1>12. QED
  BY <1>8, <1>10, <1>11, Zenon DEF IInv

\* A call that is replaced by its chunk.
LEMMA CallStep ==
  ASSUME IInv, NEW i \in 1..Len(orig), NEW n \in 0..MaxCode, InjectCall(i, n)
  PROVE  IInv'
<1> DEFINE v == woven \o Between(i)
           c == [k \in 1..n |-> <<"code", i, k>>]
<1>1. NextPlaceholder(i, {"call"})
  BY Zenon DEF InjectCall
<1>2. /\ v \in Seq(Item) /\ Len(v) = (i - 1) + modifier
      /\ Len(block) = Len(v) + Len(orig) - i + 1
      /\ ~moved => block = v \o SubSeq(orig, i, Len(orig))
      /\ pc = "next" /\ pos' = i /\ orig' = orig
      /\ i \in pos + 1..Len(orig)
  BY <1>1, Taken, Zenon
<1>3. c \in Seq(Item) /\ Len(c) = n /\ n \in Nat
  BY CodeType0
<1>4. /\ woven' = v \o c
      /\ block' = With(Without(block, (i - 1) + modifier), (i - 1) + modifier, c)
      /\ modifier' = modifier - 1 + n
      /\ UNCHANGED <<pc, startIdx, phIdx, chunks, body, bodyModifier, callIdx,
                     errcount, moved>>
  BY Zenon DEF InjectCall, front
<1> HIDE DEF v, c
<1>5. block' = With(Without(block, Len(v)), Len(v), c)
  BY <1>2, <1>4, Zenon
<1>6. orig \in Seq(Item) /\ block \in Seq(Item) /\ modifier \in Int /\ Len(orig) \in Nat
  BY DEF IInv, TypeOK
<1>7. /\ Without(block, Len(v)) \in Seq(Item)
      /\ Len(Without(block, Len(v))) = Len(block) - 1
  <2>1. Len(v) \in 0..Len(block) - 1
    BY <1>2, <1>6
  <2>2. QED
    BY <2>1, <1>6, WithoutType, Zenon
<1>8. block' \in Seq(Item) /\ Len(block') = Len(block) - 1 + n
  <2> DEFINE b == Without(block, Len(v))
  <2>1. b \in Seq(Item) /\ Len(b) = Len(block) - 1
    BY <1>7, Zenon
  <2>2. block' = With(b, Len(v), c)
    BY <1>5, Zenon
  <2> HIDE DEF b
  <2>3. Len(v) \in 0..Len(b)
    BY <2>1, <1>2, <1>6
  <2>4. QED
    BY <2>1, <2>2, <2>3, <1>3, WithType, Zenon
<1>9. v \o c \in Seq(Item) /\ Len(v \o c) = Len(v) + n
  BY <1>2, <1>3, CatType, Zenon
<1>10. TypeOK'
  <2>1. moved' \in BOOLEAN
    BY <1>4, Zenon DEF IInv, TypeOK
  <2>2. QED
    BY <2>1, <1>2, <1>3, <1>4, <1>6, <1>8, <1>9 DEF IInv, TypeOK
<1>11. Gone' = i /\ pc' = "next"
  BY <1>2, <1>4, Zenon DEF Gone
<1>12. Lengths' /\ InHand'
  BY <1>2, <1>3, <1>4, <1>6, <1>8, <1>9, <1>11 DEF Lengths, InHand
<1>13. WovenInPlace'
  <2>1. SUFFICES ASSUME ~moved PROVE block' = Expected'
    BY <1>4, Zenon DEF WovenInPlace
  <2>2. MakesWay(v, orig, i, c)
    BY <1>2, <1>3, <1>6, Replaced, Zenon
  <2>3. block' = (v \o c) \o SubSeq(orig, i + 1, Len(orig))
    BY <2>1, <2>2, <1>2, <1>5, Zenon DEF MakesWay
  <2>4. QED
    BY <2>3, <1>2, <1>4, <1>11, Zenon DEF Expected
<1>14. QED
  BY <1>10, <1>12, <1>13, Zenon DEF IInv

\* A default body set in the placeholder's place.
LEMMA DefaultStep ==
  ASSUME IInv, NEW i \in 1..Len(orig), InjectDefault(i)
  PROVE  IInv'
<1> DEFINE v == woven \o Between(i)
           d == <<"default", i, 0>>
           c == <<d>>
<1>1. NextPlaceholder(i, {"defaulted"})
  BY Zenon DEF InjectDefault
<1>2. /\ v \in Seq(Item) /\ Len(v) = (i - 1) + modifier
      /\ Len(block) = Len(v) + Len(orig) - i + 1
      /\ ~moved => block = v \o SubSeq(orig, i, Len(orig))
      /\ pc = "next" /\ pos' = i /\ orig' = orig
      /\ i \in pos + 1..Len(orig)
  BY <1>1, Taken, Zenon
<1>3. d \in Item /\ c \in Seq(Item) /\ Len(c) = 1
  BY DEF Item, Kinds
<1>4. /\ woven' = v \o c
      /\ UNCHANGED <<modifier, startIdx, phIdx, chunks, body, bodyModifier, callIdx,
                     errcount>>
  BY Zenon DEF InjectDefault, front
<1>5. moved' = (moved \/ modifier # 0)
  BY Zenon DEF InjectDefault
<1>6. \/ pc' = "aborted" /\ block' = block
      \/ pc' = "next" /\ block' = [block EXCEPT ![i] = d]
  BY <1>2, Zenon DEF InjectDefault
<1> HIDE DEF v, c, d
<1>7. /\ orig \in Seq(Item) /\ block \in Seq(Item) /\ modifier \in Int
      /\ Len(orig) \in Nat
  BY DEF IInv, TypeOK
<1>8. v \o c \in Seq(Item) /\ Len(v \o c) = Len(v) + 1
  BY <1>2, <1>3, CatType, Zenon
<1>9. block' \in Seq(Item) /\ Len(block') = Len(block)
  BY <1>3, <1>6, <1>7, SMTT(30)
<1>10. TypeOK'
  <2>1. moved' \in BOOLEAN
    BY <1>5, Zenon
  <2>2. QED
    BY <2>1, <1>2, <1>4, <1>6, <1>7, <1>8, <1>9 DEF IInv, TypeOK
<1>11. Gone' = i
  BY <1>2, <1>6, Zenon DEF Gone
<1>12. Lengths' /\ InHand'
  BY <1>2, <1>4, <1>6, <1>7, <1>8, <1>9, <1>11 DEF Lengths, InHand
<1>13. WovenInPlace'
  <2>1. SUFFICES ASSUME ~moved', pc' # "aborted" PROVE block' = Expected'
    BY Zenon DEF WovenInPlace
  <2>2. ~moved /\ modifier = 0
    BY <2>1, <1>5, Zenon
  <2>3. block' = [block EXCEPT ![i] = d] /\ i = Len(v) + 1
    BY <2>1, <2>2, <1>2, <1>6, <1>7
  <2> DEFINE x == orig[i]
             t == SubSeq(orig, i + 1, Len(orig))
  <2>4. v \o SubSeq(orig, i, Len(orig)) = (v \o <<x>>) \o t
    BY <1>2, <1>7, Uncons, Zenon
  <2>5. x \in Item /\ t \in Seq(Item)
    BY <1>7
  <2>6. block = (v \o <<x>>) \o t
    BY <2>2, <2>4, <1>2, Zenon
  <2>7. (v \o c) \o t = Expected'
    BY <1>2, <1>4, <1>11, Zenon DEF Expected
  <2> HIDE DEF x, t
  <2>8. Exchanged(v, x, t, d)
    BY <2>5, <1>2, <1>3, ReplaceAt, Zenon
  <2>9. QED
    BY <2>3, <2>6, <2>7, <2>8, Zenon DEF c, Exchanged
<1>14. QED
  BY <1>10, <1>12, <1>13, Zenon DEF IInv

\* replaceCalls starts: the block is as it was.
LEMMA FindStep ==
  ASSUME IInv, NEW i \in 1..Len(orig), FindImplementation(i)
  PROVE  IInv'
<1> DEFINE v == woven \o Between(i)
<1>1. NextPlaceholder(i, {"implementation"})
  BY Zenon DEF FindImplementation
<1>2. /\ v \in Seq(Item) /\ Len(v) = (i - 1) + modifier
      /\ Len(block) = Len(v) + Len(orig) - i + 1
      /\ ~moved => block = v \o SubSeq(orig, i, Len(orig))
      /\ pc = "next" /\ pos' = i /\ orig' = orig
      /\ i \in pos + 1..Len(orig)
  BY <1>1, Taken, Zenon
<1>3. /\ woven' = v /\ pc' = "calls" /\ callIdx' = 0
      /\ UNCHANGED <<block, modifier, startIdx, phIdx, chunks, body, bodyModifier,
                     errcount, moved>>
  BY Zenon DEF FindImplementation, weaving
<1> HIDE DEF v
<1>4. orig \in Seq(Item) /\ Len(orig) \in Nat /\ modifier \in Int
  BY DEF IInv, TypeOK
<1>5. TypeOK'
  <2>1. moved' \in BOOLEAN
    BY <1>3, Zenon DEF IInv, TypeOK
  <2>2. QED
    BY <2>1, <1>2, <1>3 DEF IInv, TypeOK
<1>6. Gone' = i - 1
  BY <1>2, <1>3, Zenon DEF Gone
<1>7. Lengths' /\ InHand'
  BY <1>2, <1>3, <1>4, <1>6 DEF Lengths, InHand
<1>8. WovenInPlace'
  <2>1. SUFFICES ASSUME ~moved PROVE block' = Expected'
    BY <1>3, Zenon DEF WovenInPlace
  <2>2. Expected' = v \o SubSeq(orig, i, Len(orig))
    BY <1>2, <1>3, <1>4, <1>6, SMTT(30) DEF Expected
  <2>3. QED
    BY <2>1, <2>2, <1>2, <1>3, Zenon
<1>9. QED
  BY <1>5, <1>7, <1>8 DEF IInv

\* A chunk inserted after those before it.
LEMMA ChunkStep ==
  ASSUME IInv, NEW n \in 0..MaxCode, InsertChunk(n)
  PROVE  IInv'
<1> DEFINE c == Code(pos, n)
           t == SubSeq(orig, pos + 1, Len(orig))
<1>1. /\ orig \in Seq(Item) /\ block \in Seq(Item) /\ woven \in Seq(Item)
      /\ modifier \in Int /\ Len(orig) \in Nat /\ phIdx \in Nat /\ chunks \in Nat
      /\ pos \in 0..Len(orig) /\ n \in Nat
  BY DEF IInv, TypeOK
<1>2. c \in Seq(Item) /\ Len(c) = n
  BY <1>1 DEF Code, Item, Kinds, Texts
<1>3. t \in Seq(Item)
  BY <1>1
<1>4. /\ pc = "chunks" /\ pc' = "chunks"
      /\ block' = With(block, startIdx, c) /\ woven' = woven \o c
      /\ modifier' = modifier + Len(c) /\ startIdx' = startIdx + Len(c)
      /\ phIdx' = phIdx + Len(c) /\ chunks' = chunks + 1
      /\ UNCHANGED <<orig, pos, body, bodyModifier, callIdx, errcount, moved>>
  BY Zenon DEF InsertChunk, InsertCode, front
<1>5. Gone = pos /\ Gone' = pos
  BY <1>4, Zenon DEF Gone
<1>6. /\ startIdx = Len(woven) /\ modifier = Len(woven) - pos
      /\ Len(block) = Len(woven) + Len(orig) - pos
  BY <1>4, <1>5, Zenon DEF IInv, InHand, Lengths
<1>7. ~moved => block = woven \o t
  BY <1>4, <1>5, Zenon DEF IInv, WovenInPlace, Expected
<1>8. ~moved' => Expected' = (woven \o c) \o t
  BY <1>4, <1>5, Zenon DEF Expected
<1> HIDE DEF c, t
<1>9. block' \in Seq(Item) /\ Len(block') = Len(block) + n
  <2>1. startIdx \in 0..Len(block)
    BY <1>1, <1>6
  <2>2. QED
    BY <2>1, <1>1, <1>2, <1>4, WithType, Zenon
<1>10. woven' \in Seq(Item) /\ Len(woven') = Len(woven) + n
  BY <1>1, <1>2, <1>4, CatType, Zenon
<1>11. TypeOK'
  <2>1. moved' \in BOOLEAN
    BY <1>4, Zenon DEF IInv, TypeOK
  <2>2. QED
    BY <2>1, <1>1, <1>2, <1>4, <1>6, <1>9, <1>10 DEF IInv, TypeOK
<1>12. Lengths' /\ InHand'
  BY <1>1, <1>2, <1>4, <1>5, <1>6, <1>9, <1>10 DEF Lengths, InHand
<1>13. WovenInPlace'
  <2>1. SUFFICES ASSUME ~moved PROVE block' = (woven \o c) \o t
    BY <1>4, <1>8, Zenon DEF WovenInPlace
  <2>2. With(woven \o t, Len(woven), c) = (woven \o c) \o t
    BY <1>1, <1>2, <1>3, InsertAt, Zenon
  <2>3. QED
    BY <2>1, <2>2, <1>4, <1>6, <1>7, Zenon
<1>14. QED
  BY <1>11, <1>12, <1>13, Zenon DEF IInv

\* The front-end's sequence is resolved; the block is not touched.
LEMMA ReplaceStep ==
  ASSUME IInv, NEW n \in 0..MaxCode, NEW text \in Texts, ReplaceCall(n, text)
  PROVE  IInv'
<1> DEFINE at == body[callIdx + 1][2]
           c == [k \in 1..n |-> <<text, at, k>>]
           b == Without(body, callIdx)
<1>1. /\ body \in Seq(Item) /\ callIdx \in Nat /\ bodyModifier \in Int /\ n \in Nat
      /\ callIdx \in 0..Len(body) - 1 /\ pc = "calls"
  BY DEF IInv, TypeOK, ReplaceCall
<1>2. (callIdx - bodyModifier) + bodyModifier = callIdx
  BY <1>1
<1>3. body' = With(b, callIdx, c) /\ callIdx' = callIdx + n
  BY <1>2, Zenon DEF ReplaceCall
<1>4. /\ bodyModifier' = bodyModifier - 1 + n
      /\ UNCHANGED <<orig, block, modifier, pos, pc, startIdx, phIdx, chunks, errcount,
                     woven, moved>>
  BY Zenon DEF ReplaceCall, weaving
<1>5. at \in Nat
  BY <1>1 DEF Item
<1> HIDE DEF at
<1>6. c \in Seq(Item) /\ Len(c) = n
  BY <1>1, <1>5, TextType, Zenon
<1>7. b \in Seq(Item) /\ Len(b) = Len(body) - 1
  BY <1>1, WithoutType, Zenon
<1> HIDE DEF b, c
<1>8. body' \in Seq(Item)
  BY <1>1, <1>3, <1>6, <1>7, WithType, Zenon
<1>9. TypeOK'
  <2>1. moved' \in BOOLEAN
    BY <1>4, Zenon DEF IInv, TypeOK
  <2>2. QED
    BY <2>1, <1>1, <1>3, <1>4, <1>8 DEF IInv, TypeOK
<1>10. Lengths' /\ InHand'
  BY <1>4, Zenon DEF IInv, Lengths, InHand, Gone
<1>11. WovenInPlace'
  <2>1. Expected' = Expected
    BY <1>4, Zenon DEF Expected, Gone
  <2>2. QED
    BY <2>1, <1>4, Zenon DEF IInv, WovenInPlace
<1>12. QED
  BY <1>9, <1>10, <1>11 DEF IInv

\* A call whose chunk is not found: ::IMPLEMENTATION stays in the block.
LEMMA ReplaceFailsStep ==
  ASSUME IInv, ReplaceCallFails
  PROVE  IInv'
<1> DEFINE x == <<orig[pos]>>
<1>1. /\ orig \in Seq(Item) /\ woven \in Seq(Item) /\ Len(orig) \in Nat
      /\ pos \in 0..Len(orig) /\ errcount \in Nat
      /\ modifier \in Int
  BY DEF IInv, TypeOK
<1>2. /\ pc = "calls" /\ pc' = "next" /\ errcount' = errcount + 1
      /\ woven' = Append(woven, orig[pos])
      /\ UNCHANGED <<orig, block, modifier, pos, startIdx, phIdx, chunks, body,
                     bodyModifier, callIdx, moved>>
  BY Zenon DEF ReplaceCallFails, weaving, front
<1>3. Gone = pos - 1 /\ Gone' = pos /\ pos \in 1..Len(orig)
  BY <1>1, <1>2 DEF IInv, InHand, Gone
<1>4. orig[pos] \in Item
  BY <1>1, <1>3
<1>5. woven' = woven \o x /\ woven' \in Seq(Item) /\ Len(woven') = Len(woven) + 1
  BY <1>1, <1>2, <1>4
<1>6. woven \o SubSeq(orig, pos, Len(orig)) = (woven \o x) \o SubSeq(orig, pos + 1, Len(orig))
  BY <1>1, <1>3, Uncons, Zenon
<1> HIDE DEF x
<1>7. TypeOK'
  <2>1. moved' \in BOOLEAN
    BY <1>2, Zenon DEF IInv, TypeOK
  <2>2. QED
    BY <2>1, <1>1, <1>2, <1>5 DEF IInv, TypeOK
<1>8. Lengths' /\ InHand'
  BY <1>1, <1>2, <1>3, <1>5 DEF IInv, Lengths, InHand
<1>9. WovenInPlace'
  <2>1. SUFFICES ASSUME ~moved PROVE block' = Expected'
    BY <1>2, Zenon DEF WovenInPlace
  <2>2. block = woven \o SubSeq(orig, Gone + 1, Len(orig)) /\ Gone + 1 = pos
    BY <2>1, <1>1, <1>2, <1>3, SMTT(30) DEF IInv, WovenInPlace, Expected
  <2>3. Expected' = (woven \o x) \o SubSeq(orig, pos + 1, Len(orig))
    BY <1>2, <1>3, <1>5, Zenon DEF Expected
  <2>4. QED
    BY <2>2, <2>3, <1>2, <1>6, Zenon
<1>10. QED
  BY <1>7, <1>8, <1>9, Zenon DEF IInv

\* The resolved sequence takes the place of ::IMPLEMENTATION.
LEMMA ImplementationStep ==
  ASSUME IInv, InsertImplementation
  PROVE  IInv'
<1>1. /\ orig \in Seq(Item) /\ woven \in Seq(Item) /\ Len(orig) \in Nat
      /\ pos \in 0..Len(orig) /\ body \in Seq(Item) /\ block \in Seq(Item)
      /\ modifier \in Int
  BY DEF IInv, TypeOK
<1>2. /\ pc = "calls" /\ pc' = "next" /\ woven' = woven \o body
      /\ modifier' = modifier - 1 + Len(body)
      /\ block' = With(Without(block, (pos - 1) + modifier), (pos - 1) + modifier, body)
      /\ UNCHANGED <<orig, pos, startIdx, phIdx, chunks, body, bodyModifier, callIdx,
                     errcount, moved>>
  BY Zenon DEF InsertImplementation, front
<1>3. Gone = pos - 1 /\ Gone' = pos /\ pos \in 1..Len(orig)
  BY <1>1, <1>2 DEF IInv, InHand, Gone
<1>4. /\ modifier = Len(woven) - (pos - 1)
      /\ Len(block) = Len(woven) + Len(orig) - (pos - 1)
  BY <1>2, <1>3, Zenon DEF IInv, Lengths
<1>5. (pos - 1) + modifier = Len(woven)
  BY <1>1, <1>3, <1>4
<1> DEFINE b == Without(block, Len(woven))
<1>6. b \in Seq(Item) /\ Len(b) = Len(block) - 1
  <2>1. Len(woven) \in 0..Len(block) - 1
    BY <1>1, <1>3, <1>4
  <2>2. QED
    BY <2>1, <1>1, WithoutType, Zenon
<1>7. block' = With(b, Len(woven), body)
  BY <1>2, <1>5, Zenon
<1> HIDE DEF b
<1>8. block' \in Seq(Item) /\ Len(block') = Len(b) + Len(body)
  <2>1. Len(woven) \in 0..Len(b)
    BY <1>1, <1>3, <1>4, <1>6
  <2>2. QED
    BY <2>1, <1>1, <1>6, <1>7, WithType, Zenon
<1>9. woven' \in Seq(Item) /\ Len(woven') = Len(woven) + Len(body)
  BY <1>1, <1>2, CatType, Zenon
<1>10. TypeOK'
  <2>1. moved' \in BOOLEAN
    BY <1>2, Zenon DEF IInv, TypeOK
  <2>2. QED
    BY <2>1, <1>1, <1>2, <1>8, <1>9 DEF IInv, TypeOK
<1>11. Lengths' /\ InHand'
  <2> DEFINE m == Len(body)
  <2>1. m \in Nat /\ Len(woven) \in Nat
    BY <1>1
  <2>2. /\ Len(block') = Len(block) - 1 + m /\ Len(woven') = Len(woven) + m
        /\ modifier' = modifier - 1 + m /\ Len(block) \in Nat
    BY <1>1, <1>2, <1>6, <1>8, <1>9
  <2> HIDE DEF m
  <2>3. /\ modifier' = Len(woven') - pos
        /\ Len(block') = Len(woven') + Len(orig) - pos
    BY <2>1, <2>2, <1>1, <1>4
  <2>4. QED
    BY <2>3, <1>2, <1>3, Zenon DEF Lengths, InHand
<1>12. WovenInPlace'
  <2>1. SUFFICES ASSUME ~moved PROVE block' = Expected'
    BY <1>2, Zenon DEF WovenInPlace
  <2>2. Gone + 1 = pos
    BY <1>1, <1>3
  <2>3. block = woven \o SubSeq(orig, pos, Len(orig))
    BY <2>1, <2>2, <1>2, Zenon DEF IInv, WovenInPlace, Expected
  <2>4. MakesWay(woven, orig, pos, body)
    BY <1>1, <1>3, Replaced, Zenon
  <2>5. block' = (woven \o body) \o SubSeq(orig, pos + 1, Len(orig))
    BY <2>3, <2>4, <1>7, Zenon DEF MakesWay, b
  <2>6. QED
    BY <2>5, <1>2, <1>3, Zenon DEF Expected
<1>13. QED
  BY <1>10, <1>11, <1>12 DEF IInv

\* The steps that leave the block as it is.
LEMMA QuietStep ==
  ASSUME IInv, ChunkFails \/ ParametersFail \/ ChunksEnd \/ Return \/ UNCHANGED vars
  PROVE  IInv'
<1>1. UNCHANGED <<orig, block, modifier, pos, startIdx, phIdx, body, bodyModifier,
                  callIdx, woven, moved>>
  <2>1. CASE ChunkFails
    BY <2>1, Zenon DEF ChunkFails, weaving, front
  <2>2. CASE ParametersFail
    BY <2>2, Zenon DEF ParametersFail, weaving, front
  <2>3. CASE ChunksEnd
    BY <2>3, Zenon DEF ChunksEnd, weaving, front
  <2>4. CASE Return
    BY <2>4, Zenon DEF Return, weaving, front
  <2>5. CASE UNCHANGED vars
    BY <2>5, Zenon DEF vars
  <2>6. QED
    BY <2>1, <2>2, <2>3, <2>4, <2>5, Zenon
<1>2. \/ pc' = pc
      \/ pc \in {"next", "chunks"} /\ pc' \in {"next", "done"}
  BY Zenon DEF ChunkFails, ParametersFail, ChunksEnd, Return, vars
<1>3. errcount' \in Nat /\ chunks' \in Nat
  BY DEF IInv, TypeOK, ChunkFails, ParametersFail, ChunksEnd, Return, vars
<1>4. TypeOK'
  <2>1. moved' \in BOOLEAN
    BY <1>1, Zenon DEF IInv, TypeOK
  <2>2. QED
    BY <2>1, <1>1, <1>2, <1>3, Zenon DEF IInv, TypeOK
<1>5. Gone' = Gone
  BY <1>1, <1>2, Zenon DEF Gone
<1>6. Lengths' /\ InHand'
  BY <1>1, <1>2, <1>5, Zenon DEF IInv, Lengths, InHand
<1>7. WovenInPlace'
  <2>1. Expected' = Expected
    BY <1>1, <1>5, Zenon DEF Expected
  <2>2. pc' # "aborted" => pc # "aborted"
    BY <1>2, Zenon
  <2>3. QED
    BY <2>1, <2>2, <1>1, Zenon DEF IInv, WovenInPlace
<1>8. QED
  BY <1>4, <1>6, <1>7, Zenon DEF IInv

\* Every step of the resolution keeps the invariant.
LEMMA NextInv == IInv /\ [Next]_vars => IInv'
<1> SUFFICES ASSUME IInv, [Next]_vars PROVE IInv'
  BY Zenon
<1>1. ASSUME NEW i \in 1..Len(orig), InjectNothing(i) PROVE IInv'
  <2>1. NextPlaceholder(i, {"pointcut"}) /\ InsertModifier(i) /\ woven' = woven \o Between(i)
    BY <1>1, Zenon DEF InjectNothing
  <2>2. pc' \in {"next", "chunks"} /\ chunks' \in Nat /\ UNCHANGED <<front, errcount, moved>>
    BY <1>1, <2>1, Zenon DEF InjectNothing, NextPlaceholder, IInv, TypeOK
  <2>3. QED
    BY <1>1, <2>1, <2>2, Removed, Zenon
<1>2. ASSUME NEW i \in 1..Len(orig), InjectChunks(i) PROVE IInv'
  <2>1. /\ NextPlaceholder(i, {"pointcut", "defaulted"}) /\ InsertModifier(i)
        /\ woven' = woven \o Between(i)
    BY <1>2, Zenon DEF InjectChunks
  <2>2. pc' \in {"next", "chunks"} /\ chunks' \in Nat /\ UNCHANGED <<front, errcount, moved>>
    BY <1>2, Zenon DEF InjectChunks
  <2>3. QED
    BY <1>2, <2>1, <2>2, Removed, Zenon
<1>3. ASSUME NEW i \in 1..Len(orig), CallFails(i) PROVE IInv'
  BY <1>3, Kept, Zenon DEF CallFails, Keeps
<1>4. ASSUME NEW i \in 1..Len(orig), NoImplementation(i) PROVE IInv'
  BY <1>4, Kept, Zenon DEF NoImplementation, Keeps
<1>5. ASSUME NEW i \in 1..Len(orig), InjectDefault(i) PROVE IInv'
  BY <1>5, DefaultStep, Zenon
<1>6. ASSUME NEW i \in 1..Len(orig), FindImplementation(i) PROVE IInv'
  BY <1>6, FindStep, Zenon
<1>7. ASSUME NEW i \in 1..Len(orig), NEW n \in 0..MaxCode, InjectCall(i, n) PROVE IInv'
  BY <1>7, CallStep, Zenon
<1>8. ASSUME NEW n \in 0..MaxCode, InsertChunk(n) PROVE IInv'
  BY <1>8, ChunkStep, Zenon
<1>9. ASSUME NEW n \in 0..MaxCode, NEW text \in Texts, ReplaceCall(n, text) PROVE IInv'
  BY <1>9, ReplaceStep, Zenon
<1>10. CASE ReplaceCallFails
  BY <1>10, ReplaceFailsStep, Zenon
<1>11. CASE InsertImplementation
  BY <1>11, ImplementationStep, Zenon
<1>12. CASE ChunkFails \/ ParametersFail \/ ChunksEnd \/ Return \/ UNCHANGED vars
  BY <1>12, QuietStep, Zenon
<1>13. Ended => UNCHANGED vars
  BY Zenon DEF Ended
<1>14. QED
  BY <1>1, <1>2, <1>3, <1>4, <1>5, <1>6, <1>7, <1>8, <1>9, <1>10, <1>11, <1>12, <1>13,
     Zenon DEF Next

----------------------------------------------------------------------------
(* Nothing is left to resolve: what is woven is code, statements and       *)
(* defaults, and the part of the front-end's sequence that replaceCalls has*)
(* passed is code.                                                         *)

Resolved == Texts \cup {"stmt", "default"}
Unpassed == Texts \cup {"front"}
AllOf(s, kinds) == \A k \in 1..Len(s) : s[k][1] \in kinds

ResolvedInv ==
  /\ AllOf(body, Unpassed)
  /\ pc = "calls" => \A k \in 1..Len(body) : k <= callIdx => body[k][1] \in Texts
  /\ errcount = 0 => AllOf(woven, Resolved)
  /\ pc = "done" => \A j \in pos + 1..Len(orig) : orig[j][1] = "stmt"

\* Two sequences of resolved statements are one.
LEMMA CatOf ==
  ASSUME NEW s \in Seq(Item), NEW t \in Seq(Item), NEW kinds,
         AllOf(s, kinds), AllOf(t, kinds)
  PROVE  AllOf(s \o t, kinds)
<1> SUFFICES ASSUME NEW k \in 1..Len(s \o t) PROVE (s \o t)[k][1] \in kinds
  BY Zenon DEF AllOf
<1>1. Len(s) \in Nat /\ Len(t) \in Nat /\ Len(s \o t) = Len(s) + Len(t)
  OBVIOUS
<1>2. CASE k <= Len(s)
  <2>1. (s \o t)[k] = s[k] /\ k \in 1..Len(s)
    BY <1>1, <1>2
  <2>2. QED
    BY <2>1, Zenon DEF AllOf
<1>3. CASE k > Len(s)
  <2>1. (s \o t)[k] = t[k - Len(s)] /\ k - Len(s) \in 1..Len(t)
    BY <1>1, <1>3
  <2>2. QED
    BY <2>1, Zenon DEF AllOf
<1>4. QED
  BY <1>1, <1>2, <1>3

\* So is a part of a sequence.
LEMMA SubOf ==
  ASSUME NEW s \in Seq(Item), NEW m \in 1..Len(s) + 1, NEW n \in m - 1..Len(s), NEW kinds,
         \A j \in m..n : s[j][1] \in kinds
  PROVE  AllOf(SubSeq(s, m, n), kinds)
<1> SUFFICES ASSUME NEW k \in 1..Len(SubSeq(s, m, n)) PROVE SubSeq(s, m, n)[k][1] \in kinds
  BY Zenon DEF AllOf
<1>1. Len(SubSeq(s, m, n)) = n - m + 1
  BY SubType, Zenon
<1>2. SubSeq(s, m, n)[k] = s[m + k - 1] /\ m + k - 1 \in m..n
  BY <1>1
<1>3. QED
  BY <1>2, Zenon

\* The statements around one that is removed, and around code that is inserted.
LEMMA WithoutAt ==
  ASSUME NEW b \in Seq(Item), NEW idx \in 0..Len(b) - 1
  PROVE  /\ \A k \in 1..idx : Without(b, idx)[k] = b[k]
         /\ \A k \in idx + 1..Len(b) - 1 : Without(b, idx)[k] = b[k + 1]
<1> DEFINE h == SubSeq(b, 1, idx)
           t == SubSeq(b, idx + 2, Len(b))
<1>1. /\ h \in Seq(Item) /\ Len(h) = idx /\ \A k \in 1..idx : h[k] = b[k]
  OBVIOUS
<1>2. /\ t \in Seq(Item) /\ Len(t) = Len(b) - idx - 1
      /\ \A k \in 1..Len(b) - idx - 1 : t[k] = b[k + idx + 1]
  OBVIOUS
<1>3. Without(b, idx) = h \o t
  BY Zenon DEF Without
<1> HIDE DEF h, t
<1>4. /\ \A k \in 1..idx : (h \o t)[k] = h[k]
      /\ \A k \in idx + 1..Len(b) - 1 : (h \o t)[k] = t[k - idx]
  BY <1>1, <1>2
<1>5. \A k \in idx + 1..Len(b) - 1 : t[k - idx] = b[k + 1]
  BY <1>2
<1>6. QED
  BY <1>1, <1>3, <1>4, <1>5, Zenon

LEMMA WithAt ==
  ASSUME NEW b \in Seq(Item), NEW idx \in 0..Len(b), NEW c \in Seq(Item)
  PROVE  /\ \A k \in 1..idx : With(b, idx, c)[k] = b[k]
         /\ \A k \in idx + 1..idx + Len(c) : With(b, idx, c)[k] = c[k - idx]
         /\ \A k \in idx + Len(c) + 1..Len(b) + Len(c) : With(b, idx, c)[k] = b[k - Len(c)]
<1> DEFINE h == SubSeq(b, 1, idx)
           t == SubSeq(b, idx + 1, Len(b))
<1>1. /\ h \in Seq(Item) /\ Len(h) = idx /\ \A k \in 1..idx : h[k] = b[k]
  OBVIOUS
<1>2. /\ t \in Seq(Item) /\ Len(t) = Len(b) - idx
      /\ \A k \in 1..Len(b) - idx : t[k] = b[k + idx]
  OBVIOUS
<1>3. With(b, idx, c) = (h \o c) \o t
  BY Zenon DEF With
<1> HIDE DEF h, t
<1>4. /\ h \o c \in Seq(Item) /\ Len(h \o c) = idx + Len(c)
      /\ \A k \in 1..idx : (h \o c)[k] = h[k]
      /\ \A k \in idx + 1..idx + Len(c) : (h \o c)[k] = c[k - idx]
  BY <1>1
<1> DEFINE d == h \o c
           n == idx + Len(c)
<1>5. n \in Nat /\ n = idx + Len(c) /\ d \in Seq(Item) /\ Len(d) = n /\ d = h \o c
  BY <1>4
<1> HIDE DEF d, n
<1>6. /\ \A k \in 1..n : (d \o t)[k] = d[k]
      /\ \A k \in Int : k > n /\ k <= n + Len(t) => (d \o t)[k] = t[k - n]
  <2>1. d \in Seq(Item) /\ t \in Seq(Item) /\ Len(d) = n /\ n \in Nat
    BY <1>2, <1>5, Zenon
  <2>2. QED
    BY <2>1
<1>7. \A k \in idx + Len(c) + 1..Len(b) + Len(c) :
        k \in Int /\ k > n /\ k <= n + Len(t) /\ t[k - n] = b[k - Len(c)]
  <2> TAKE k \in idx + Len(c) + 1..Len(b) + Len(c)
  <2>1. Len(b) \in Nat /\ Len(c) \in Nat /\ idx \in Nat
    OBVIOUS
  <2> DEFINE lb == Len(b)
             lc == Len(c)
  <2>2a. k \in idx + lc + 1..lb + lc /\ lb \in Nat /\ lc \in Nat
    BY <2>1, Zenon
  <2>2b. Len(t) = lb - idx /\ n = idx + lc
    BY <1>2, <1>5, Zenon
  <2> HIDE DEF lb, lc
  <2>2. k \in Int /\ k > n /\ k <= n + Len(t)
    BY <2>1, <2>2a, <2>2b
  <2>3a. k - n \in 1..lb - idx /\ k - n + idx = k - lc
    BY <2>1, <2>2a, <2>2b
  <2>3. k - n \in 1..Len(b) - idx /\ k - n + idx = k - Len(c)
    BY <2>3a, Zenon DEF lb, lc
  <2>4. QED
    BY <2>2, <2>3, <1>2, Zenon
<1>8. \A k \in 1..idx : k \in 1..n
  BY <1>5
<1>9. \A k \in idx + 1..idx + Len(c) : k \in 1..n
  BY <1>5
<1>10. With(b, idx, c) = d \o t
  BY <1>3, <1>5, Zenon
<1>11. \A k \in 1..idx : With(b, idx, c)[k] = b[k]
  BY <1>1, <1>4, <1>5, <1>6, <1>8, <1>10, Zenon
<1>12. \A k \in idx + 1..idx + Len(c) : With(b, idx, c)[k] = c[k - idx]
  BY <1>4, <1>5, <1>6, <1>9, <1>10, Zenon
<1>13. \A k \in idx + Len(c) + 1..Len(b) + Len(c) : With(b, idx, c)[k] = b[k - Len(c)]
  BY <1>6, <1>7, <1>10, Zenon
<1>14. QED
  BY <1>11, <1>12, <1>13, Zenon

\* Code is resolved.
LEMMA CodeOf ==
  ASSUME NEW i \in Nat, NEW m \in Nat, NEW n \in 0..MaxCode
  PROVE  LET c == [k \in 1..n |-> <<"code", i, m + k>>]
         IN c \in Seq(Item) /\ Len(c) = n /\ AllOf(c, {"code"})
  BY DEF AllOf, Item, Kinds, Texts

LEMMA Widened ==
  ASSUME NEW s, NEW kinds, NEW wider, AllOf(s, kinds), kinds \subseteq wider
  PROVE  AllOf(s, wider)
  BY Zenon DEF AllOf

\* What lies before the placeholder in hand is resolved.
LEMMA TakenOf ==
  ASSUME IInv, ResolvedInv, NEW i \in 1..Len(orig), NEW kinds, NextPlaceholder(i, kinds)
  PROVE  /\ woven \o Between(i) \in Seq(Item)
         /\ errcount = 0 => AllOf(woven \o Between(i), Resolved)
         /\ i \in Nat /\ orig[i] \in Item /\ pc = "next"
<1>1. /\ orig \in Seq(Item) /\ woven \in Seq(Item) /\ pos \in 0..Len(orig)
      /\ Len(orig) \in Nat
  BY DEF IInv, TypeOK
<1>2. i \in pos + 1..Len(orig) /\ pc = "next"
  BY Zenon DEF NextPlaceholder
<1>3. \A j \in pos + 1..i - 1 : orig[j][1] = "stmt"
  BY Zenon DEF NextPlaceholder
<1>4. \A j \in pos + 1..i - 1 : orig[j][1] \in Resolved
  BY <1>3, Zenon DEF Resolved
<1>5. pos + 1 \in 1..Len(orig) + 1 /\ i - 1 \in (pos + 1) - 1..Len(orig)
  BY <1>1, <1>2
<1>6. AllOf(Between(i), Resolved)
  BY <1>1, <1>4, <1>5, SubOf, Zenon DEF Between
<1>7. Between(i) \in Seq(Item)
  BY <1>1, <1>5, SubType, Zenon DEF Between
<1>8. errcount = 0 => AllOf(woven, Resolved)
  BY Zenon DEF ResolvedInv
<1>9. woven \o Between(i) \in Seq(Item)
  BY <1>1, <1>7, CatType, Zenon
<1>10. errcount = 0 => AllOf(woven \o Between(i), Resolved)
  BY <1>1, <1>6, <1>7, <1>8, CatOf, Zenon
<1>11. QED
  BY <1>1, <1>2, <1>9, <1>10

\* A step that leaves the front-end's sequence alone and does not return.
LEMMA WeaveOf ==
  ASSUME ResolvedInv, body' = body, pc' \notin {"calls", "done"},
         errcount' = 0 => AllOf(woven', Resolved)
  PROVE  ResolvedInv'
<1>1. AllOf(body, Unpassed)
  BY Zenon DEF ResolvedInv
<1>2. AllOf(body', Unpassed)
  BY <1>1, Zenon
<1>3. (errcount = 0 => AllOf(woven, Resolved))'
  BY Zenon
<1>4. pc' # "calls" /\ pc' # "done"
  BY Zenon
<1>5. QED
  BY <1>2, <1>4, Zenon DEF ResolvedInv, AllOf

LEMMA InitOf == Init => ResolvedInv
<1> SUFFICES ASSUME Init PROVE ResolvedInv
  OBVIOUS
<1>1. PICK n \in 0..MaxCalls : body = [i \in 1..n |-> <<"front", i, 0>>]
  BY Zenon DEF Init
<1>2. Len(body) = n /\ n \in Nat
  BY <1>1
<1>3. AllOf(body, Unpassed)
  BY <1>1, <1>2, Zenon DEF AllOf, Unpassed
<1>4. Len(woven) = 0 /\ pc = "next"
  BY Zenon DEF Init
<1>5. AllOf(woven, Resolved)
  BY <1>4 DEF AllOf
<1>6. pc # "calls" /\ pc # "done"
  BY <1>4, Zenon
<1>7. QED
  BY <1>3, <1>5, <1>6, Zenon DEF ResolvedInv

\* One turn of replaceCalls: the call and what is before it are code now.
LEMMA ReplaceOf ==
  ASSUME IInv, ResolvedInv, NEW n \in 0..MaxCode, NEW text \in Texts,
         ReplaceCall(n, text)
  PROVE  ResolvedInv'
<1> DEFINE at == body[callIdx + 1][2]
           c == [k \in 1..n |-> <<text, at, k>>]
           b == Without(body, callIdx)
           m == Len(body)
<1>1. /\ body \in Seq(Item) /\ callIdx \in Nat /\ bodyModifier \in Int /\ n \in Nat
      /\ callIdx \in 0..m - 1 /\ pc = "calls" /\ m \in Nat
  BY DEF IInv, TypeOK, ReplaceCall
<1>2. (callIdx - bodyModifier) + bodyModifier = callIdx
  BY <1>1
<1>3. body' = With(b, callIdx, c) /\ callIdx' = callIdx + n
  BY <1>2, Zenon DEF ReplaceCall
<1>4. pc' = "calls" /\ errcount' = errcount /\ woven' = woven
  BY Zenon DEF ReplaceCall
<1>5. at \in Nat
  BY <1>1 DEF Item
<1> HIDE DEF at
<1>6. c \in Seq(Item) /\ Len(c) = n
  BY <1>1, <1>5, TextType, Zenon
<1>7. \A k \in 1..n : c[k][1] \in Texts
  BY Zenon
<1>8. b \in Seq(Item) /\ Len(b) = m - 1
  BY <1>1, WithoutType, Zenon
<1>9. /\ \A k \in 1..callIdx : b[k] = body[k]
      /\ \A k \in callIdx + 1..m - 1 : b[k] = body[k + 1]
  BY <1>1, WithoutAt, Zenon
<1> HIDE DEF b, c
<1>10. callIdx \in 0..Len(b)
  BY <1>1, <1>8, Zenon
<1>11. Len(body') = m - 1 + n
  BY <1>3, <1>6, <1>8, <1>10, WithType, Zenon
<1>12. /\ \A k \in 1..callIdx : body'[k] = b[k]
       /\ \A k \in callIdx + 1..callIdx + n : body'[k] = c[k - callIdx]
       /\ \A k \in callIdx + n + 1..m - 1 + n : body'[k] = b[k - n]
  <2>1. /\ \A k \in 1..callIdx : With(b, callIdx, c)[k] = b[k]
        /\ \A k \in callIdx + 1..callIdx + Len(c) : With(b, callIdx, c)[k] = c[k - callIdx]
        /\ \A k \in callIdx + Len(c) + 1..Len(b) + Len(c) :
             With(b, callIdx, c)[k] = b[k - Len(c)]
    BY <1>6, <1>8, <1>10, WithAt, Zenon
  <2>2. QED
    BY <2>1, <1>3, <1>6, <1>8, Zenon
<1>13. \A k \in 1..m : body[k][1] \in Unpassed
  BY Zenon DEF ResolvedInv, AllOf
<1>14. \A k \in 1..m : k <= callIdx => body[k][1] \in Texts
  BY <1>1, Zenon DEF ResolvedInv
<1> HIDE DEF m
<1>15. \A k \in 1..callIdx : body'[k][1] \in Texts
  <2> TAKE k \in 1..callIdx
  <2>1. k \in 1..m /\ k <= callIdx
    BY <1>1
  <2>2. QED
    BY <2>1, <1>9, <1>12, <1>14, Zenon
<1>16. \A k \in callIdx + 1..callIdx + n : body'[k][1] \in Texts
  <2> TAKE k \in callIdx + 1..callIdx + n
  <2>1. k - callIdx \in 1..n
    BY <1>1
  <2>2. QED
    BY <2>1, <1>7, <1>12, Zenon
<1>17. \A k \in callIdx + n + 1..m - 1 + n : body'[k][1] \in Unpassed
  <2> TAKE k \in callIdx + n + 1..m - 1 + n
  <2>1. k - n \in callIdx + 1..m - 1 /\ (k - n) + 1 \in 1..m
    BY <1>1
  <2>2. QED
    BY <2>1, <1>9, <1>12, <1>13, Zenon
<1>18. \A k \in 1..Len(body') : k <= callIdx' => body'[k][1] \in Texts
  <2> SUFFICES ASSUME NEW k \in 1..Len(body'), k <= callIdx'
               PROVE  k \in 1..callIdx \/ k \in callIdx + 1..callIdx + n
    BY <1>15, <1>16, Zenon
  <2> QED
    BY <1>1, <1>3, <1>11
<1>19. \A k \in 1..Len(body') : body'[k][1] \in Unpassed
  <2> TAKE k \in 1..Len(body')
  <2>1. \/ k \in 1..callIdx \/ k \in callIdx + 1..callIdx + n
        \/ k \in callIdx + n + 1..m - 1 + n
    BY <1>1, <1>11
  <2>2. QED
    BY <2>1, <1>15, <1>16, <1>17, Zenon DEF Unpassed
<1>20. errcount' = 0 => AllOf(woven', Resolved)
  BY <1>4, Zenon DEF ResolvedInv
<1>21. pc' # "done"
  BY <1>4, Zenon
<1>22. QED
  BY <1>18, <1>19, <1>20, <1>21, Zenon DEF ResolvedInv, AllOf

\* Every step keeps what it has resolved, and a failure is counted.
LEMMA NextOf == IInv /\ ResolvedInv /\ [Next]_vars => ResolvedInv'
<1> SUFFICES ASSUME IInv, ResolvedInv, [Next]_vars PROVE ResolvedInv'
  BY Zenon
<1>t. /\ woven \in Seq(Item) /\ errcount \in Nat /\ phIdx \in Nat /\ pos \in Nat
      /\ body \in Seq(Item) /\ callIdx \in Nat
  BY DEF IInv, TypeOK
<1>r. /\ errcount = 0 => AllOf(woven, Resolved)
      /\ AllOf(body, Unpassed)
  BY Zenon DEF ResolvedInv
<1>e. errcount + 1 # 0
  BY <1>t
<1>1. ASSUME NEW i \in 1..Len(orig), InjectNothing(i) PROVE ResolvedInv'
  <2>1. NextPlaceholder(i, {"pointcut"})
    BY <1>1, Zenon DEF InjectNothing
  <2>2. /\ woven' = woven \o Between(i) /\ errcount' = errcount /\ pc' = pc
        /\ body' = body
    BY <1>1, Zenon DEF InjectNothing, front
  <2>3. pc' \notin {"calls", "done"}
    BY <2>2 , <2>1, Zenon DEF NextPlaceholder
  <2>4. errcount' = 0 => AllOf(woven', Resolved)
    BY <2>1, <2>2, TakenOf, Zenon
  <2>5. QED
    BY <2>2, <2>3, <2>4, WeaveOf, Zenon
<1>2. ASSUME NEW i \in 1..Len(orig), InjectChunks(i) PROVE ResolvedInv'
  <2>1. NextPlaceholder(i, {"pointcut", "defaulted"})
    BY <1>2, Zenon DEF InjectChunks
  <2>2. /\ woven' = woven \o Between(i) /\ errcount' = errcount /\ pc' = "chunks"
        /\ body' = body
    BY <1>2, Zenon DEF InjectChunks, front
  <2>3. pc' \notin {"calls", "done"}
    BY <2>2, Zenon
  <2>4. errcount' = 0 => AllOf(woven', Resolved)
    BY <2>1, <2>2, TakenOf, Zenon
  <2>5. QED
    BY <2>2, <2>3, <2>4, WeaveOf, Zenon
<1>3. ASSUME NEW i \in 1..Len(orig), CallFails(i) \/ NoImplementation(i) PROVE ResolvedInv'
  <2>1. pc = "next" /\ pc' = pc /\ errcount' = errcount + 1 /\ body' = body
    BY <1>3, Zenon DEF CallFails, NoImplementation, NextPlaceholder, front
  <2>2. pc' \notin {"calls", "done"}
    BY <2>1, Zenon
  <2>3. QED
    BY <2>1, <2>2, <1>e, WeaveOf, Zenon
<1>4. ASSUME NEW i \in 1..Len(orig), InjectDefault(i) PROVE ResolvedInv'
  <2> DEFINE v == woven \o Between(i)
             d == << <<"default", i, 0>> >>
  <2>1. NextPlaceholder(i, {"defaulted"})
    BY <1>4, Zenon DEF InjectDefault
  <2>2. /\ woven' = v \o d /\ errcount' = errcount
        /\ pc' = "aborted" \/ pc' = pc
        /\ body' = body
    BY <1>4, Zenon DEF InjectDefault, front
  <2>3. /\ v \in Seq(Item) /\ i \in Nat /\ pc = "next"
        /\ errcount = 0 => AllOf(v, Resolved)
    BY <2>1, TakenOf, Zenon
  <2>4. pc' \notin {"calls", "done"}
    BY <2>2, <2>3, Zenon
  <2>5. d \in Seq(Item) /\ AllOf(d, Resolved)
    BY <2>3 DEF AllOf, Resolved, Item, Kinds
  <2> HIDE DEF v, d
  <2>6. errcount' = 0 => AllOf(woven', Resolved)
    BY <2>2, <2>3, <2>5, CatOf, Zenon
  <2>7. QED
    BY <2>2, <2>4, <2>6, WeaveOf, Zenon
<1>5. ASSUME NEW i \in 1..Len(orig), FindImplementation(i) PROVE ResolvedInv'
  <2>1. NextPlaceholder(i, {"implementation"})
    BY <1>5, Zenon DEF FindImplementation
  <2>2. /\ woven' = woven \o Between(i) /\ errcount' = errcount /\ pc' = "calls"
        /\ body' = body /\ callIdx' = 0
    BY <1>5, Zenon DEF FindImplementation
  <2>3. errcount' = 0 => AllOf(woven', Resolved)
    BY <2>1, <2>2, TakenOf, Zenon
  <2>4. \A k \in 1..Len(body') : ~(k <= callIdx')
    BY <2>2
  <2>5. AllOf(body', Unpassed) /\ pc' # "done"
    BY <2>2, <1>r, Zenon
  <2>6. QED
    BY <2>3, <2>4, <2>5, Zenon DEF ResolvedInv, AllOf
<1>6. ASSUME NEW i \in 1..Len(orig), NEW n \in 0..MaxCode, InjectCall(i, n) PROVE ResolvedInv'
  <2> DEFINE v == woven \o Between(i)
             c == [k \in 1..n |-> <<"code", i, k>>]
  <2>1. NextPlaceholder(i, {"call"})
    BY <1>6, Zenon DEF InjectCall
  <2>2. woven' = v \o c /\ errcount' = errcount /\ pc' = pc /\ body' = body
    BY <1>6, Zenon DEF InjectCall, front
  <2>3. /\ v \in Seq(Item) /\ i \in Nat /\ pc = "next"
        /\ errcount = 0 => AllOf(v, Resolved)
    BY <2>1, TakenOf, Zenon
  <2>4. pc' \notin {"calls", "done"}
    BY <2>2, <2>3, Zenon
  <2>5a. n \in Nat
    OBVIOUS
  <2>5. c \in Seq(Item) /\ Len(c) = n
    BY <2>3, <2>5a, CodeType0, Zenon
  <2>6. AllOf(c, Resolved)
    BY <2>5, Zenon DEF AllOf, Resolved, Texts
  <2> HIDE DEF v, c
  <2>7. errcount' = 0 => AllOf(woven', Resolved)
    BY <2>2, <2>3, <2>5, <2>6, CatOf, Zenon
  <2>8. QED
    BY <2>2, <2>4, <2>7, WeaveOf, Zenon
<1>7. ASSUME NEW n \in 0..MaxCode, InsertChunk(n) PROVE ResolvedInv'
  <2> DEFINE c == Code(pos, n)
  <2>1. woven' = woven \o c /\ errcount' = errcount /\ pc' = "chunks" /\ body' = body
    BY <1>7, Zenon DEF InsertChunk, front
  <2>2. c \in Seq(Item) /\ AllOf(c, {"code"})
    BY <1>t, CodeOf, Zenon DEF Code
  <2>3. {"code"} \subseteq Resolved
    BY Zenon DEF Resolved, Texts
  <2> HIDE DEF c
  <2>4. AllOf(c, Resolved)
    BY <2>2, <2>3, Widened, Zenon
  <2>5. errcount' = 0 => AllOf(woven', Resolved)
    BY <2>1, <2>2, <2>4, <1>t, <1>r, CatOf, Zenon
  <2>6. pc' \notin {"calls", "done"}
    BY <2>1, Zenon
  <2>7. QED
    BY <2>1, <2>5, <2>6, WeaveOf, Zenon
<1>8. ASSUME NEW n \in 0..MaxCode, NEW text \in Texts, ReplaceCall(n, text) PROVE ResolvedInv'
  BY <1>8, ReplaceOf, Zenon
<1>9. CASE InsertImplementation
  <2>1. /\ pc = "calls" /\ callIdx >= Len(body) /\ pc' = "next"
        /\ woven' = woven \o body /\ errcount' = errcount /\ body' = body
    BY <1>9, Zenon DEF InsertImplementation, front
  <2>2. \A k \in 1..Len(body) : k <= callIdx => body[k][1] \in Texts
    BY <2>1, Zenon DEF ResolvedInv
  <2>3. \A k \in 1..Len(body) : k <= callIdx
    BY <2>1, <1>t
  <2>4. \A k \in 1..Len(body) : body[k][1] \in Texts
    BY <2>2, <2>3, Zenon
  <2>5. AllOf(body, Resolved)
    BY <2>4, Zenon DEF AllOf, Resolved
  <2>6. errcount' = 0 => AllOf(woven', Resolved)
    BY <2>1, <2>5, <1>t, <1>r, CatOf, Zenon
  <2>7. pc' \notin {"calls", "done"}
    BY <2>1, Zenon
  <2>8. QED
    BY <2>1, <2>6, <2>7, WeaveOf, Zenon
<1>10. CASE ReplaceCallFails \/ ChunkFails \/ ParametersFail
  <2>1. errcount' = errcount + 1 /\ body' = body /\ pc' \in {"next", "chunks"}
    BY <1>10, Zenon DEF ReplaceCallFails, ChunkFails, ParametersFail, front
  <2>2. pc' \notin {"calls", "done"}
    BY <2>1, Zenon
  <2>3. QED
    BY <2>1, <2>2, <1>e, WeaveOf, Zenon
<1>11. CASE ChunksEnd
  <2>1. errcount' = errcount /\ woven' = woven /\ body' = body /\ pc' = "next"
    BY <1>11, Zenon DEF ChunksEnd, front
  <2>2. pc' \notin {"calls", "done"}
    BY <2>1, Zenon
  <2>3. errcount' = 0 => AllOf(woven', Resolved)
    BY <2>1, <1>r, Zenon
  <2>4. QED
    BY <2>1, <2>2, <2>3, WeaveOf, Zenon
<1>12. CASE Return
  <2>1. /\ errcount' = errcount /\ woven' = woven /\ body' = body /\ pc' = "done"
        /\ orig' = orig /\ pos' = pos
    BY <1>12, Zenon DEF Return, front
  <2>2. \A j \in pos + 1..Len(orig) : orig[j][1] = "stmt"
    BY <1>12, Zenon DEF Return
  <2>3. \A j \in pos' + 1..Len(orig') : orig'[j][1] = "stmt"
    BY <2>1, <2>2, Zenon
  <2>4. errcount' = 0 => AllOf(woven', Resolved)
    BY <2>1, <1>r, Zenon
  <2>5. AllOf(body', Unpassed) /\ pc' # "calls"
    BY <2>1, <1>r, Zenon
  <2>6. QED
    BY <2>3, <2>4, <2>5, Zenon DEF ResolvedInv, AllOf
<1>13. CASE UNCHANGED vars
  BY <1>13, Zenon DEF ResolvedInv, AllOf, vars
<1>14. Ended => UNCHANGED vars
  BY Zenon DEF Ended
<1>15. QED
  BY <1>1, <1>2, <1>3, <1>4, <1>5, <1>6, <1>7, <1>8, <1>9, <1>10, <1>11, <1>12, <1>13,
     <1>14, Zenon DEF Next

----------------------------------------------------------------------------
(* The theorems.                                                           *)

\* The handlers' state keeps its type: no index leaves its block.
THEOREM TypeCorrect == Spec => []TypeOK
<1>1. IInv => TypeOK
  BY Zenon DEF IInv
<1>2. QED
  BY InitInv, NextInv, <1>1, PTL DEF Spec

\* inject_pointcut, type_call, sequence calls and ::IMPLEMENTATION put the code
\* of every placeholder in its place, for blocks and chunks of every size.
THEOREM WeavingInPlace == Spec => []WovenInPlace
<1>1. IInv => WovenInPlace
  BY Zenon DEF IInv
<1>2. QED
  BY InitInv, NextInv, <1>1, PTL DEF Spec

\* A chunk that instanceChunk resolves without counting an error holds no call
\* of the front-end and no placeholder of its own, whatever the sizes:
\* replaceCalls passes every call of the front-end's sequence and every other
\* handler counts what it leaves behind.  Only the text of a chunk that failed
\* inside of replaceCalls, which drops that error, may hold more of them.
THEOREM EverythingResolved == Spec => []NothingUnresolved
<1>1. IInv /\ ResolvedInv => NothingUnresolved
  <2> SUFFICES ASSUME IInv, ResolvedInv, pc = "done", errcount = 0, ~moved
               PROVE  AllOf(block, Resolved)
    BY Zenon DEF NothingUnresolved, AllOf, Resolved
  <2>1. /\ orig \in Seq(Item) /\ woven \in Seq(Item) /\ pos \in 0..Len(orig)
        /\ Len(orig) \in Nat
    BY DEF IInv, TypeOK
  <2>2. pc # "calls" /\ pc # "aborted"
    BY Zenon
  <2>3. block = woven \o SubSeq(orig, pos + 1, Len(orig))
    BY <2>2, Zenon DEF IInv, WovenInPlace, Expected, Gone
  <2>4. \A j \in pos + 1..Len(orig) : orig[j][1] = "stmt"
    BY Zenon DEF ResolvedInv
  <2>5. \A j \in pos + 1..Len(orig) : orig[j][1] \in Resolved
    BY <2>4, Zenon DEF Resolved
  <2>6. pos + 1 \in 1..Len(orig) + 1 /\ Len(orig) \in (pos + 1) - 1..Len(orig)
    BY <2>1
  <2>7. /\ AllOf(SubSeq(orig, pos + 1, Len(orig)), Resolved)
        /\ SubSeq(orig, pos + 1, Len(orig)) \in Seq(Item)
    BY <2>1, <2>5, <2>6, SubOf, SubType, Zenon
  <2>8. AllOf(woven, Resolved)
    BY Zenon DEF ResolvedInv
  <2>9. QED
    BY <2>1, <2>3, <2>7, <2>8, CatOf, Zenon
<1>2. QED
  BY InitInv, NextInv, InitOf, NextOf, <1>1, PTL DEF Spec
=============================================================================
