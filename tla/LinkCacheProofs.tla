-------------------------- MODULE LinkCacheProofs --------------------------
(***************************************************************************)
(* Proofs about LinkCache: for every set of source files, scripts, targets *)
(* and number of parallel jobs, the caches on disk are well typed, their   *)
(* chunk ids refer to the right chunks, and they hold no template twice.   *)
(* When one target runs at a time, every driver is generated from the      *)
(* files its target lists and from what is installed.                      *)
(***************************************************************************)
EXTENDS LinkCache, TLAPS

-----------------------------------------------------------------------------
(***************************************************************************)
(* What AddTemplate, the step shared by registration and merge, preserves. *)
(***************************************************************************)

\* AddTemplate, the body of the registration and merge loops, yields a cache.
LEMMA AddTemplateType ==
  ASSUME NEW cache \in Cache, NEW p \in Protos, NEW t \in Template,
         NEW S \in SUBSET Pointcuts, NEW new \in [S -> Chunk]
  PROVE  AddTemplate(cache, p, t, new) \in Cache
<1> DEFINE ids == [c \in Pointcuts |-> IF c \in DOMAIN new THEN Len(cache.chunks[c]) + 1 ELSE 0]
           u == [t EXCEPT !.ids = ids]
           chunks == [c \in Pointcuts |-> IF c \in DOMAIN new THEN Append(cache.chunks[c], new[c])
                                          ELSE cache.chunks[c]]
<1>1. /\ cache.chunks \in [Pointcuts -> Seq(Chunk)]
      /\ cache.tpls \in [Protos -> Seq(Template)]
  BY Zenon DEF Cache
<1>2. ids \in [Pointcuts -> Nat]
  BY <1>1
<1>3. u \in Template
  BY <1>2, Zenon DEF Template
<1>4. chunks \in [Pointcuts -> Seq(Chunk)]
  <2> HIDE DEF Chunk
  <2> QED  BY <1>1
<1>5. [cache.tpls EXCEPT ![p] = Append(@, u)] \in [Protos -> Seq(Template)]
  BY <1>1, <1>3
<1>6. AddTemplate(cache, p, t, new)
        = [cache EXCEPT !.tpls = [cache.tpls EXCEPT ![p] = Append(@, u)], !.chunks = chunks]
  BY Zenon DEF AddTemplate, Cache
<1> HIDE DEF u, ids, chunks
<1> QED  BY <1>4, <1>5, <1>6, Zenon DEF Cache

\* What Append does to the elements of a sequence.
LEMMA AppendFacts ==
  ASSUME NEW T, NEW s \in Seq(T), NEW x \in T
  PROVE  /\ Len(s) \in Nat
         /\ Len(Append(s, x)) = Len(s) + 1
         /\ \A i \in 1..Len(s) : Append(s, x)[i] = s[i]
         /\ Append(s, x)[Len(s) + 1] = x
  OBVIOUS

\* The template that AddTemplate appends.
Added(cache, t, new) ==
  [t EXCEPT !.ids =
     [c \in Pointcuts |-> IF c \in DOMAIN new THEN Len(cache.chunks[c]) + 1 ELSE 0]]

\* Cache d has one more template than cache, u of prototype p.
TplsGrow(cache, d, p, u) ==
  /\ \A q \in Protos : Len(cache.tpls[q]) \in Nat
  /\ \A q \in Protos \ {p} : d.tpls[q] = cache.tpls[q]
  /\ Len(d.tpls[p]) = Len(cache.tpls[p]) + 1
  /\ \A i \in 1..Len(cache.tpls[p]) : d.tpls[p][i] = cache.tpls[p][i]
  /\ d.tpls[p][Len(cache.tpls[p]) + 1] = u

\* Cache d has the chunk lists of cache, longer by new[c] for the c of S.
ChunksGrow(cache, d, S, new) ==
  \A c \in Pointcuts :
    /\ Len(cache.chunks[c]) \in Nat
    /\ Len(d.chunks[c]) = (IF c \in S THEN Len(cache.chunks[c]) + 1 ELSE Len(cache.chunks[c]))
    /\ \A k \in 1..Len(cache.chunks[c]) : d.chunks[c][k] = cache.chunks[c][k]
    /\ c \in S => d.chunks[c][Len(cache.chunks[c]) + 1] = new[c]

\* The template list of the cache AddTemplate yields.
LEMMA AddTemplateTpls ==
  ASSUME NEW cache \in Cache, NEW p \in Protos, NEW t \in Template,
         NEW S \in SUBSET Pointcuts, NEW new \in [S -> Chunk],
         NEW d, d = AddTemplate(cache, p, t, new)
  PROVE  TplsGrow(cache, d, p, Added(cache, t, new))
<1> DEFINE u == Added(cache, t, new)
<1>1. cache.tpls \in [Protos -> Seq(Template)] /\ \A c \in Pointcuts : cache.chunks[c] \in Seq(Chunk)
  BY Zenon DEF Cache
<1>2. u \in Template
  <2> DEFINE ids == [c \in Pointcuts |-> IF c \in DOMAIN new THEN Len(cache.chunks[c]) + 1 ELSE 0]
  <2>1. ids \in [Pointcuts -> Nat]
    BY <1>1
  <2> HIDE DEF ids
  <2>2. [t EXCEPT !.ids = ids] \in Template
    BY <2>1, Zenon DEF Template
  <2> QED  BY <2>2, Zenon DEF Added, ids
<1>3. d.tpls = [cache.tpls EXCEPT ![p] = Append(cache.tpls[p], u)]
  BY Zenon DEF AddTemplate, Cache, Added
<1> HIDE DEF u
<1>4. \A q \in Protos : Len(cache.tpls[q]) \in Nat
  BY <1>1
<1>5. d.tpls[p] = Append(cache.tpls[p], u) /\ \A q \in Protos \ {p} : d.tpls[q] = cache.tpls[q]
  BY <1>1, <1>3, Zenon
<1>6. cache.tpls[p] \in Seq(Template)
  BY <1>1, Zenon
<1>7. /\ Len(d.tpls[p]) = Len(cache.tpls[p]) + 1
      /\ \A i \in 1..Len(cache.tpls[p]) : d.tpls[p][i] = cache.tpls[p][i]
      /\ d.tpls[p][Len(cache.tpls[p]) + 1] = u
  BY <1>2, <1>5, <1>6, AppendFacts
<1> QED  BY <1>4, <1>5, <1>7, Zenon DEF u, TplsGrow

\* The chunk lists of the cache AddTemplate yields.
LEMMA AddTemplateChunks ==
  ASSUME NEW cache \in Cache, NEW p \in Protos, NEW t \in Template,
         NEW S \in SUBSET Pointcuts, NEW new \in [S -> Chunk],
         NEW d, d = AddTemplate(cache, p, t, new)
  PROVE  ChunksGrow(cache, d, S, new)
<1> SUFFICES ASSUME NEW c \in Pointcuts
             PROVE  /\ Len(cache.chunks[c]) \in Nat
                    /\ Len(d.chunks[c]) = (IF c \in S THEN Len(cache.chunks[c]) + 1 ELSE Len(cache.chunks[c]))
                    /\ \A k \in 1..Len(cache.chunks[c]) : d.chunks[c][k] = cache.chunks[c][k]
                    /\ c \in S => d.chunks[c][Len(cache.chunks[c]) + 1] = new[c]
  BY Zenon DEF ChunksGrow
<1>1. cache.chunks[c] \in Seq(Chunk)
  BY Zenon DEF Cache
<1>2. d.chunks = [e \in Pointcuts |-> IF e \in DOMAIN new THEN Append(cache.chunks[e], new[e])
                                      ELSE cache.chunks[e]]
  BY Zenon DEF AddTemplate, Cache
<1>3. d.chunks[c] = IF c \in S THEN Append(cache.chunks[c], new[c]) ELSE cache.chunks[c]
  BY <1>2, Zenon
<1>4. CASE c \in S
  <2>1. new[c] \in Chunk /\ d.chunks[c] = Append(cache.chunks[c], new[c])
    BY <1>3, <1>4, Zenon
  <2> QED  BY <1>1, <1>4, <2>1, AppendFacts
<1>5. CASE c \notin S
  <2>1. d.chunks[c] = cache.chunks[c] /\ Len(cache.chunks[c]) \in Nat
    BY <1>1, <1>3, <1>5
  <2> QED  BY <2>1, <1>5, Zenon
<1> QED  BY <1>4, <1>5, Zenon

\* A template that comes with its own chunks leaves every chunk id right.
LEMMA AddTemplateIds ==
  ASSUME NEW cache \in Cache, NEW p \in Protos, NEW t \in Template,
         NEW S \in SUBSET Pointcuts, NEW new \in [S -> Chunk],
         IdsRefer(cache),
         \A c \in S : new[c].proto = p /\ new[c].src = t.src,
         NEW d, d = AddTemplate(cache, p, t, new)
  PROVE  IdsRefer(d)
<1> SUFFICES ASSUME NEW q \in Protos, NEW i \in 1..Len(d.tpls[q]), NEW c \in Pointcuts,
                    d.tpls[q][i].ids[c] # 0
             PROVE  /\ d.tpls[q][i].ids[c] <= Len(d.chunks[c])
                    /\ d.chunks[c][d.tpls[q][i].ids[c]].proto = q
                    /\ d.chunks[c][d.tpls[q][i].ids[c]].src = d.tpls[q][i].src
  BY Zenon DEF IdsRefer
<1>1. TplsGrow(cache, d, p, Added(cache, t, new))
  BY AddTemplateTpls, Zenon
<1>2. /\ \A r \in Protos : Len(cache.tpls[r]) \in Nat
      /\ \A r \in Protos \ {p} : d.tpls[r] = cache.tpls[r]
      /\ Len(d.tpls[p]) = Len(cache.tpls[p]) + 1
      /\ \A j \in 1..Len(cache.tpls[p]) : d.tpls[p][j] = cache.tpls[p][j]
      /\ d.tpls[p][Len(cache.tpls[p]) + 1] = Added(cache, t, new)
  BY <1>1, Zenon DEF TplsGrow
<1>3. /\ Len(cache.chunks[c]) \in Nat
      /\ Len(d.chunks[c]) = (IF c \in S THEN Len(cache.chunks[c]) + 1 ELSE Len(cache.chunks[c]))
      /\ \A k \in 1..Len(cache.chunks[c]) : d.chunks[c][k] = cache.chunks[c][k]
      /\ c \in S => d.chunks[c][Len(cache.chunks[c]) + 1] = new[c]
  <2>1. ChunksGrow(cache, d, S, new)
    BY AddTemplateChunks, Zenon
  <2> QED  BY <2>1, Zenon DEF ChunksGrow
<1>4. CASE i \in 1..Len(cache.tpls[q])
  <2>1. d.tpls[q][i] = cache.tpls[q][i]
    BY <1>2, <1>4, Zenon
  <2>2. cache.tpls[q] \in Seq(Template)
    BY Zenon DEF Cache
  <2>0. cache.tpls[q][i] \in Template
    BY <1>4, <2>2
  <2>3. cache.tpls[q][i].ids[c] \in Nat /\ cache.tpls[q][i].ids[c] # 0
    BY <2>0, <2>1, Zenon DEF Template
  <2> DEFINE k == cache.tpls[q][i].ids[c]
             n == Len(cache.chunks[c])
             m == Len(d.chunks[c])
  <2>4. k <= n /\ cache.chunks[c][k].proto = q /\ cache.chunks[c][k].src = cache.tpls[q][i].src
    BY <1>4, <2>3, Zenon DEF IdsRefer
  <2>a. k \in Nat /\ k # 0
    BY <2>3
  <2>b. n \in Nat /\ (m = n \/ m = n + 1)
    BY <1>3, Zenon
  <2>5. k \in Nat /\ k # 0 /\ n \in Nat /\ (m = n \/ m = n + 1)
    BY <2>a, <2>b, Zenon
  <2>6. \A h \in 1..n : d.chunks[c][h] = cache.chunks[c][h]
    BY <1>3, Zenon
  <2>7. d.tpls[q][i].ids[c] = k
    BY <2>1, Zenon
  <2> HIDE DEF k, n, m
  <2>8. k \in 1..n /\ k <= m
    BY <2>4, <2>5
  <2> QED  BY <2>1, <2>4, <2>6, <2>7, <2>8, Zenon DEF m
<1>5. CASE i \notin 1..Len(cache.tpls[q])
  <2>1. q = p /\ i = Len(cache.tpls[p]) + 1
    BY <1>2, <1>5
  <2>2. d.tpls[q][i] = Added(cache, t, new)
    BY <1>2, <2>1, Zenon
  <2>3. d.tpls[q][i].src = t.src
        /\ d.tpls[q][i].ids[c] = IF c \in S THEN Len(cache.chunks[c]) + 1 ELSE 0
    BY <2>2 DEF Added, Template
  <2>4. c \in S
    BY <2>3, Zenon
  <2> QED  BY <1>3, <2>1, <2>3, <2>4
<1> QED  BY <1>4, <1>5, Zenon

\* A template that clashes with none of its prototype's keeps them distinct.
LEMMA AddTemplateNoDuplicates ==
  ASSUME NEW cache \in Cache, NEW p \in Protos, NEW t \in Template,
         NEW S \in SUBSET Pointcuts, NEW new \in [S -> Chunk],
         NoDuplicates(cache), ~ CheckTplConflict(cache.tpls[p], t.with),
         NEW d, d = AddTemplate(cache, p, t, new)
  PROVE  NoDuplicates(d)
<1> SUFFICES ASSUME NEW q \in Protos, NEW i \in 1..Len(d.tpls[q]), NEW j \in 1..Len(d.tpls[q]),
                      d.tpls[q][i].with = d.tpls[q][j].with
               PROVE  i = j
  BY Zenon DEF NoDuplicates
<1>1. TplsGrow(cache, d, p, Added(cache, t, new))
  BY AddTemplateTpls, Zenon
<1>2. /\ \A r \in Protos : Len(cache.tpls[r]) \in Nat
      /\ \A r \in Protos \ {p} : d.tpls[r] = cache.tpls[r]
      /\ Len(d.tpls[p]) = Len(cache.tpls[p]) + 1
      /\ \A k \in 1..Len(cache.tpls[p]) : d.tpls[p][k] = cache.tpls[p][k]
      /\ d.tpls[p][Len(cache.tpls[p]) + 1] = Added(cache, t, new)
  BY <1>1, Zenon DEF TplsGrow
<1>3. Added(cache, t, new).with = t.with
  BY Zenon DEF Added, Template
<1>4. \A k \in 1..Len(cache.tpls[p]) : cache.tpls[p][k].with # t.with
  BY Zenon DEF CheckTplConflict
<1>5. CASE q # p
  BY <1>2, <1>5 DEF NoDuplicates
<1>6. CASE q = p
  <2>1. \A k \in 1..Len(d.tpls[p]) : k \in 1..Len(cache.tpls[p]) \/ k = Len(cache.tpls[p]) + 1
    BY <1>2
  <2>2. CASE i \in 1..Len(cache.tpls[p]) /\ j \in 1..Len(cache.tpls[p])
    BY <1>2, <1>6, <2>2, ZenonT(30) DEF NoDuplicates
  <2>3. CASE i \in 1..Len(cache.tpls[p]) /\ j = Len(cache.tpls[p]) + 1
    BY <1>2, <1>3, <1>4, <1>6, <2>3, Zenon
  <2>4. CASE j \in 1..Len(cache.tpls[p]) /\ i = Len(cache.tpls[p]) + 1
    BY <1>2, <1>3, <1>4, <1>6, <2>4, Zenon
  <2> QED  BY <1>6, <2>1, <2>2, <2>3, <2>4, Zenon
<1> QED  BY <1>5, <1>6, Zenon
-----------------------------------------------------------------------------
(***************************************************************************)
(* Type correctness.  The script invariant says that a target which runs   *)
(* is at a command of its script, and that it registers only when that     *)
(* command is a registration.                                              *)
(***************************************************************************)
Active == {"load", "itfs", "items", "copy", "merge", "save", "write", "gen", "install"}

ScriptInv ==
  \A b \in Targets :
    /\ pc[b] \in Active => step[b] <= Len(script[b])
    /\ pc[b] \in {"itfs", "items", "copy", "merge"} => Op(b).op = "register"

TypeInv == TypeOK /\ ScriptInv

\* The command of a running target is one of the command line's operations.
LEMMA OpType ==
  ASSUME TypeInv, NEW b \in Targets, pc[b] \in Active
  PROVE  /\ Op(b) \in Operation
         /\ Op(b).op \in {"register", "clear", "generate", "install"}
         /\ Op(b).op = "register" => Op(b).file \in SourceFiles
<1>1. script[b] \in Seq(Operation) /\ step[b] \in Nat \ {0} /\ step[b] <= Len(script[b])
  BY Zenon DEF TypeInv, TypeOK, ScriptInv
<1>2. Op(b) \in Operation
  <2> HIDE DEF Operation
  <2> QED  BY <1>1 DEF Op
<1> QED  BY <1>2, Zenon DEF Operation

\* The empty cache is a cache, with nothing wrong in it.
LEMMA EmptyCacheOK ==
  EmptyCache \in Cache /\ IdsRefer(EmptyCache) /\ NoDuplicates(EmptyCache)
<1>1. EmptyCache \in Cache
  BY DEF EmptyCache, Cache
<1>2. \A p \in Protos : 1..Len(EmptyCache.tpls[p]) = {}
  BY DEF EmptyCache
<1>3. IdsRefer(EmptyCache)
  BY <1>2, Zenon DEF IdsRefer
<1>4. NoDuplicates(EmptyCache)
  BY <1>2, Zenon DEF NoDuplicates
<1> QED  BY <1>1, <1>3, <1>4, Zenon

\* A readable cache file holds a cache.
LEMMA ReadableCache ==
  ASSUME NEW f \in CacheFile, Readable(f)
  PROVE  f \in Cache
  BY Zenon DEF CacheFile, Readable

\* Initially the types and the script invariant hold.
LEMMA TypeInit == Init => TypeInv
<1> SUFFICES ASSUME Init PROVE TypeInv
  BY Zenon
<1>1. localCache \in CacheFile /\ globalCache \in CacheFile
  BY Zenon DEF Init, CacheFile
<1>2. glob \in [Targets -> Cache] /\ loc \in [Targets -> Cache] /\ temp \in [Targets -> Cache]
  BY EmptyCacheOK, Zenon DEF Init
<1>3. ScriptInv
  BY Zenon DEF Init, ScriptInv, Active
<1>4. script \in [Targets -> Seq(Operation)]
  BY DEF Init
<1>5. kills \in 0..MaxKills
  BY JobsAssumption DEF Init
<1>6. step \in [Targets -> Nat \ {0}] /\ item \in [Targets -> Nat \ {0}]
      /\ merged \in [Targets -> BOOLEAN] /\ done \in [Targets -> [Protos -> Nat]]
  BY DEF Init
<1>7. pc \in [Targets -> {"idle", "load", "itfs", "items", "copy", "merge", "save", "write",
                           "gen", "install", "failed", "killed", "done"}]
  BY Zenon DEF Init
<1> QED  BY <1>1, <1>2, <1>3, <1>4, <1>5, <1>6, <1>7, Zenon DEF TypeInv, TypeOK

\* What registration appends is a template with chunks of the right types.
LEMMA RegisterTypes ==
  ASSUME TypeInv, NEW b \in Targets, Registering(b, "tpl"),
         NEW it, it = NextItem(b), NEW src, src = <<Op(b).file, item[b]>>,
         NEW t, t = [with |-> it.with, src |-> src, mapped |-> it.mapped,
                     ids |-> [c \in Pointcuts |-> 0]],
         NEW new, new = [c \in it.pcs |->
                           [proto |-> it.proto, src |-> src, idx |-> Len(temp[b].chunks[c])]]
  PROVE  /\ it.proto \in Protos /\ it.pcs \in SUBSET Pointcuts
         /\ t \in Template /\ new \in [it.pcs -> Chunk]
         /\ \A c \in it.pcs : new[c].proto = it.proto /\ new[c].src = t.src
<1>1. Op(b).file \in SourceFiles
  BY OpType, Zenon DEF TypeInv, ScriptInv, Registering, Active
<1>2. FileItems[Op(b).file] \in Seq(Item) /\ item[b] \in Nat \ {0}
  BY <1>1, ItemsAssumption, Zenon DEF TypeInv, TypeOK
<1>3. it \in Item /\ it.kind = "tpl"
  <2> HIDE DEF Item
  <2> QED  BY <1>2 DEF NextItem, Registering
<1>4. it.proto \in Protos /\ it.pcs \in SUBSET Pointcuts /\ it.with \in Withs /\ it.mapped \in BOOLEAN
  BY <1>3, Zenon DEF Item
<1>5. src \in Source
  BY <1>1, <1>2, Zenon DEF Source
<1>6. t \in Template
  BY <1>4, <1>5, Zenon DEF Template
<1>7. \A c \in Pointcuts : Len(temp[b].chunks[c]) \in Nat
  BY DEF TypeInv, TypeOK, Cache
<1>8. new \in [it.pcs -> Chunk]
  BY <1>4, <1>5, <1>7, Zenon DEF Chunk
<1>9. \A c \in it.pcs : new[c].proto = it.proto /\ new[c].src = t.src
  BY Zenon
<1> QED  BY <1>4, <1>6, <1>8, <1>9, Zenon

\* new maps some pointcuts to chunks that belong to template t of prototype p.
OwnChunks(new, p, t) ==
  \E S \in SUBSET Pointcuts :
    /\ new \in [S -> Chunk]
    /\ \A c \in S : new[c].proto = p /\ new[c].src = t.src

\* The chunks that a merge copies along with a template are its own.
LEMMA TemplateChunksType ==
  ASSUME NEW cache \in Cache, IdsRefer(cache), NEW p \in Protos, NEW i \in 1..Len(cache.tpls[p]),
         NEW t, t = cache.tpls[p][i], NEW new, new = TemplateChunks(cache, t)
  PROVE  t \in Template /\ OwnChunks(new, p, t)
<1> DEFINE S == {d \in Pointcuts : t.ids[d] # 0}
<1>1. cache.tpls[p] \in Seq(Template) /\ \A c \in Pointcuts : cache.chunks[c] \in Seq(Chunk)
  BY Zenon DEF Cache
<1>2. t \in Template
  BY <1>1
<1>3. ASSUME NEW c \in S
      PROVE  /\ cache.chunks[c][t.ids[c]] \in Chunk
             /\ cache.chunks[c][t.ids[c]].proto = p /\ cache.chunks[c][t.ids[c]].src = t.src
  <2> DEFINE k == t.ids[c]
             s == cache.chunks[c]
  <2>1. k \in Nat /\ k # 0
    BY <1>2, Zenon DEF Template
  <2>2. k <= Len(s) /\ s[k].proto = p /\ s[k].src = t.src
    BY <2>1, ZenonT(30) DEF IdsRefer
  <2>3. s \in Seq(Chunk)
    BY <1>1, Zenon
  <2> HIDE DEF k, s
  <2>4. s[k] \in Chunk
    <3> HIDE DEF Chunk
    <3> QED  BY <2>1, <2>2, <2>3
  <2> QED  BY <2>2, <2>4, Zenon DEF k, s
<1>4. new = [c \in S |-> cache.chunks[c][t.ids[c]]]
  BY Zenon DEF TemplateChunks
<1>5. new \in [S -> Chunk] /\ \A c \in S : new[c].proto = p /\ new[c].src = t.src
  <2> HIDE DEF S, Chunk
  <2> QED  BY <1>3, <1>4, Zenon
<1>6. S \in SUBSET Pointcuts
  BY Zenon
<1>7. OwnChunks(new, p, t)
  <2> HIDE DEF S
  <2> QED  BY <1>5, <1>6, Zenon DEF OwnChunks
<1> QED  BY <1>2, <1>7, Zenon
-----------------------------------------------------------------------------
(***************************************************************************)
(* The inductive invariant.  A merge looks up the chunks of temp by their  *)
(* ids, and an invocation reads and writes whole caches: the invariant     *)
(* must speak of the caches in memory as well as of the files.             *)
(***************************************************************************)
MemoryOK ==
  \A b \in Targets :
    /\ IdsRefer(glob[b]) /\ NoDuplicates(glob[b])
    /\ IdsRefer(loc[b]) /\ NoDuplicates(loc[b])
    /\ IdsRefer(temp[b])

IInv == TypeInv /\ MemoryOK /\ SavedIdsRefer /\ SavedNoDuplicates

\* Caches with the same templates and chunks are alike.
LEMMA SameTables ==
  ASSUME NEW c, NEW d, d.tpls = c.tpls, d.chunks = c.chunks
  PROVE  /\ IdsRefer(c) => IdsRefer(d)
         /\ NoDuplicates(c) => NoDuplicates(d)
<1>1. ASSUME IdsRefer(c) PROVE IdsRefer(d)
  <2> SUFFICES ASSUME NEW p \in Protos, NEW i \in 1..Len(d.tpls[p]), NEW e \in Pointcuts,
                      d.tpls[p][i].ids[e] # 0
               PROVE  /\ d.tpls[p][i].ids[e] <= Len(d.chunks[e])
                      /\ d.chunks[e][d.tpls[p][i].ids[e]].proto = p
                      /\ d.chunks[e][d.tpls[p][i].ids[e]].src = d.tpls[p][i].src
    BY Zenon DEF IdsRefer
  <2>1. i \in 1..Len(c.tpls[p]) /\ c.tpls[p][i].ids[e] # 0
    BY Zenon
  <2>2. /\ c.tpls[p][i].ids[e] <= Len(c.chunks[e])
        /\ c.chunks[e][c.tpls[p][i].ids[e]].proto = p
        /\ c.chunks[e][c.tpls[p][i].ids[e]].src = c.tpls[p][i].src
    BY <1>1, <2>1, Zenon DEF IdsRefer
  <2> QED  BY <2>2, Zenon
<1>2. NoDuplicates(c) => NoDuplicates(d)
  BY Zenon DEF NoDuplicates
<1> QED  BY <1>1, <1>2, Zenon

\* A change of pc alone keeps the script invariant when the target stops, or
\* goes on with the command it is at.
LEMMA ScriptStep ==
  ASSUME TypeInv, NEW b \in Targets, NEW x,
         pc' = [pc EXCEPT ![b] = x], script' = script, step' = step,
         x \in Active => pc[b] \in Active,
         x \in {"itfs", "items", "copy", "merge"} => Op(b).op = "register"
  PROVE  ScriptInv'
<1> SUFFICES ASSUME NEW a \in Targets
             PROVE  /\ pc'[a] \in Active => step[a] <= Len(script[a])
                    /\ pc'[a] \in {"itfs", "items", "copy", "merge"} => Op(a).op = "register"
  BY Zenon DEF ScriptInv, Op
<1>1. pc \in [Targets -> {"idle", "load", "itfs", "items", "copy", "merge", "save", "write",
                           "gen", "install", "failed", "killed", "done"}]
  BY Zenon DEF TypeInv, TypeOK
<1>2. CASE a = b
  <2>1. pc'[a] = x
    BY <1>1, <1>2, Zenon
  <2> QED  BY <1>2, <2>1, Zenon DEF TypeInv, ScriptInv
<1>3. CASE a # b
  <2>1. pc'[a] = pc[a]
    BY <1>1, <1>3, Zenon
  <2> QED  BY <2>1, Zenon DEF TypeInv, ScriptInv
<1> QED  BY <1>2, <1>3, Zenon

\* An invocation that returns goes to the next command of its script.
LEMMA ReturnStep ==
  ASSUME TypeInv, NEW b \in Targets, pc[b] \in Active, Return(b), script' = script
  PROVE  /\ ScriptInv'
         /\ pc' \in [Targets -> {"idle", "load", "itfs", "items", "copy", "merge", "save", "write",
                                 "gen", "install", "failed", "killed", "done"}]
         /\ step' \in [Targets -> Nat \ {0}]
<1>1. /\ pc \in [Targets -> {"idle", "load", "itfs", "items", "copy", "merge", "save", "write",
                           "gen", "install", "failed", "killed", "done"}]
      /\ step \in [Targets -> Nat \ {0}]
      /\ script[b] \in Seq(Operation) /\ step[b] <= Len(script[b])
  BY Zenon DEF TypeInv, TypeOK, ScriptInv
<1>2. Len(script[b]) \in Nat
  <2> HIDE DEF Operation
  <2> QED  BY <1>1
<1>3. pc' \in [Targets -> {"idle", "load", "itfs", "items", "copy", "merge", "save", "write",
                            "gen", "install", "failed", "killed", "done"}]
  BY <1>1, Zenon DEF Return
<1>4. step' \in [Targets -> Nat \ {0}]
  BY <1>1 DEF Return
<1>5. ASSUME NEW a \in Targets
      PROVE  /\ pc'[a] \in Active => step'[a] <= Len(script[a])
             /\ pc'[a] \in {"itfs", "items", "copy", "merge"} => script[a][step'[a]].op = "register"
  <2>1. CASE a = b
    <3>1. step'[a] = step[b] + 1 /\ pc'[a] = IF step[b] = Len(script[b]) THEN "done" ELSE "load"
      BY <1>1, <2>1, Zenon DEF Return
    <3>2. step[b] \in Nat
      BY <1>1, Zenon
    <3> QED  BY <1>1, <1>2, <2>1, <3>1, <3>2 DEF Active
  <2>2. CASE a # b
    <3>1. step'[a] = step[a] /\ pc'[a] = pc[a]
      BY <1>1, <2>2, Zenon DEF Return
    <3> QED  BY <3>1, Zenon DEF TypeInv, ScriptInv, Op
  <2> QED  BY <2>1, <2>2, Zenon
<1>6. ScriptInv'
  BY <1>5, Zenon DEF ScriptInv, Op
<1> QED  BY <1>3, <1>4, <1>6, Zenon
-----------------------------------------------------------------------------
(***************************************************************************)
(* The invariant by parts: the caches in memory, the control state and the *)
(* files.                                                                  *)
(***************************************************************************)
Sound(c) == c \in Cache /\ IdsRefer(c) /\ NoDuplicates(c)

Memory ==
  /\ glob \in [Targets -> Cache] /\ loc \in [Targets -> Cache] /\ temp \in [Targets -> Cache]
  /\ MemoryOK

Control ==
  /\ pc \in [Targets -> {"idle", "load", "itfs", "items", "copy", "merge", "save", "write",
                          "gen", "install", "failed", "killed", "done"}]
  /\ merged \in [Targets -> BOOLEAN]
  /\ script \in [Targets -> Seq(Operation)]
  /\ step \in [Targets -> Nat \ {0}] /\ item \in [Targets -> Nat \ {0}]
  /\ kills \in 0..MaxKills
  /\ done \in [Targets -> [Protos -> Nat]]

Files ==
  /\ localCache \in CacheFile /\ globalCache \in CacheFile
  /\ SavedIdsRefer /\ SavedNoDuplicates

LEMMA InvariantParts == IInv <=> Memory /\ Control /\ Files /\ ScriptInv
  BY Zenon DEF IInv, TypeInv, TypeOK, Memory, Control, Files

LEMMA InvariantPartsNext == IInv' <=> Memory' /\ Control' /\ Files' /\ ScriptInv'
  BY Zenon DEF IInv, TypeInv, TypeOK, Memory, Control, Files, MemoryOK, ScriptInv, SavedIdsRefer,
         SavedNoDuplicates, Op

\* The caches of a target are sound.
LEMMA CachesSound ==
  ASSUME IInv, NEW b \in Targets
  PROVE  Sound(glob[b]) /\ Sound(loc[b]) /\ temp[b] \in Cache /\ IdsRefer(temp[b])
  BY Zenon DEF IInv, TypeInv, TypeOK, MemoryOK, Sound

\* So are the caches that can be read from the files.
LEMMA FilesSound ==
  ASSUME IInv
  PROVE  /\ Readable(localCache) => Sound(localCache)
         /\ Readable(globalCache) => Sound(globalCache)
  BY ReadableCache, Zenon DEF IInv, TypeInv, TypeOK, SavedIdsRefer, SavedNoDuplicates, Sound

\* A step that leaves a target with sound caches keeps the caches in memory.
LEMMA MemoryStep ==
  ASSUME IInv, NEW b \in Targets, NEW g, NEW l, NEW t,
         Sound(g), Sound(l), t \in Cache, IdsRefer(t),
         glob' = glob \/ glob' = [glob EXCEPT ![b] = g],
         loc' = loc \/ loc' = [loc EXCEPT ![b] = l],
         temp' = temp \/ temp' = [temp EXCEPT ![b] = t]
  PROVE  Memory'
<1> HIDE DEF Cache
<1>1. glob \in [Targets -> Cache] /\ loc \in [Targets -> Cache] /\ temp \in [Targets -> Cache]
  BY Zenon DEF IInv, TypeInv, TypeOK
<1>2. ASSUME NEW a \in Targets PROVE Sound(glob'[a])
  <2>1. glob'[a] = glob[a] \/ glob'[a] = g
    BY <1>1, Zenon
  <2> QED  BY <2>1, CachesSound, Zenon
<1>3. ASSUME NEW a \in Targets PROVE Sound(loc'[a])
  <2>1. loc'[a] = loc[a] \/ loc'[a] = l
    BY <1>1, Zenon
  <2> QED  BY <2>1, CachesSound, Zenon
<1>4. ASSUME NEW a \in Targets PROVE temp'[a] \in Cache /\ IdsRefer(temp'[a])
  <2>1. temp'[a] = temp[a] \/ temp'[a] = t
    BY <1>1, Zenon
  <2> QED  BY <2>1, CachesSound, Zenon
<1>5. glob' \in [Targets -> Cache] /\ loc' \in [Targets -> Cache] /\ temp' \in [Targets -> Cache]
  BY <1>1, Zenon DEF Sound
<1>6. MemoryOK'
  BY <1>2, <1>3, <1>4, Zenon DEF MemoryOK, Sound
<1> QED  BY <1>5, <1>6, Zenon DEF Memory

\* Without a step of its caches, memory stays as it is.
LEMMA MemoryUnchanged ==
  ASSUME IInv, UNCHANGED <<glob, loc, temp>>
  PROVE  Memory'
  BY InvariantParts, Zenon DEF Memory, MemoryOK

LEMMA FilesUnchanged ==
  ASSUME IInv, UNCHANGED <<localCache, globalCache>>
  PROVE  Files'
  BY InvariantParts, Zenon DEF Files, SavedIdsRefer, SavedNoDuplicates
-----------------------------------------------------------------------------
(***************************************************************************)
(* One lemma per action that changes a cache or the script.                *)
(***************************************************************************)
USE DEF disk, memory

LEMMA StartTargetInv ==
  ASSUME IInv, NEW b \in Targets, StartTarget(b)
  PROVE  IInv'
<1> HIDE DEF Operation
<1>1. PICK s \in Scripts[b] :
        /\ script' = [script EXCEPT ![b] = s]
        /\ pc' = [pc EXCEPT ![b] = IF s = << >> THEN "done" ELSE "load"]
  BY Zenon DEF StartTarget
<1>2. s \in Seq(Operation)
  BY ScriptsAssumption, Zenon
<1>3. Control
  BY InvariantParts, Zenon
<1>4. Control'
  BY <1>1, <1>2, <1>3 DEF Control, StartTarget
<1>5. ScriptInv'
  <2> SUFFICES ASSUME NEW a \in Targets
               PROVE  /\ pc'[a] \in Active => step'[a] <= Len(script'[a])
                      /\ pc'[a] \in {"itfs", "items", "copy", "merge"}
                            => script'[a][step'[a]].op = "register"
    BY Zenon DEF ScriptInv, Op
  <2>1. CASE a = b
    <3>1. /\ script'[a] = s /\ step'[a] = 1
          /\ pc'[a] = IF s = << >> THEN "done" ELSE "load"
      BY <1>1, <1>3, <2>1, Zenon DEF Control, StartTarget
    <3>2. s # << >> => 1 <= Len(s)
      BY <1>2
    <3> QED  BY <3>1, <3>2, Zenon DEF Active
  <2>2. CASE a # b
    <3>1. script'[a] = script[a] /\ step'[a] = step[a] /\ pc'[a] = pc[a]
      BY <1>1, <1>3, <2>2, Zenon DEF Control, StartTarget
    <3> QED  BY <3>1, Zenon DEF IInv, TypeInv, ScriptInv, Op
  <2> QED  BY <2>1, <2>2, Zenon
<1>6. Memory' /\ Files'
  BY MemoryUnchanged, FilesUnchanged, Zenon DEF StartTarget
<1> QED  BY <1>4, <1>5, <1>6, InvariantPartsNext, Zenon

LEMMA LoadCacheInv ==
  ASSUME IInv, NEW b \in Targets, LoadCache(b)
  PROVE  IInv'
<1> DEFINE g == IF Readable(globalCache) THEN globalCache ELSE EmptyCache
           l == IF Readable(localCache) THEN localCache ELSE EmptyCache
           m == IF Op(b).op = "clear" THEN EmptyCache ELSE l
           x == AfterLoad(Op(b).op)
<1>1. Control /\ TypeInv /\ pc[b] = "load"
  BY InvariantParts, Zenon DEF IInv, LoadCache
<1>2. Sound(EmptyCache)
  BY EmptyCacheOK, Zenon DEF Sound
<1>3. Sound(g) /\ Sound(m)
  BY <1>2, FilesSound, Zenon
<1>4. EmptyCache \in Cache /\ IdsRefer(EmptyCache)
  BY EmptyCacheOK, Zenon
<1>5. Files'
  BY FilesUnchanged, Zenon DEF LoadCache
<1>6. CASE pc' = [pc EXCEPT ![b] = "failed"] /\ UNCHANGED <<memory, item, copied, done>>
  <2>1. Memory'
    BY <1>6, MemoryUnchanged, Zenon
  <2>2. Control'
    BY <1>1, <1>6, Zenon DEF Control, LoadCache
  <2>3. ScriptInv'
    BY <1>1, <1>6, ScriptStep, Zenon DEF LoadCache, Active
  <2> QED  BY <1>5, <2>1, <2>2, <2>3, InvariantPartsNext, Zenon
<1>7. CASE /\ glob' = [glob EXCEPT ![b] = g] /\ loc' = [loc EXCEPT ![b] = m]
           /\ merged' = [merged EXCEPT ![b] = Readable(localCache)]
           /\ temp' = [temp EXCEPT ![b] = EmptyCache]
           /\ item' = [item EXCEPT ![b] = 1]
           /\ done' = [done EXCEPT ![b] = [p \in Protos |-> 0]]
           /\ pc' = [pc EXCEPT ![b] = x]
  <2>1. Memory'
    <3> HIDE DEF g, m
    <3> QED  BY <1>3, <1>4, <1>7, MemoryStep, Zenon
  <2>2. Op(b).op \in {"register", "clear", "generate", "install"}
    BY <1>1, OpType, Zenon DEF Active
  <2>3. /\ x \in {"itfs", "save", "gen", "install"}
        /\ x = "itfs" => Op(b).op = "register"
    BY <2>2, Zenon DEF AfterLoad
  <2>4. script' = script /\ step' = step /\ kills' = kills
    BY Zenon DEF LoadCache
  <2>5. Readable(localCache) \in BOOLEAN
    BY Zenon DEF Readable
  <2> HIDE DEF x
  <2>6. Control'
    <3>1. merged' \in [Targets -> BOOLEAN]
      BY <1>1, <1>7, <2>5, Zenon DEF Control
    <3>2. done' \in [Targets -> [Protos -> Nat]]
      BY <1>1, <1>7, Zenon DEF Control
    <3>3. pc' \in [Targets -> {"idle", "load", "itfs", "items", "copy", "merge", "save", "write",
                                "gen", "install", "failed", "killed", "done"}]
      BY <1>1, <1>7, <2>3, Zenon DEF Control
    <3>4. item' \in [Targets -> Nat \ {0}]
      BY <1>1, <1>7 DEF Control
    <3> QED  BY <1>1, <2>4, <3>1, <3>2, <3>3, <3>4, Zenon DEF Control
  <2>7. ScriptInv'
    BY <1>1, <1>7, <2>3, <2>4, ScriptStep, Zenon DEF Active
  <2> QED  BY <1>5, <2>1, <2>6, <2>7, InvariantPartsNext
<1> QED  BY <1>6, <1>7, Zenon DEF LoadCache, Fail

LEMMA RegisterItfsInv ==
  ASSUME IInv, NEW b \in Targets, RegisterItfs(b)
  PROVE  IInv'
<1> DEFINE t == [temp[b] EXCEPT !.itfs = FileItfs[Op(b).file]]
<1>1. Control /\ TypeInv /\ pc[b] = "itfs" /\ Op(b).op = "register"
  BY InvariantParts, Zenon DEF IInv, RegisterItfs, TypeInv, ScriptInv
<1>2. FileItfs[Op(b).file] \in SUBSET Itfs
  BY <1>1, OpType, ItfsAssumption, Zenon DEF Active
<1>3. t \in Cache /\ t.tpls = temp[b].tpls /\ t.chunks = temp[b].chunks
  BY <1>2, CachesSound, Zenon DEF Cache
<1>4. IdsRefer(t)
  <2> HIDE DEF t
  <2> QED  BY <1>3, CachesSound, SameTables, Zenon
<1>5. temp \in [Targets -> Cache]
  BY <1>1, Zenon DEF TypeInv, TypeOK
<1>6. temp' = temp \/ temp' = [temp EXCEPT ![b] = t]
  BY <1>5, Zenon DEF RegisterItfs
<1>7. Memory'
  <2> HIDE DEF t
  <2> QED  BY <1>3, <1>4, <1>6, CachesSound, MemoryStep, Zenon DEF RegisterItfs
<1>8. PICK x \in {"failed", "items"} : pc' = [pc EXCEPT ![b] = x]
  BY Zenon DEF RegisterItfs, Fail
<1>9. Control'
  BY <1>1, <1>8, Zenon DEF Control, RegisterItfs
<1>10. ScriptInv'
  BY <1>1, <1>8, ScriptStep, Zenon DEF RegisterItfs, Active
<1> QED  BY <1>7, <1>9, <1>10, FilesUnchanged, InvariantPartsNext, Zenon DEF RegisterItfs

LEMMA RegisterGlobalCodeInv ==
  ASSUME IInv, NEW b \in Targets, RegisterGlobalCode(b)
  PROVE  IInv'
<1> DEFINE entry == [itf |-> NextItem(b).itf, with |-> NextItem(b).with,
                     src |-> <<Op(b).file, item[b]>>, idx |-> Len(temp[b].globs)]
           t == [temp[b] EXCEPT !.globs = Append(@, entry)]
<1>1. Control /\ TypeInv /\ pc[b] = "items" /\ Op(b).op = "register"
  BY InvariantParts, Zenon DEF IInv, RegisterGlobalCode, Registering, TypeInv, ScriptInv
<1>2. Op(b).file \in SourceFiles /\ item[b] \in Nat \ {0}
  BY <1>1, OpType, Zenon DEF Active, Control
<1>3. FileItems[Op(b).file] \in Seq(Item)
  BY <1>2, ItemsAssumption, Zenon
<1>4. NextItem(b) \in Item /\ NextItem(b).kind = "glob"
  <2> HIDE DEF Item
  <2> QED  BY <1>2, <1>3 DEF NextItem, RegisterGlobalCode, Registering
<1>5. NextItem(b).itf \in Itfs /\ NextItem(b).with \in Withs
  BY <1>4, Zenon DEF Item
<1>6. temp[b].globs \in Seq(Glob)
  BY CachesSound, Zenon DEF Cache
<1>7. Len(temp[b].globs) \in Nat
  <2> HIDE DEF Glob
  <2> QED  BY <1>6
<1>8. entry \in Glob
  BY <1>2, <1>5, <1>7, Zenon DEF Glob, Source
<1>9. Append(temp[b].globs, entry) \in Seq(Glob)
  <2> HIDE DEF Glob, entry
  <2> QED  BY <1>6, <1>8
<1>10. t \in Cache /\ t.tpls = temp[b].tpls /\ t.chunks = temp[b].chunks
  <2> HIDE DEF Glob, entry
  <2> QED  BY <1>9, CachesSound, Zenon DEF Cache
<1>11. IdsRefer(t)
  <2> HIDE DEF t
  <2> QED  BY <1>10, CachesSound, SameTables
<1>12. temp \in [Targets -> Cache]
  BY <1>1, Zenon DEF TypeInv, TypeOK
<1>13. temp' = temp \/ temp' = [temp EXCEPT ![b] = t]
  BY <1>12, Zenon DEF RegisterGlobalCode
<1>14. Memory'
  <2> HIDE DEF t
  <2> QED  BY <1>10, <1>11, <1>13, CachesSound, MemoryStep, Zenon DEF RegisterGlobalCode
<1>15. Control' /\ ScriptInv'
  BY <1>1 DEF Control, RegisterGlobalCode, TypeInv, ScriptInv, Op
<1> QED  BY <1>14, <1>15, FilesUnchanged, InvariantPartsNext, Zenon DEF RegisterGlobalCode

LEMMA RegisterTemplateInv ==
  ASSUME IInv, NEW b \in Targets, RegisterTemplate(b)
  PROVE  IInv'
<1> DEFINE it  == NextItem(b)
           src == <<Op(b).file, item[b]>>
           u   == [with |-> it.with, src |-> src, mapped |-> it.mapped,
                   ids |-> [c \in Pointcuts |-> 0]]
           new == [c \in it.pcs |->
                     [proto |-> it.proto, src |-> src, idx |-> Len(temp[b].chunks[c])]]
           t   == AddTemplate(temp[b], it.proto, u, new)
<1>1. Control /\ TypeInv /\ Registering(b, "tpl")
  BY InvariantParts, Zenon DEF IInv, RegisterTemplate
<1>2. /\ it.proto \in Protos /\ it.pcs \in SUBSET Pointcuts
      /\ u \in Template /\ new \in [it.pcs -> Chunk]
      /\ \A c \in it.pcs : new[c].proto = it.proto /\ new[c].src = u.src
  BY <1>1, RegisterTypes, Zenon
<1>3. temp' = temp \/ temp' = [temp EXCEPT ![b] = t]
  BY Zenon DEF RegisterTemplate
<1>4. t \in Cache
  <2> HIDE DEF u, new, it
  <2> QED  BY <1>2, CachesSound, AddTemplateType, Zenon
<1>5. IdsRefer(t)
  <2> HIDE DEF u, new, it
  <2> QED  BY <1>2, CachesSound, AddTemplateIds, Zenon
<1>6. Memory'
  <2> HIDE DEF t
  <2> QED  BY <1>3, <1>4, <1>5, CachesSound, MemoryStep, Zenon DEF RegisterTemplate
<1>7. /\ UNCHANGED <<pc, merged, script, step, kills, done>>
      /\ item' = [item EXCEPT ![b] = @ + 1]
  BY Zenon DEF RegisterTemplate
<1>8. Control'
  BY <1>1, <1>7 DEF Control
<1>9. ScriptInv'
  BY <1>1, <1>7, Zenon DEF TypeInv, ScriptInv, Op
<1> QED  BY <1>6, <1>8, <1>9, FilesUnchanged, InvariantPartsNext, Zenon DEF RegisterTemplate

LEMMA MergeBeginInv ==
  ASSUME IInv, NEW b \in Targets, MergeBegin(b)
  PROVE  IInv'
<1> DEFINE l == [loc[b] EXCEPT !.itfs = @ \cup temp[b].itfs, !.globs = @ \o temp[b].globs]
<1>1. Control /\ TypeInv /\ pc[b] = "copy" /\ Op(b).op = "register"
  BY InvariantParts, Zenon DEF IInv, MergeBegin, TypeInv, ScriptInv
<1>2. loc[b].globs \in Seq(Glob) /\ temp[b].globs \in Seq(Glob)
  BY CachesSound, Zenon DEF Cache, Sound
<1>3. loc[b].globs \o temp[b].globs \in Seq(Glob)
  <2> HIDE DEF Glob
  <2> QED  BY <1>2
<1>4. l \in Cache /\ l.tpls = loc[b].tpls /\ l.chunks = loc[b].chunks
  <2> HIDE DEF Glob
  <2> QED  BY <1>3, CachesSound, Zenon DEF Cache, Sound
<1>5. Sound(l)
  <2> HIDE DEF l
  <2> QED  BY <1>4, CachesSound, SameTables, Zenon DEF Sound
<1>6. loc \in [Targets -> Cache]
  BY <1>1, Zenon DEF TypeInv, TypeOK
<1>7. loc' = loc \/ loc' = [loc EXCEPT ![b] = l]
  BY <1>6, Zenon DEF MergeBegin
<1>8. Memory'
  <2> HIDE DEF l
  <2> QED  BY <1>5, <1>7, CachesSound, MemoryStep, Zenon DEF MergeBegin
<1>9. PICK x \in {"failed", "merge"} : pc' = [pc EXCEPT ![b] = x]
  BY Zenon DEF MergeBegin, Fail
<1>10. Control'
  BY <1>1, <1>9, Zenon DEF Control, MergeBegin
<1>11. ScriptInv'
  BY <1>1, <1>9, ScriptStep, Zenon DEF MergeBegin, Active
<1> QED  BY <1>8, <1>10, <1>11, FilesUnchanged, InvariantPartsNext, Zenon DEF MergeBegin

LEMMA MergeTemplateInv ==
  ASSUME IInv, NEW b \in Targets, MergeTemplate(b)
  PROVE  IInv'
<1>1. Control /\ TypeInv /\ pc[b] = "merge" /\ Op(b).op = "register"
  BY InvariantParts, Zenon DEF IInv, MergeTemplate, TypeInv, ScriptInv
<1>2. Files'
  BY FilesUnchanged, Zenon DEF MergeTemplate
<1>3. PICK p \in Protos :
        /\ done[b][p] < Len(temp[b].tpls[p])
        /\ LET t == temp[b].tpls[p][done[b][p] + 1]
               new == TemplateChunks(temp[b], t)
           IN  IF CheckTplConflict(loc[b].tpls[p], t.with)
               THEN Fail(b) /\ UNCHANGED <<loc, done>>
               ELSE /\ loc' = [loc EXCEPT ![b] = AddTemplate(@, p, t, new)]
                    /\ done' = [done EXCEPT ![b][p] = @ + 1]
                    /\ UNCHANGED pc
  BY Zenon DEF MergeTemplate
<1> DEFINE i == done[b][p] + 1
           t == temp[b].tpls[p][i]
           new == TemplateChunks(temp[b], t)
<1>4. CASE CheckTplConflict(loc[b].tpls[p], t.with)
  <2>1. Fail(b) /\ UNCHANGED <<loc, done>>
    BY <1>3, <1>4, Zenon
  <2>2. Memory'
    BY <2>1, MemoryUnchanged, Zenon DEF MergeTemplate
  <2>3. Control'
    BY <1>1, <2>1, Zenon DEF Control, MergeTemplate, Fail
  <2>4. ScriptInv'
    BY <1>1, <2>1, ScriptStep, Zenon DEF MergeTemplate, Fail, Active
  <2> QED  BY <1>2, <2>2, <2>3, <2>4, InvariantPartsNext, Zenon
<1>5. CASE ~ CheckTplConflict(loc[b].tpls[p], t.with)
  <2> DEFINE l == AddTemplate(loc[b], p, t, new)
  <2>1. /\ loc' = [loc EXCEPT ![b] = l]
        /\ done' = [done EXCEPT ![b][p] = @ + 1]
        /\ UNCHANGED pc
    BY <1>3, <1>5, Zenon
  <2>2. temp[b].tpls[p] \in Seq(Template) /\ done[b][p] \in Nat
    <3>1. temp[b] \in Cache /\ done \in [Targets -> [Protos -> Nat]]
      BY <1>1, CachesSound, Zenon DEF Control
    <3> HIDE DEF Template
    <3>2. temp[b].tpls \in [Protos -> Seq(Template)]
      BY <3>1, Zenon DEF Cache
    <3> QED  BY <3>1, <3>2, Zenon
  <2>3. i \in 1..Len(temp[b].tpls[p])
    <3> HIDE DEF Template
    <3>1. Len(temp[b].tpls[p]) \in Nat
      BY <2>2
    <3> QED  BY <1>3, <2>2, <3>1
  <2> HIDE DEF i
  <2>4. t \in Template /\ OwnChunks(new, p, t)
    <3>1. t = temp[b].tpls[p][i] /\ new = TemplateChunks(temp[b], t)
      BY Zenon
    <3> HIDE DEF t, new
    <3> QED  BY <2>3, <3>1, CachesSound, TemplateChunksType, Zenon
  <2> HIDE DEF t, new
  <2>5. PICK S \in SUBSET Pointcuts :
          /\ new \in [S -> Chunk]
          /\ \A c \in S : new[c].proto = p /\ new[c].src = t.src
    BY <2>4, Zenon DEF OwnChunks
  <2>6. loc[b] \in Cache /\ IdsRefer(loc[b]) /\ NoDuplicates(loc[b])
    BY CachesSound, Zenon DEF Sound
  <2>7. l \in Cache
    BY <2>4, <2>5, <2>6, AddTemplateType, Zenon
  <2>8. IdsRefer(l)
    BY <2>4, <2>5, <2>6, AddTemplateIds, Zenon
  <2>9. NoDuplicates(l)
    BY <1>5, <2>4, <2>5, <2>6, AddTemplateNoDuplicates, Zenon
  <2>10. Sound(l)
    BY <2>7, <2>8, <2>9, Zenon DEF Sound
  <2> HIDE DEF l
  <2>11. Memory'
    BY <2>1, <2>10, CachesSound, MemoryStep, Zenon DEF MergeTemplate
  <2>12. UNCHANGED <<pc, merged, script, step, item, kills>>
    BY <2>1, Zenon DEF MergeTemplate
  <2>13. done' \in [Targets -> [Protos -> Nat]]
    BY <1>1, <2>1 DEF Control
  <2>14. Control'
    BY <1>1, <2>12, <2>13, Zenon DEF Control
  <2>15. ScriptInv'
    BY <1>1, <2>12, Zenon DEF TypeInv, ScriptInv, Op
  <2> QED  BY <1>2, <2>11, <2>14, <2>15, InvariantPartsNext, Zenon
<1> QED  BY <1>4, <1>5, Zenon

LEMMA SaveBeginInv ==
  ASSUME IInv, NEW b \in Targets, SaveBegin(b)
  PROVE  IInv'
<1>1. Control /\ Files /\ TypeInv /\ pc[b] = "save"
  BY InvariantParts, Zenon DEF IInv, SaveBegin
<1>2. Control'
  BY <1>1, Zenon DEF Control, SaveBegin
<1>3. ScriptInv'
  BY <1>1, ScriptStep, Zenon DEF SaveBegin, Active
<1>4. Files'
  BY <1>1, Zenon DEF Files, SaveBegin, CacheFile, SavedIdsRefer, SavedNoDuplicates, Readable
<1> QED  BY <1>2, <1>3, <1>4, MemoryUnchanged, InvariantPartsNext, Zenon DEF SaveBegin

LEMMA SaveEndInv ==
  ASSUME IInv, NEW b \in Targets, SaveEnd(b)
  PROVE  IInv'
<1>1. Control /\ Files /\ TypeInv /\ pc[b] \in Active
  BY InvariantParts, Zenon DEF IInv, SaveEnd, Active
<1>2. Return(b) /\ script' = script
  BY Zenon DEF SaveEnd
<1>3. ScriptInv' /\ Control'
  BY <1>1, <1>2, ReturnStep, Zenon DEF Control, SaveEnd
<1>4. Files'
  BY <1>1, CachesSound, Zenon DEF Files, SaveEnd, CacheFile, SavedIdsRefer, SavedNoDuplicates, Sound
<1> QED  BY <1>3, <1>4, MemoryUnchanged, InvariantPartsNext, Zenon DEF SaveEnd

LEMMA GenerateInv ==
  ASSUME IInv, NEW b \in Targets, Generate(b)
  PROVE  IInv'
<1>1. Control /\ TypeInv /\ pc[b] = "gen" /\ pc[b] \in Active
  BY InvariantParts, Zenon DEF IInv, Generate, Active
<1>2. \/ Return(b)
      \/ pc' = [pc EXCEPT ![b] = "failed"] /\ step' = step
  BY Zenon DEF Generate, Fail
<1>3. script' = script /\ UNCHANGED <<disk, memory, kills, item, done>>
  BY Zenon DEF Generate
<1>4. CASE Return(b)
  <2>1. ScriptInv' /\ Control'
    BY <1>1, <1>3, <1>4, ReturnStep, Zenon DEF Control
  <2> QED  BY <1>3, <2>1, MemoryUnchanged, FilesUnchanged, InvariantPartsNext, Zenon
<1>5. CASE pc' = [pc EXCEPT ![b] = "failed"] /\ step' = step
  <2>1. Control'
    BY <1>1, <1>3, <1>5, Zenon DEF Control
  <2>2. ScriptInv'
    BY <1>1, <1>3, <1>5, ScriptStep, Zenon DEF Active
  <2> QED  BY <1>3, <2>1, <2>2, MemoryUnchanged, FilesUnchanged, InvariantPartsNext, Zenon
<1> QED  BY <1>2, <1>4, <1>5, Zenon

\* Sequence w is s followed by u, element by element.
Concat(s, u, w) ==
  /\ Len(s) \in Nat /\ Len(u) \in Nat /\ Len(w) = Len(s) + Len(u)
  /\ \A i \in 1..Len(s) : w[i] = s[i]
  /\ \A i \in 1..Len(w) : i > Len(s) => i - Len(s) \in 1..Len(u) /\ w[i] = u[i - Len(s)]

LEMMA ConcatFacts ==
  ASSUME NEW T, NEW s \in Seq(T), NEW u \in Seq(T), NEW w, w = s \o u
  PROVE  Concat(s, u, w)
  BY DEF Concat

\* A cache without chunks has no chunk ids.
LEMMA NoChunksNoIds ==
  ASSUME NEW c \in Cache, IdsRefer(c), AllChunks(c) = {},
         NEW p \in Protos, NEW i \in 1..Len(c.tpls[p]), NEW e \in Pointcuts
  PROVE  c.tpls[p][i].ids[e] = 0
<1>1. c.tpls[p] \in Seq(Template) /\ c.chunks[e] \in Seq(Chunk)
  BY Zenon DEF Cache
<1>2. c.tpls[p][i] \in Template
  <2> HIDE DEF Template
  <2> QED  BY <1>1
<1>3. c.tpls[p][i].ids[e] \in Nat
  BY <1>2, Zenon DEF Template
<1>4. Len(c.chunks[e]) \in Nat /\ ~ (1 \in 1..Len(c.chunks[e]))
  <2>1. Len(c.chunks[e]) \in Nat
    <3> HIDE DEF Chunk
    <3> QED  BY <1>1
  <2>2. ASSUME 1 \in 1..Len(c.chunks[e]) PROVE FALSE
    <3>1. <<e, c.chunks[e][1]>> \in AllChunks(c)
      BY <2>2 DEF AllChunks
    <3> QED  BY <3>1, Zenon
  <2> QED  BY <2>1, <2>2, Zenon
<1>5. c.tpls[p][i].ids[e] # 0 => c.tpls[p][i].ids[e] <= Len(c.chunks[e])
  BY Zenon DEF IdsRefer
<1> QED  BY <1>3, <1>4, <1>5

\* The merge of a local cache without chunks into the global one, which is the
\* only one cache install gets to, leaves the global cache sound.
LEMMA InstallSound ==
  ASSUME NEW c, NEW l, Sound(c), Sound(l), AllChunks(l) = {}, ~ MergeConflict(c, l),
         NEW g, g = [c EXCEPT !.globs = @ \o l.globs,
                              !.tpls = [p \in Protos |-> @[p] \o l.tpls[p]]]
  PROVE  Sound(g)
<1>1. c \in Cache /\ l \in Cache
  BY Zenon DEF Sound
<1>2. c.globs \in Seq(Glob) /\ l.globs \in Seq(Glob)
  BY <1>1, Zenon DEF Cache
<1>3. \A p \in Protos : c.tpls[p] \in Seq(Template) /\ l.tpls[p] \in Seq(Template)
  BY <1>1, Zenon DEF Cache
<1>4. c.globs \o l.globs \in Seq(Glob)
  <2> HIDE DEF Glob
  <2> QED  BY <1>2
<1>5. [p \in Protos |-> c.tpls[p] \o l.tpls[p]] \in [Protos -> Seq(Template)]
  <2> HIDE DEF Template
  <2> QED  BY <1>3
<1>6. g = [c EXCEPT !.globs = c.globs \o l.globs,
                    !.tpls = [p \in Protos |-> c.tpls[p] \o l.tpls[p]]]
  BY Zenon
<1>7. /\ g \in Cache /\ g.chunks = c.chunks
      /\ g.tpls = [p \in Protos |-> c.tpls[p] \o l.tpls[p]]
  <2> HIDE DEF Glob, Template
  <2> QED  BY <1>1, <1>4, <1>5, <1>6, Zenon DEF Cache
<1>8. \A p \in Protos : g.tpls[p] = c.tpls[p] \o l.tpls[p]
  BY <1>7, Zenon
<1>9. ASSUME NEW p \in Protos
      PROVE  /\ Len(c.tpls[p]) \in Nat
             /\ \A i \in 1..Len(c.tpls[p]) : g.tpls[p][i] = c.tpls[p][i]
             /\ \A i \in 1..Len(g.tpls[p]) : i > Len(c.tpls[p]) =>
                   /\ i - Len(c.tpls[p]) \in 1..Len(l.tpls[p])
                   /\ g.tpls[p][i] = l.tpls[p][i - Len(c.tpls[p])]
  <2>1. Concat(c.tpls[p], l.tpls[p], g.tpls[p])
    <3> HIDE DEF Template
    <3> QED  BY <1>3, <1>8, ConcatFacts, Zenon
  <2> QED  BY <2>1, Zenon DEF Concat
<1>10. IdsRefer(g)
  <2> SUFFICES ASSUME NEW p \in Protos, NEW i \in 1..Len(g.tpls[p]), NEW e \in Pointcuts,
                      g.tpls[p][i].ids[e] # 0
               PROVE  /\ g.tpls[p][i].ids[e] <= Len(g.chunks[e])
                      /\ g.chunks[e][g.tpls[p][i].ids[e]].proto = p
                      /\ g.chunks[e][g.tpls[p][i].ids[e]].src = g.tpls[p][i].src
    BY Zenon DEF IdsRefer
  <2>1. CASE i \in 1..Len(c.tpls[p])
    <3>1. g.tpls[p][i] = c.tpls[p][i]
      BY <1>9, <2>1, Zenon
    <3>2. c.tpls[p][i].ids[e] # 0
      BY <3>1, Zenon
    <3>3. /\ c.tpls[p][i].ids[e] <= Len(c.chunks[e])
          /\ c.chunks[e][c.tpls[p][i].ids[e]].proto = p
          /\ c.chunks[e][c.tpls[p][i].ids[e]].src = c.tpls[p][i].src
      <4>1. IdsRefer(c)
        BY Zenon DEF Sound
      <4> QED  BY <2>1, <3>2, <4>1, Zenon DEF IdsRefer
    <3> QED  BY <1>7, <3>1, <3>3, Zenon
  <2>2. CASE i \notin 1..Len(c.tpls[p])
    <3> DEFINE j == i - Len(c.tpls[p])
    <3>1. i > Len(c.tpls[p])
      <4> DEFINE n == Len(c.tpls[p])
      <4>1. n \in Nat
        BY <1>9, Zenon
      <4>2. i \in Nat
        OBVIOUS
      <4>3. i \notin 1..n /\ i # 0
        BY <2>2
      <4> HIDE DEF n
      <4>4. i > n
        BY <4>1, <4>2, <4>3
      <4> QED  BY <4>4, Zenon DEF n
    <3>2. j \in 1..Len(l.tpls[p]) /\ g.tpls[p][i] = l.tpls[p][j]
      BY <1>9, <3>1, Zenon
    <3> HIDE DEF j
    <3>3. l.tpls[p][j].ids[e] = 0
      BY <1>1, <3>2, NoChunksNoIds, Zenon DEF Sound
    <3> QED  BY <3>2, <3>3, Zenon
  <2> QED  BY <2>1, <2>2, Zenon
<1>11. ASSUME NEW p \in Protos, NEW i \in 1..Len(c.tpls[p]), NEW j \in 1..Len(l.tpls[p])
       PROVE  c.tpls[p][i].with # l.tpls[p][j].with
  <2> DEFINE u == SubSeq(l.tpls[p], 1, j - 1)
  <2> HIDE DEF Template
  <2>1. c.tpls[p] \in Seq(Template) /\ u \in Seq(Template)
    BY <1>3
  <2>2. ~ CheckTplConflict(c.tpls[p] \o u, l.tpls[p][j].with)
    BY Zenon DEF MergeConflict
  <2> HIDE DEF u
  <2>3. i \in 1..Len(c.tpls[p] \o u) /\ (c.tpls[p] \o u)[i] = c.tpls[p][i]
    <3>1. Concat(c.tpls[p], u, c.tpls[p] \o u)
      BY <2>1, ConcatFacts, Zenon
    <3> QED  BY <3>1 DEF Concat
  <2> QED  BY <2>2, <2>3, Zenon DEF CheckTplConflict
<1>12. NoDuplicates(g)
  <2> SUFFICES ASSUME NEW p \in Protos, NEW i \in 1..Len(g.tpls[p]), NEW j \in 1..Len(g.tpls[p]),
                      g.tpls[p][i].with = g.tpls[p][j].with
               PROVE  i = j
    BY Zenon DEF NoDuplicates
  <2> DEFINE n == Len(c.tpls[p])
  <2>0. n \in Nat
    BY <1>9, Zenon
  <2>a. NoDuplicates(c) /\ NoDuplicates(l)
    BY Zenon DEF Sound
  <2>b. ASSUME NEW k \in 1..Len(g.tpls[p]), k <= n
        PROVE  k \in 1..n /\ g.tpls[p][k] = c.tpls[p][k]
    <3>1. k \in 1..n
      <4> HIDE DEF n
      <4> QED  BY <2>0, <2>b
    <3> QED  BY <1>9, <3>1, Zenon
  <2>c. ASSUME NEW k \in 1..Len(g.tpls[p]), k > n
        PROVE  k - n \in 1..Len(l.tpls[p]) /\ g.tpls[p][k] = l.tpls[p][k - n]
    BY <1>9, <2>c, Zenon
  <2> HIDE DEF n
  <2>1. CASE i <= n /\ j <= n
    <3>1. /\ i \in 1..n /\ j \in 1..n
          /\ c.tpls[p][i].with = c.tpls[p][j].with
      BY <2>1, <2>b, Zenon
    <3> QED  BY <3>1, <2>a, Zenon DEF NoDuplicates, n
  <2>2. CASE i <= n /\ j > n
    <3>1. i \in 1..Len(c.tpls[p]) /\ g.tpls[p][i] = c.tpls[p][i]
      BY <2>2, <2>b, Zenon DEF n
    <3>2. j - n \in 1..Len(l.tpls[p]) /\ g.tpls[p][j] = l.tpls[p][j - n]
      BY <2>2, <2>c, Zenon
    <3>3. c.tpls[p][i].with # l.tpls[p][j - n].with
      BY <1>11, <3>1, <3>2, Zenon
    <3> QED  BY <3>1, <3>2, <3>3, Zenon
  <2>3. CASE i > n /\ j <= n
    <3>1. j \in 1..Len(c.tpls[p]) /\ g.tpls[p][j] = c.tpls[p][j]
      BY <2>3, <2>b, Zenon DEF n
    <3>2. i - n \in 1..Len(l.tpls[p]) /\ g.tpls[p][i] = l.tpls[p][i - n]
      BY <2>3, <2>c, Zenon
    <3>3. c.tpls[p][j].with # l.tpls[p][i - n].with
      BY <1>11, <3>1, <3>2, Zenon
    <3> QED  BY <3>1, <3>2, <3>3, Zenon
  <2>4. CASE i > n /\ j > n
    <3>1. /\ i - n \in 1..Len(l.tpls[p]) /\ j - n \in 1..Len(l.tpls[p])
          /\ l.tpls[p][i - n].with = l.tpls[p][j - n].with
      BY <2>4, <2>c, Zenon
    <3>2. i - n = j - n
      BY <3>1, <2>a, Zenon DEF NoDuplicates
    <3> QED  BY <2>0, <3>2
  <2> QED  BY <2>0, <2>1, <2>2, <2>3, <2>4
<1> QED  BY <1>7, <1>10, <1>12, Zenon DEF Sound

LEMMA InstallLocalCacheInv ==
  ASSUME IInv, NEW b \in Targets, InstallLocalCache(b)
  PROVE  IInv'
<1>1. Control /\ TypeInv /\ pc[b] = "install"
  BY InvariantParts, Zenon DEF IInv, InstallLocalCache
<1>2. /\ UNCHANGED <<script, step, kills, item, done>>
      /\ UNCHANGED <<localCache, globalCache, merged, temp>>
  BY Zenon DEF InstallLocalCache
<1>3. CASE pc' = [pc EXCEPT ![b] = "failed"] /\ UNCHANGED <<glob, loc>>
  <2>1. Control'
    BY <1>1, <1>2, <1>3, Zenon DEF Control
  <2>2. ScriptInv'
    BY <1>1, <1>2, <1>3, ScriptStep, Zenon DEF Active
  <2> QED  BY <1>2, <1>3, <2>1, <2>2, MemoryUnchanged, FilesUnchanged, InvariantPartsNext, Zenon
<1> DEFINE g == [glob[b] EXCEPT !.globs = @ \o loc[b].globs,
                                !.tpls = [p \in Protos |-> @[p] \o loc[b].tpls[p]]]
<1>4. CASE /\ AllChunks(loc[b]) = {} /\ ~ MergeConflict(glob[b], loc[b])
           /\ glob' = [glob EXCEPT ![b].globs = @ \o loc[b].globs,
                          ![b].tpls = [p \in Protos |-> @[p] \o loc[b].tpls[p]]]
           /\ loc' = [loc EXCEPT ![b] = EmptyCache]
           /\ pc' = [pc EXCEPT ![b] = "save"]
  <2>1. Control'
    BY <1>1, <1>2, <1>4, Zenon DEF Control
  <2>2. ScriptInv'
    BY <1>1, <1>2, <1>4, ScriptStep, Zenon DEF Active
  <2>3. glob' = [glob EXCEPT ![b] = g]
    <3>1. glob \in [Targets -> Cache]
      BY <1>1, Zenon DEF TypeInv, TypeOK
    <3>2. glob' = [glob EXCEPT ![b].globs = @ \o loc[b].globs,
                               ![b].tpls = [p \in Protos |-> @[p] \o loc[b].tpls[p]]]
      BY <1>4, Zenon
    <3> QED  BY <3>1, <3>2, Zenon
  <2>4. Sound(g)
    BY <1>4, CachesSound, InstallSound, Zenon
  <2>5. Sound(EmptyCache)
    BY EmptyCacheOK DEF Sound
  <2> HIDE DEF g
  <2>6. Memory'
    BY <1>2, <1>4, <2>3, <2>4, <2>5, CachesSound, MemoryStep, Zenon
  <2> QED  BY <1>2, <2>1, <2>2, <2>6, FilesUnchanged, InvariantPartsNext, Zenon
<1> QED  BY <1>3, <1>4, Zenon DEF InstallLocalCache, Fail
-----------------------------------------------------------------------------
\* The actions that move a target on without touching a cache.
LEMMA ControlInv ==
  ASSUME IInv, NEW b \in Targets,
         RegisterEnd(b) \/ ValidateFile(b) \/ MergeEnd(b) \/ Kill(b) \/ Rerun(b)
  PROVE  IInv'
<1>1. Control /\ TypeInv
  BY InvariantParts, Zenon DEF IInv
<1>2. UNCHANGED <<script, step, item, done, glob, loc, merged, temp, localCache, globalCache>>
  BY Zenon DEF RegisterEnd, ValidateFile, MergeEnd, Kill, Rerun
<1>3. kills' \in 0..MaxKills
  BY <1>1, JobsAssumption DEF Control, RegisterEnd, ValidateFile, MergeEnd, Kill, Rerun
<1>4. CASE ValidateFile(b)
  BY <1>1, <1>2, <1>3, <1>4, MemoryUnchanged, FilesUnchanged, InvariantPartsNext, Zenon
     DEF ValidateFile, Control, TypeInv, ScriptInv, Op
<1>5. CASE RegisterEnd(b) \/ MergeEnd(b) \/ Kill(b) \/ Rerun(b)
  <2>1. PICK x \in {"copy", "save", "killed", "idle"} :
          /\ pc' = [pc EXCEPT ![b] = x]
          /\ x = "copy" => pc[b] = "items"
          /\ x = "save" => pc[b] = "merge"
    BY <1>5, Zenon DEF RegisterEnd, MergeEnd, Kill, Rerun
  <2>2. x = "copy" => Op(b).op = "register"
    BY <1>1, <2>1, Zenon DEF TypeInv, ScriptInv
  <2>3. ScriptInv'
    BY <1>1, <1>2, <2>1, <2>2, ScriptStep, Zenon DEF Active
  <2>4. Control'
    BY <1>1, <1>2, <1>3, <2>1, Zenon DEF Control
  <2> QED  BY <1>2, <2>3, <2>4, MemoryUnchanged, FilesUnchanged, InvariantPartsNext, Zenon
<1> QED  BY <1>4, <1>5, Zenon

LEMMA InvInit == Init => IInv
<1> SUFFICES ASSUME Init PROVE IInv
  OBVIOUS
<1>1. MemoryOK
  BY EmptyCacheOK, Zenon DEF Init, MemoryOK
<1>2. SavedIdsRefer /\ SavedNoDuplicates
  BY Zenon DEF Init, SavedIdsRefer, SavedNoDuplicates, Readable
<1> QED  BY <1>1, <1>2, TypeInit, Zenon DEF IInv

LEMMA InvNext == IInv /\ [Next]_vars => IInv'
<1> SUFFICES ASSUME IInv, [Next]_vars PROVE IInv'
  BY Zenon
<1>1. CASE UNCHANGED vars
  <2>1. Control' /\ ScriptInv'
    BY <1>1, InvariantParts, Zenon DEF vars, Control, ScriptInv, Op
  <2> QED  BY <1>1, <2>1, MemoryUnchanged, FilesUnchanged, InvariantPartsNext, Zenon DEF vars
<1>2. ASSUME NEW b \in Targets, StartTarget(b) \/ Invocation(b) \/ Kill(b) \/ Rerun(b)
      PROVE  IInv'
  BY <1>2, StartTargetInv, LoadCacheInv, RegisterItfsInv, RegisterGlobalCodeInv,
     RegisterTemplateInv, MergeBeginInv, MergeTemplateInv, SaveBeginInv, SaveEndInv,
     InstallLocalCacheInv, GenerateInv, ControlInv, Zenon DEF Invocation
<1> QED  BY <1>1, <1>2, Zenon DEF Next, Terminated

\* For any files, scripts and number of parallel jobs, the state of the link
\* cache is well typed: rathaxes.cws never registers, merges or saves anything
\* but a cache.
THEOREM TypeCorrect == Spec => []TypeOK
<1>1. IInv => TypeOK
  BY Zenon DEF IInv, TypeInv
<1> QED  BY <1>1, InvInit, InvNext, PTL DEF Spec

\* rtxLink_MergeCaches renumbers the chunk ids of the templates it merges: in
\* every cache file a template leads to its own chunks, however many targets
\* run at once and wherever they are killed.
THEOREM IdsStayRight == Spec => []SavedIdsRefer
<1>1. IInv => SavedIdsRefer
  BY Zenon DEF IInv
<1> QED  BY <1>1, InvInit, InvNext, PTL DEF Spec

\* rtxLink_CheckTplConflict keeps out of every cache file a second template of
\* the same prototype and the same with node.
THEOREM TemplatesStayUnique == Spec => []SavedNoDuplicates
<1>1. IInv => SavedNoDuplicates
  BY Zenon DEF IInv
<1> QED  BY <1>1, InvInit, InvNext, PTL DEF Spec

-----------------------------------------------------------------------------
(***************************************************************************)
(* What a build generates.  As long as one target runs at a time, the      *)
(* local cache of a build holds, between two commands, what the commands   *)
(* before registered, and the local library has the text of it.            *)
(***************************************************************************)
ItemAt(x) == FileItems[x[1]][x[2]]
Items(f) == {<<f, k>> : k \in 1..Len(FileItems[f])}

\* What the commands before number n register.
Before(s, n) == {x \in ScriptSources(s) : \E i \in 1..(n - 1) : Registers(s, i, x[1])}

\* The global code x is the first of its interface.
First(s, x) == \A y \in ScriptGlobs(s) : ItemAt(y).itf = ItemAt(x).itf => ~ Earlier(s, y, x)

\* Templates, chunks and global code of a cache come from the items of X.
TplFrom(t, p, X) ==
  /\ t.src \in X /\ ItemAt(t.src).kind = "tpl"
  /\ ItemAt(t.src).proto = p /\ ItemAt(t.src).with = t.with
  /\ \A c \in Pointcuts : t.ids[c] # 0 <=> c \in ItemAt(t.src).pcs
ChunkFrom(k, c, X) ==
  /\ k.src \in X /\ ItemAt(k.src).kind = "tpl"
  /\ ItemAt(k.src).proto = k.proto /\ c \in ItemAt(k.src).pcs
GlobFrom(g, X, s, K) ==
  /\ g.src \in X /\ ItemAt(g.src).kind = "glob"
  /\ ItemAt(g.src).itf = g.itf /\ ItemAt(g.src).with = g.with
  /\ g.itf \notin K /\ First(s, g.src)

TablesFrom(C, X) ==
  /\ \A p \in Protos : \A t \in Entries(C.tpls[p]) : TplFrom(t, p, X)
  /\ \A c \in Pointcuts : \A k \in Entries(C.chunks[c]) : ChunkFrom(k, c, X)
GlobsFrom(G, X, s, K) == \A g \in G : GlobFrom(g, X, s, K)

\* The templates of X are in C, and its global code in G as far as it is the first.
HasTpl(C, x) == \E t \in Entries(C.tpls[ItemAt(x).proto]) : t.src = x
AllTpls(C, X) == \A x \in X : ItemAt(x).kind = "tpl" => HasTpl(C, x)
AllGlobs(G, X, s, K) ==
  \A x \in X : ItemAt(x).kind = "glob" /\ ItemAt(x).itf \notin K =>
    /\ \E g \in G : g.itf = ItemAt(x).itf
    /\ First(s, x) => \E g \in G : g.src = x

\* Library l has the text of what is in a cache.
InLib(l, n, src) == <<n, "tree">> \in DOMAIN l /\ l[<<n, "tree">>] = src
ChunksInLib(C, l) ==
  \A c \in Pointcuts : \A k \in Entries(C.chunks[c]) : InLib(l, ChunkName(c, k), k.src)
GlobsInLib(G, l) == \A g \in G : InLib(l, GlobName(g), g.src)

\* Cache C has the items of X, and l has their text.
Full(C, X, s, K, l) ==
  /\ TablesFrom(C, X) /\ AllTpls(C, X) /\ ChunksInLib(C, l)
  /\ GlobsFrom(Entries(C.globs), X, s, K) /\ AllGlobs(Entries(C.globs), X, s, K)
  /\ GlobsInLib(Entries(C.globs), l)

\* The differential cache T has the items Y of the file that is registered, which
\* come after the items X in cache C.
TempInv(T, C, X, Y, s, K) ==
  /\ TablesFrom(T, Y) /\ AllTpls(T, Y) /\ GlobsFrom(Entries(T.globs), Y, s, K)
  /\ AllGlobs(Entries(C.globs) \cup Entries(T.globs), X \cup Y, s, K)
  /\ \A i \in 1..Len(T.globs) : T.globs[i].idx + 1 = i
  /\ \A g \in Entries(T.globs) : \A h \in Entries(C.globs) : g.itf # h.itf

\* While templates are merged, what is not in the local cache C is still to come:
\* d counts the templates that were merged.
ToCome(T, d, x) ==
  \E i \in 1..Len(T.tpls[ItemAt(x).proto]) :
    i > d[ItemAt(x).proto] /\ T.tpls[ItemAt(x).proto][i].src = x
MergeInv(C, T, d, X, Y, s, K, l) ==
  /\ TablesFrom(C, X) /\ ChunksInLib(C, l)
  /\ GlobsFrom(Entries(C.globs), X, s, K) /\ AllGlobs(Entries(C.globs), X, s, K)
  /\ GlobsInLib(Entries(C.globs), l)
  /\ TablesFrom(T, Y) /\ ChunksInLib(T, l)
  /\ \A p \in Protos : d[p] <= Len(T.tpls[p])
  /\ \A x \in X : ItemAt(x).kind = "tpl" => HasTpl(C, x) \/ ToCome(T, d, x)

\* What is installed, and the interfaces that have global code there.
Inst(file) == IF Readable(file) THEN file ELSE EmptyCache
Known(C) == {g.itf : g \in Entries(C.globs)}

\* The items of file f before the n-th.
ItemsTo(f, n) == {x \in Items(f) : x[2] < n}

\* The files that belong to the entries of T, as DiffFiles has them.
Diff(T, f) ==
  {<<ItfName(i), <<f, 0>>>> : i \in T.itfs}
  \cup {<<GlobName(g), g.src>> : g \in Entries(T.globs)}
  \cup UNION {{<<ChunkName(c, k), k.src>> : k \in Entries(T.chunks[c])} : c \in Pointcuts}

\* Up to the merge, the items of f before the i-th are in the differential cache T;
\* those of X are in the local cache C and in library l, where the files cp are too.
Registration(T, C, X, f, i, cp, s, K, l) ==
  /\ Full(C, X, s, K, l) /\ TempInv(T, C, X, ItemsTo(f, i), s, K)
  /\ i <= Len(FileItems[f]) + 1
  /\ cp \subseteq Diff(T, f) /\ \A e \in cp : InLib(l, e[1], e[2])

\* An invocation of a build that registers a file.
Regs(b) ==
  /\ glob[b] = Inst(globalCache) /\ merged[b] /\ \A p \in Protos : done[b][p] = 0
  /\ Registration(temp[b], loc[b], Before(script[b], step[b]), Op(b).file, item[b], copied[b],
                  script[b], Known(Inst(globalCache)), lib)

\* A build that runs.
BuildInv(b) ==
  LET s == script[b]
      n == step[b]
      f == Op(b).file
      K == Known(Inst(globalCache))
  IN
  /\ pc[b] # "install"
  /\ pc[b] # "load" => glob[b] = Inst(globalCache)
  /\ pc[b] = "load" /\ n > 1 =>
       Readable(localCache) /\ Full(localCache, Before(s, n), s, K, lib)
  /\ pc[b] \in {"itfs", "items", "copy"} => Regs(b)
  /\ pc[b] \in {"itfs", "items"} => copied[b] = {}
  /\ pc[b] = "copy" => item[b] = Len(FileItems[f]) + 1
  /\ pc[b] = "merge" =>
       MergeInv(loc[b], temp[b], done[b], Before(s, n + 1), Items(f), s, K, lib)
  /\ pc[b] \in {"save", "write"} =>
       n < Len(s) /\ Op(b).op # "install" /\ Full(loc[b], Before(s, n + 1), s, K, lib)
  /\ pc[b] = "gen" =>
       /\ Op(b).op = "generate" /\ merged[b] /\ temp[b] = EmptyCache
       /\ Readable(localCache) /\ loc[b] = localCache
       /\ Full(loc[b], Before(s, n), s, K, lib)

\* g is generated from the files of script s and from what is installed in C.
Built(g, C, s, config) ==
  /\ {x \in g.globs : x[1] \notin Known(C)} = ExpectedGlobs(s, config, Known(C))
  /\ g.tpls = Expected(s).tpls \cup Installed(C)
  /\ g.code = Expected(s).code

\* Target b builds, from files that do not clash, and GenInv says what its last
\* generation was made of.
Build(b) == IsBuild(script[b]) /\ Unambiguous(script[b])
GenInv(b) ==
  gen[b].ran =>
    /\ Built(gen[b], glob[b], script[b], script[b][step[b] - 1].config)
    /\ step[b] > 1 /\ script[b][step[b] - 1].op = "generate"
    /\ pc[b] \in {"load", "gen", "killed", "failed", "done", "idle"}
    /\ pc[b] \in {"load", "gen"} => glob[b] = Inst(globalCache)

\* What is installed has no chunks: rtxLink_InstallItem fails with the first one.
NoChunks(C) == \A c \in Pointcuts : C.chunks[c] = << >>
GlobalInv == NoChunks(Inst(globalCache)) /\ \A b \in Targets : NoChunks(glob[b])

\* One target runs at a time.
Alone == Running = {} \/ \E b \in Targets : Running = {b}

\* The inductive invariant, next to IInv.
BuildsInv ==
  /\ Alone /\ GlobalInv /\ DOMAIN copied = Targets /\ DOMAIN gen = Targets
  /\ \A b \in Targets : Build(b) => GenInv(b) /\ (b \in Running => BuildInv(b))

-----------------------------------------------------------------------------
\* The items that a script registers.
LEMMA SourcesAs ==
  ASSUME NEW s, NEW x
  PROVE  x \in ScriptSources(s) <=>
           \E i \in 1..Len(s) : s[i].op = "register" /\ x \in Items(s[i].file)
  BY Zenon DEF ScriptSources, Items

\* An item is known by its file and its number.
LEMMA ItemFacts ==
  ASSUME NEW f, NEW x
  PROVE  x \in Items(f) <=> x[1] = f /\ x = <<x[1], x[2]>> /\ x[2] \in 1..Len(FileItems[f])
  BY DEF Items

\* Before, command by command.
LEMMA BeforeAs ==
  ASSUME NEW s \in Seq(Operation), NEW n \in Nat, n <= Len(s) + 1, NEW x
  PROVE  x \in Before(s, n) <=>
           \E i \in 1..(n - 1) : s[i].op = "register" /\ x \in Items(s[i].file)
<1> HIDE DEF Operation
<1>0. Len(s) \in Nat /\ \A i \in 1..(n - 1) : i \in 1..Len(s)
  OBVIOUS
<1>1. ASSUME x \in Before(s, n)
      PROVE  \E i \in 1..(n - 1) : s[i].op = "register" /\ x \in Items(s[i].file)
  <2>1. PICK i \in 1..(n - 1) : Registers(s, i, x[1])
    BY <1>1, Zenon DEF Before
  <2>2. PICK j \in 1..Len(s) : x \in Items(s[j].file)
    BY <1>1, SourcesAs, Zenon DEF Before
  <2>3. s[j].file = x[1]
    BY <2>2, ItemFacts, Zenon
  <2> QED  BY <2>1, <2>2, <2>3, Zenon DEF Registers
<1>2. ASSUME NEW i \in 1..(n - 1), s[i].op = "register", x \in Items(s[i].file)
      PROVE  x \in Before(s, n)
  <2>1. x \in ScriptSources(s)
    BY <1>0, <1>2, SourcesAs, Zenon
  <2>2. s[i].file = x[1]
    BY <1>2, ItemFacts, Zenon
  <2> QED  BY <1>2, <2>1, <2>2, Zenon DEF Before, Registers
<1> QED  BY <1>1, <1>2, Zenon

\* Nothing is registered before the first command.
LEMMA BeforeFirst ==
  ASSUME NEW s
  PROVE  Before(s, 1) = {}
<1>1. 1..(1 - 1) = {}
  OBVIOUS
<1> QED  BY <1>1, Zenon DEF Before

\* A command adds the items of its file, if it registers one.
LEMMA BeforeNext ==
  ASSUME NEW s \in Seq(Operation), NEW n \in Nat, 1 <= n, n <= Len(s)
  PROVE  /\ s[n].op = "register" => Before(s, n + 1) = Before(s, n) \cup Items(s[n].file)
         /\ s[n].op # "register" => Before(s, n + 1) = Before(s, n)
<1> HIDE DEF Operation
<1>0. /\ n + 1 \in Nat /\ n <= Len(s) + 1 /\ n + 1 <= Len(s) + 1
      /\ 1..((n + 1) - 1) = 1..(n - 1) \cup {n}
  OBVIOUS
<1>1. \A x : x \in Before(s, n) <=>
        \E i \in 1..(n - 1) : s[i].op = "register" /\ x \in Items(s[i].file)
  BY <1>0, BeforeAs
<1>2. \A x : x \in Before(s, n + 1) <=>
        \E i \in 1..((n + 1) - 1) : s[i].op = "register" /\ x \in Items(s[i].file)
  BY <1>0, BeforeAs
<1>3. \A x : x \in Before(s, n + 1) <=>
        x \in Before(s, n) \/ (s[n].op = "register" /\ x \in Items(s[n].file))
  BY <1>0, <1>1, <1>2, Zenon
<1> QED  BY <1>3, Zenon

\* Where nothing more is registered, all is.
LEMMA BeforeAll ==
  ASSUME NEW s \in Seq(Operation), NEW n \in Nat, 1 <= n, n <= Len(s) + 1,
         \A i \in n..Len(s) : s[i].op # "register"
  PROVE  Before(s, n) = ScriptSources(s)
<1> HIDE DEF Operation
<1>0. \A i \in 1..Len(s) : i \in 1..(n - 1) \/ i \in n..Len(s)
  OBVIOUS
<1>1. \A x \in ScriptSources(s) : x \in Before(s, n)
  <2> TAKE x \in ScriptSources(s)
  <2>1. PICK i \in 1..Len(s) : s[i].op = "register" /\ x \in Items(s[i].file)
    BY SourcesAs, Zenon
  <2>2. i \in 1..(n - 1)
    BY <1>0, <2>1, Zenon
  <2>3. s[i].file = x[1]
    BY <2>1, ItemFacts, Zenon
  <2> QED  BY <2>1, <2>2, <2>3, Zenon DEF Before, Registers
<1> QED  BY <1>1, Zenon DEF Before

\* The items before item x of the n-th command are those that are registered
\* earlier; if x is not among them, all of these are.
LEMMA EarlierAs ==
  ASSUME NEW s \in Seq(Operation), NEW n \in Nat, 1 <= n, n <= Len(s), s[n].op = "register",
         NEW x \in Items(s[n].file), NEW y
  PROVE  /\ y \in ScriptSources(s) /\ Earlier(s, y, x) =>
              y \in Before(s, n) \cup ItemsTo(s[n].file, x[2])
         /\ y \in Before(s, n) \cup ItemsTo(s[n].file, x[2]) /\ x \notin Before(s, n) =>
              Earlier(s, y, x)
<1> HIDE DEF Operation
<1>0. x[1] = s[n].file /\ Registers(s, n, x[1])
  BY ItemFacts, Zenon DEF Registers
<1>1. ASSUME y \in ScriptSources(s), Earlier(s, y, x)
      PROVE  y \in Before(s, n) \cup ItemsTo(s[n].file, x[2])
  <2>1. CASE y[1] = x[1]
    <3>1. y[2] < x[2]
      BY <1>1, <2>1, Zenon DEF Earlier
    <3>2. PICK i \in 1..Len(s) : y \in Items(s[i].file)
      BY <1>1, SourcesAs, Zenon
    <3>3. s[i].file = s[n].file
      BY <1>0, <2>1, <3>2, ItemFacts, Zenon
    <3>4. y \in Items(s[n].file)
      BY <3>2, <3>3, Zenon
    <3> QED  BY <3>1, <3>4, Zenon DEF ItemsTo
  <2>2. CASE y[1] # x[1]
    <3>1. PICK i \in 1..Len(s) : Registers(s, i, y[1]) /\ \A j \in 1..i : ~ Registers(s, j, x[1])
      BY <1>1, <2>2, Zenon DEF Earlier
    <3>2. n \notin 1..i
      BY <1>0, <3>1, Zenon
    <3>3. i \in 1..(n - 1)
      BY <3>2
    <3> QED  BY <1>1, <3>1, <3>3, Zenon DEF Before
  <2> QED  BY <2>1, <2>2, Zenon
<1>2. ASSUME y \in Before(s, n) \cup ItemsTo(s[n].file, x[2]), x \notin Before(s, n)
      PROVE  Earlier(s, y, x)
  <2>1. CASE y \in ItemsTo(s[n].file, x[2])
    <3>1. y[1] = x[1] /\ y[2] < x[2]
      BY <1>0, <2>1, ItemFacts, Zenon DEF ItemsTo
    <3> QED  BY <3>1, Zenon DEF Earlier
  <2>2. CASE y \in Before(s, n)
    <3>1. PICK i \in 1..(n - 1) : Registers(s, i, y[1])
      BY <2>2, Zenon DEF Before
    <3>2. /\ i \in 1..Len(s) /\ n <= Len(s) + 1
          /\ \A j \in 1..i : j \in 1..(n - 1)
      OBVIOUS
    <3>3. \A j \in 1..i : ~ Registers(s, j, x[1])
      <4> SUFFICES ASSUME NEW j \in 1..i, Registers(s, j, x[1]) PROVE FALSE
        BY Zenon
      <4>1. s[j].op = "register" /\ x \in Items(s[j].file)
        BY <1>0, Zenon DEF Registers
      <4>2. x \in Before(s, n)
        BY <3>2, <4>1, BeforeAs
      <4> QED  BY <1>2, <4>2, Zenon
    <3>4. y[1] # x[1]
      <4>1. Registers(s, i, y[1]) /\ i \in 1..i
        BY <3>1
      <4> QED  BY <3>3, <4>1, Zenon
    <3> QED  BY <3>1, <3>2, <3>3, <3>4, Zenon DEF Earlier
  <2> QED  BY <1>2, <2>1, <2>2, Zenon
<1> QED  BY <1>1, <1>2, Zenon
-----------------------------------------------------------------------------
(***************************************************************************)
(* The entries of the lists of a cache.                                    *)
(***************************************************************************)
\* The empty list has no entry.
LEMMA EntriesEmpty == Entries(<< >>) = {}
  BY DEF Entries

\* Concat has the entries of both lists.
LEMMA EntriesConcat ==
  ASSUME NEW T, NEW s \in Seq(T), NEW u \in Seq(T)
  PROVE  Entries(s \o u) = Entries(s) \cup Entries(u)
<1> DEFINE w == s \o u
<1>1. Concat(s, u, w)
  BY ConcatFacts, Zenon
<1> HIDE DEF w
<1>2. ASSUME NEW i \in 1..Len(w) PROVE w[i] \in Entries(s) \cup Entries(u)
  <2>1. CASE i \in 1..Len(s)
    BY <1>1, <2>1, Zenon DEF Concat, Entries
  <2>2. CASE i \notin 1..Len(s)
    <3>1. i > Len(s)
      BY <1>1, <2>2 DEF Concat
    <3> QED  BY <1>1, <3>1, Zenon DEF Concat, Entries
  <2> QED  BY <2>1, <2>2, Zenon
<1>3. ASSUME NEW i \in 1..Len(s) PROVE s[i] \in Entries(w)
  <2>1. i \in 1..Len(w) /\ w[i] = s[i]
    BY <1>1 DEF Concat
  <2> QED  BY <2>1, Zenon DEF Entries
<1>4. ASSUME NEW j \in 1..Len(u) PROVE u[j] \in Entries(w)
  <2>1. PICK i \in Nat : i = Len(s) + j
    BY <1>1 DEF Concat
  <2>2. i \in 1..Len(w) /\ i > Len(s) /\ i - Len(s) = j
    BY <1>1, <2>1 DEF Concat
  <2>3. w[i] = u[j]
    BY <1>1, <2>2, Zenon DEF Concat
  <2> QED  BY <2>2, <2>3, Zenon DEF Entries
<1>5. Entries(w) = Entries(s) \cup Entries(u)
  BY <1>2, <1>3, <1>4, Zenon DEF Entries
<1> QED  BY <1>5, Zenon DEF w

\* List w is list s with x at its end.
OneMore(s, w, x) ==
  /\ Len(s) \in Nat /\ Len(w) = Len(s) + 1
  /\ \A i \in 1..Len(s) : w[i] = s[i]
  /\ w[Len(s) + 1] = x

\* What such a list gains.
LEMMA EntriesGrow ==
  ASSUME NEW s, NEW w, NEW x, OneMore(s, w, x)
  PROVE  Entries(w) = Entries(s) \cup {x}
<1>0. /\ Len(s) \in Nat /\ Len(w) = Len(s) + 1
      /\ \A i \in 1..Len(s) : w[i] = s[i]
      /\ w[Len(s) + 1] = x
  BY Zenon DEF OneMore
<1>1. /\ \A i \in 1..Len(w) : i \in 1..Len(s) \/ i = Len(s) + 1
      /\ \A i \in 1..Len(s) : i \in 1..Len(w)
      /\ Len(s) + 1 \in 1..Len(w)
  BY <1>0
<1>2. \A i \in 1..Len(w) : w[i] \in Entries(s) \cup {x}
  BY <1>0, <1>1, Zenon DEF Entries
<1>3. x \in Entries(w)
  BY <1>0, <1>1, Zenon DEF Entries
<1>4. \A i \in 1..Len(s) : s[i] \in Entries(w)
  BY <1>0, <1>1, Zenon DEF Entries
<1> QED  BY <1>2, <1>3, <1>4, Zenon DEF Entries

\* Cache d has the entries of cache, and in addition template u of prototype p with
\* the chunks new.
Grows(cache, d, p, u, S, new) ==
  /\ d.globs = cache.globs /\ d.itfs = cache.itfs
  /\ Entries(d.tpls[p]) = Entries(cache.tpls[p]) \cup {u}
  /\ \A q \in Protos \ {p} : Entries(d.tpls[q]) = Entries(cache.tpls[q])
  /\ \A c \in S : Entries(d.chunks[c]) = Entries(cache.chunks[c]) \cup {new[c]}
  /\ \A c \in Pointcuts \ S : Entries(d.chunks[c]) = Entries(cache.chunks[c])

\* The chunks that go along with a template, and the pointcuts it has chunks for.
NewChunks(new, S) == S \in SUBSET Pointcuts /\ new \in [S -> Chunk]
Ids(t) == {c \in Pointcuts : t.ids[c] # 0}

\* Cache d has, in addition to the entries of cache, template t with new places for
\* its chunks, which are new.
AddsTo(cache, d, p, t, S, new) ==
  \E u : /\ Grows(cache, d, p, u, S, new)
         /\ u.src = t.src /\ u.with = t.with
         /\ \A c \in Pointcuts : u.ids[c] # 0 <=> c \in S

\* What AddTemplate, shared by registration and merge, adds to the entries.
LEMMA AddTemplateEntries ==
  ASSUME NEW cache \in Cache, NEW p \in Protos, NEW t \in Template,
         NEW S, NEW new, NewChunks(new, S),
         NEW d, d = AddTemplate(cache, p, t, new)
  PROVE  AddsTo(cache, d, p, t, S, new)
<1> DEFINE u == Added(cache, t, new)
<1>0. S \in SUBSET Pointcuts /\ new \in [S -> Chunk]
  BY Zenon DEF NewChunks
<1>1. TplsGrow(cache, d, p, u) /\ ChunksGrow(cache, d, S, new)
  BY <1>0, AddTemplateTpls, AddTemplateChunks, Zenon
<1>2. d.globs = cache.globs /\ d.itfs = cache.itfs
  BY Zenon DEF AddTemplate, Cache
<1>3. /\ u.src = t.src /\ u.with = t.with
      /\ \A c \in Pointcuts : u.ids[c] = IF c \in S THEN Len(cache.chunks[c]) + 1 ELSE 0
  BY <1>0, Zenon DEF Added, Template
<1>4. \A c \in Pointcuts : u.ids[c] # 0 <=> c \in S
  <2> HIDE DEF u
  <2>1. \A c \in Pointcuts : Len(cache.chunks[c]) \in Nat
    BY <1>1, Zenon DEF ChunksGrow
  <2> QED  BY <1>3, <2>1
<1> HIDE DEF u
<1>5. Entries(d.tpls[p]) = Entries(cache.tpls[p]) \cup {u}
  <2>1. OneMore(cache.tpls[p], d.tpls[p], u)
    BY <1>1, Zenon DEF TplsGrow, OneMore
  <2> QED  BY <2>1, EntriesGrow, Zenon
<1>6. \A q \in Protos \ {p} : Entries(d.tpls[q]) = Entries(cache.tpls[q])
  BY <1>1, Zenon DEF TplsGrow
<1>7. ASSUME NEW c \in S PROVE Entries(d.chunks[c]) = Entries(cache.chunks[c]) \cup {new[c]}
  <2>1. OneMore(cache.chunks[c], d.chunks[c], new[c])
    BY <1>0, <1>1, Zenon DEF ChunksGrow, OneMore
  <2> QED  BY <2>1, EntriesGrow, Zenon
<1>8. ASSUME NEW c \in Pointcuts \ S PROVE Entries(d.chunks[c]) = Entries(cache.chunks[c])
  <2>1. /\ Len(d.chunks[c]) = Len(cache.chunks[c])
        /\ \A i \in 1..Len(cache.chunks[c]) : d.chunks[c][i] = cache.chunks[c][i]
    BY <1>1, Zenon DEF ChunksGrow
  <2> QED  BY <2>1, Zenon DEF Entries
<1>9. Grows(cache, d, p, u, S, new)
  BY <1>2, <1>5, <1>6, <1>7, <1>8, Zenon DEF Grows
<1> QED  BY <1>3, <1>4, <1>9, Zenon DEF AddsTo
-----------------------------------------------------------------------------
(***************************************************************************)
(* Registration.                                                           *)
(***************************************************************************)
\* The items up to a place in a file.
LEMMA ItemsToFacts ==
  ASSUME NEW f, NEW n \in Nat, Len(FileItems[f]) \in Nat
  PROVE  /\ ItemsTo(f, 1) = {} /\ ItemsTo(f, n) \subseteq Items(f)
         /\ n = Len(FileItems[f]) + 1 => ItemsTo(f, n) = Items(f)
         /\ 1 <= n /\ n <= Len(FileItems[f]) =>
              <<f, n>> \in Items(f) /\ ItemsTo(f, n + 1) = ItemsTo(f, n) \cup {<<f, n>>}
<1>1. \A x \in Items(f) : x = <<f, x[2]>> /\ x[2] \in 1..Len(FileItems[f])
  BY ItemFacts, Zenon
<1>2. ItemsTo(f, 1) = {}
  BY <1>1 DEF ItemsTo
<1>3. ASSUME n = Len(FileItems[f]) + 1 PROVE ItemsTo(f, n) = Items(f)
  BY <1>1, <1>3 DEF ItemsTo
<1>4. ASSUME 1 <= n, n <= Len(FileItems[f])
      PROVE  <<f, n>> \in Items(f) /\ ItemsTo(f, n + 1) = ItemsTo(f, n) \cup {<<f, n>>}
  <2>1. <<f, n>> \in Items(f)
    BY <1>4 DEF Items
  <2>2. ASSUME NEW x \in Items(f)
        PROVE  x[2] < n + 1 <=> x[2] < n \/ x = <<f, n>>
    <3>1. x[2] \in Nat /\ x = <<f, x[2]>>
      BY <1>1
    <3> QED  BY <3>1
  <2> QED  BY <2>1, <2>2, Zenon DEF ItemsTo
<1> QED  BY <1>2, <1>3, <1>4, Zenon DEF ItemsTo

\* What comes from the items of X comes from those of a larger set.
LEMMA FromLarger ==
  ASSUME NEW X, NEW Y, X \subseteq Y, NEW C, NEW G, NEW s, NEW K
  PROVE  /\ TablesFrom(C, X) => TablesFrom(C, Y)
         /\ GlobsFrom(G, X, s, K) => GlobsFrom(G, Y, s, K)
<1>1. TablesFrom(C, X) => TablesFrom(C, Y)
  BY Zenon DEF TablesFrom, TplFrom, ChunkFrom
<1>2. GlobsFrom(G, X, s, K) => GlobsFrom(G, Y, s, K)
  BY Zenon DEF GlobsFrom, GlobFrom
<1> QED  BY <1>1, <1>2, Zenon

\* A template and its chunks that come from X keep the tables from X.
LEMMA GrowTables ==
  ASSUME NEW C, NEW d, NEW p \in Protos, NEW u, NEW S \in SUBSET Pointcuts, NEW new, NEW X,
         Grows(C, d, p, u, S, new), TablesFrom(C, X), TplFrom(u, p, X),
         \A c \in S : ChunkFrom(new[c], c, X)
  PROVE  TablesFrom(d, X)
<1>1. ASSUME NEW q \in Protos, NEW t \in Entries(d.tpls[q]) PROVE TplFrom(t, q, X)
  <2>1. t \in Entries(C.tpls[q]) \/ (q = p /\ t = u)
    BY <1>1, Zenon DEF Grows
  <2> QED  BY <2>1, Zenon DEF TablesFrom
<1>2. ASSUME NEW c \in Pointcuts, NEW k \in Entries(d.chunks[c]) PROVE ChunkFrom(k, c, X)
  <2>1. k \in Entries(C.chunks[c]) \/ (c \in S /\ k = new[c])
    BY <1>2, Zenon DEF Grows
  <2> QED  BY <2>1, Zenon DEF TablesFrom
<1> QED  BY <1>1, <1>2, Zenon DEF TablesFrom

\* A cache that grows keeps its templates and has the one that is added.
LEMMA GrowHasTpl ==
  ASSUME NEW C, NEW d, NEW p \in Protos, NEW u, NEW S \in SUBSET Pointcuts, NEW new, NEW x,
         Grows(C, d, p, u, S, new), ItemAt(x).proto \in Protos
  PROVE  /\ HasTpl(C, x) => HasTpl(d, x)
         /\ u.src = x /\ ItemAt(x).proto = p => HasTpl(d, x)
<1>1. ItemAt(x).proto = p => Entries(d.tpls[ItemAt(x).proto]) = Entries(C.tpls[ItemAt(x).proto]) \cup {u}
  BY Zenon DEF Grows
<1>2. ItemAt(x).proto # p => Entries(d.tpls[ItemAt(x).proto]) = Entries(C.tpls[ItemAt(x).proto])
  BY Zenon DEF Grows
<1> QED  BY <1>1, <1>2, Zenon DEF HasTpl

\* An item that is a template has a prototype, and pointcuts for its chunks.
LEMMA ItemTypes ==
  ASSUME NEW f \in SourceFiles, NEW x \in Items(f)
  PROVE  /\ ItemAt(x) \in Item /\ ItemAt(x).kind \in {"glob", "tpl"}
         /\ ItemAt(x).kind = "tpl" =>
              ItemAt(x).proto \in Protos /\ ItemAt(x).pcs \in SUBSET Pointcuts
<1>1. FileItems[f] \in Seq(Item)
  BY ItemsAssumption, Zenon
<1>2. x[1] = f /\ x[2] \in 1..Len(FileItems[f])
  BY ItemFacts, Zenon
<1>3. ItemAt(x) \in Item
  <2> HIDE DEF Item
  <2> QED  BY <1>1, <1>2 DEF ItemAt
<1> QED  BY <1>3, Zenon DEF Item

\* A template goes into the differential cache with its chunks.
LEMMA RegisterTplTemp ==
  ASSUME NEW T, NEW d, NEW C, NEW X, NEW Y, NEW s, NEW K, NEW x,
         NEW p \in Protos, NEW u, NEW S \in SUBSET Pointcuts, NEW new,
         TempInv(T, C, X, Y, s, K), Grows(T, d, p, u, S, new),
         ItemAt(x).kind = "tpl", ItemAt(x).proto = p, u.src = x, TplFrom(u, p, Y \cup {x}),
         \A c \in S : ChunkFrom(new[c], c, Y \cup {x}),
         \A y \in Y : ItemAt(y).kind = "tpl" => ItemAt(y).proto \in Protos
  PROVE  TempInv(d, C, X, Y \cup {x}, s, K)
<1>0. "tpl" # "glob" /\ Y \subseteq Y \cup {x}
  BY Zenon
<1>1. d.globs = T.globs
  BY Zenon DEF Grows
<1>2. TablesFrom(d, Y \cup {x})
  <2>1. TablesFrom(T, Y \cup {x})
    BY <1>0, FromLarger, Zenon DEF TempInv
  <2> QED  BY <2>1, GrowTables, Zenon
<1>3. AllTpls(d, Y \cup {x})
  BY GrowHasTpl, Zenon DEF TempInv, AllTpls
<1>4. GlobsFrom(Entries(T.globs), Y \cup {x}, s, K)
  BY <1>0, FromLarger, Zenon DEF TempInv
<1>5. AllGlobs(Entries(C.globs) \cup Entries(T.globs), X \cup (Y \cup {x}), s, K)
  BY <1>0, Zenon DEF TempInv, AllGlobs
<1> QED  BY <1>1, <1>2, <1>3, <1>4, <1>5, Zenon DEF TempInv

\* Global code is dropped when some block of its interface is known: one that is
\* installed, or one that comes earlier.
LEMMA RegisterGlobDropped ==
  ASSUME NEW s \in Seq(Operation), NEW n \in Nat, 1 <= n, n <= Len(s), s[n].op = "register",
         NEW x \in Items(s[n].file), ItemAt(x).kind = "glob", NEW T, NEW C, NEW K, NEW X, NEW Y,
         X = Before(s, n), Y = ItemsTo(s[n].file, x[2]),
         GlobsFrom(Entries(C.globs), X, s, K), TempInv(T, C, X, Y, s, K),
         \/ ItemAt(x).itf \in K
         \/ \E g \in Entries(C.globs) \cup Entries(T.globs) : g.itf = ItemAt(x).itf
  PROVE  TempInv(T, C, X, Y \cup {x}, s, K)
<1> DEFINE G == Entries(C.globs) \cup Entries(T.globs)
<1> HIDE DEF Operation
<1>0. "tpl" # "glob" /\ Y \subseteq Y \cup {x}
  BY Zenon
<1>1. AllGlobs(G, X \cup Y, s, K)
  BY Zenon DEF TempInv
<1>2. ASSUME ItemAt(x).itf \notin K
      PROVE  /\ \E g \in G : g.itf = ItemAt(x).itf
             /\ First(s, x) => \E g \in G : g.src = x
  <2>1. PICK g \in G : g.itf = ItemAt(x).itf
    BY <1>2, Zenon
  <2>2. CASE x \in X
    BY <1>1, <1>2, <2>1, <2>2, Zenon DEF AllGlobs
  <2>3. CASE x \notin X
    <3>1. g.src \in X \cup Y /\ ItemAt(g.src).kind = "glob" /\ ItemAt(g.src).itf = g.itf
      BY Zenon DEF TempInv, GlobsFrom, GlobFrom
    <3>2. Earlier(s, g.src, x)
      BY <2>3, <3>1, EarlierAs
    <3>3. g.src \in ScriptGlobs(s)
      <4>1. Items(s[n].file) \subseteq ScriptSources(s)
        <5>1. n \in 1..Len(s)
          OBVIOUS
        <5> QED  BY <5>1, SourcesAs, Zenon
      <4>2. g.src \in ScriptSources(s)
        BY <3>1, <4>1, Zenon DEF Before, ItemsTo
      <4> QED  BY <3>1, <4>2, Zenon DEF ScriptGlobs, ItemAt
    <3>4. ~ First(s, x)
      BY <2>1, <3>1, <3>2, <3>3, Zenon DEF First
    <3> QED  BY <2>1, <3>4, Zenon
  <2> QED  BY <2>2, <2>3, Zenon
<1>3. AllGlobs(G, X \cup (Y \cup {x}), s, K)
  <2> HIDE DEF G
  <2> QED  BY <1>1, <1>2, Zenon DEF AllGlobs
<1>4. TablesFrom(T, Y \cup {x}) /\ GlobsFrom(Entries(T.globs), Y \cup {x}, s, K)
  BY <1>0, FromLarger, Zenon DEF TempInv
<1>5. AllTpls(T, Y \cup {x})
  BY <1>0, Zenon DEF TempInv, AllTpls
<1> QED  BY <1>3, <1>4, <1>5, Zenon DEF TempInv

\* Otherwise it is the first of its interface and goes into the differential cache.
LEMMA RegisterGlobKept ==
  ASSUME NEW s \in Seq(Operation), NEW n \in Nat, 1 <= n, n <= Len(s), s[n].op = "register",
         NEW x \in Items(s[n].file), ItemAt(x).kind = "glob", NEW T, NEW C, NEW K, NEW X, NEW Y,
         X = Before(s, n), Y = ItemsTo(s[n].file, x[2]), TempInv(T, C, X, Y, s, K),
         ItemAt(x).itf \notin K,
         \A g \in Entries(C.globs) \cup Entries(T.globs) : g.itf # ItemAt(x).itf,
         NEW d, d.tpls = T.tpls, d.chunks = T.chunks, NEW e,
         e.itf = ItemAt(x).itf, e.with = ItemAt(x).with, e.src = x, e.idx = Len(T.globs),
         Len(T.globs) \in Nat, Len(d.globs) = Len(T.globs) + 1,
         \A i \in 1..Len(T.globs) : d.globs[i] = T.globs[i], d.globs[Len(T.globs) + 1] = e
  PROVE  TempInv(d, C, X, Y \cup {x}, s, K)
<1> DEFINE G == Entries(C.globs) \cup Entries(T.globs)
<1> HIDE DEF Operation
<1>0. "tpl" # "glob" /\ Y \subseteq Y \cup {x}
  BY Zenon
<1>1. Entries(d.globs) = Entries(T.globs) \cup {e}
  <2>1. OneMore(T.globs, d.globs, e)
    BY Zenon DEF OneMore
  <2> QED  BY <2>1, EntriesGrow
<1>2. AllGlobs(G, X \cup Y, s, K)
  BY Zenon DEF TempInv
<1>3. First(s, x)
  <2> SUFFICES ASSUME NEW y \in ScriptGlobs(s), ItemAt(y).itf = ItemAt(x).itf, Earlier(s, y, x)
               PROVE  FALSE
    BY Zenon DEF First
  <2>1. y \in ScriptSources(s) /\ ItemAt(y).kind = "glob"
    BY Zenon DEF ScriptGlobs, ItemAt
  <2>2. y \in X \cup Y
    BY <2>1, EarlierAs
  <2>3. \E g \in G : g.itf = ItemAt(x).itf
    <3> HIDE DEF G
    <3>1. ItemAt(y).itf \notin K
      BY Zenon
    <3>2. \E g \in G : g.itf = ItemAt(y).itf
      BY <1>2, <2>1, <2>2, <3>1, Zenon DEF AllGlobs
    <3> QED  BY <3>2, Zenon
  <2> QED  BY <2>3, Zenon
<1>4. GlobFrom(e, Y \cup {x}, s, K)
  BY <1>3, Zenon DEF GlobFrom
<1>5. GlobsFrom(Entries(d.globs), Y \cup {x}, s, K)
  <2>0. GlobsFrom(Entries(T.globs), Y, s, K)
    BY Zenon DEF TempInv
  <2>1. GlobsFrom(Entries(T.globs), Y \cup {x}, s, K)
    BY <2>0, Zenon DEF GlobsFrom, GlobFrom
  <2> QED  BY <1>1, <1>4, <2>1, Zenon DEF GlobsFrom
<1>6. AllGlobs(G \cup {e}, X \cup (Y \cup {x}), s, K)
  <2> HIDE DEF G
  <2> SUFFICES ASSUME NEW y \in X \cup (Y \cup {x}), ItemAt(y).kind = "glob", ItemAt(y).itf \notin K
               PROVE  /\ \E g \in G \cup {e} : g.itf = ItemAt(y).itf
                      /\ First(s, y) => \E g \in G \cup {e} : g.src = y
    BY Zenon DEF AllGlobs
  <2>1. CASE y \in X \cup Y
    <3>1. /\ \E g \in G : g.itf = ItemAt(y).itf
          /\ First(s, y) => \E g \in G : g.src = y
      BY <1>2, <2>1, Zenon DEF AllGlobs
    <3> QED  BY <3>1, Zenon
  <2>2. CASE y = x
    BY <2>2, Zenon
  <2> QED  BY <2>1, <2>2, Zenon
<1>7. G \cup {e} = Entries(C.globs) \cup Entries(d.globs)
  BY <1>1, Zenon
<1>8. TablesFrom(d, Y \cup {x})
  <2>1. TablesFrom(T, Y \cup {x})
    BY <1>0, FromLarger, Zenon DEF TempInv
  <2> QED  BY <2>1, Zenon DEF TablesFrom
<1>9. AllTpls(d, Y \cup {x})
  BY <1>0, Zenon DEF TempInv, AllTpls, HasTpl
<1>10. \A i \in 1..Len(d.globs) : d.globs[i].idx + 1 = i
  <2>1. \A i \in 1..Len(T.globs) : T.globs[i].idx + 1 = i
    BY Zenon DEF TempInv
  <2>2. \A i \in 1..Len(d.globs) : i \in 1..Len(T.globs) \/ i = Len(T.globs) + 1
    OBVIOUS
  <2> QED  BY <2>1, <2>2, Zenon
<1>11. \A g \in Entries(d.globs) : \A h \in Entries(C.globs) : g.itf # h.itf
  BY <1>1, Zenon DEF TempInv
<1> QED  BY <1>5, <1>6, <1>7, <1>8, <1>9, <1>10, <1>11, Zenon DEF TempInv
-----------------------------------------------------------------------------
(***************************************************************************)
(* The copies to the local library: the names of the entries of a build do *)
(* not clash, so that a copy overwrites no text that is still in use.      *)
(***************************************************************************)
\* Files of interfaces, global code and chunks have different names.
LEMMA NamesDiffer ==
  ASSUME NEW i, NEW g, NEW c, NEW k
  PROVE  /\ ItfName(i) # GlobName(g) /\ ItfName(i) # ChunkName(c, k)
         /\ GlobName(g) # ChunkName(c, k)
<1>1. ItfName(i)[1] = "itf" /\ GlobName(g)[1] = "glob" /\ ChunkName(c, k)[1] = "chunk"
  BY DEF ItfName, GlobName, ChunkName
<1> QED  BY <1>1, Zenon

\* Two chunks of a build that have one name come from one template.
LEMMA ChunkNames ==
  ASSUME NEW s, Unambiguous(s), NEW X, X \subseteq ScriptSources(s), NEW c, NEW k, NEW e, NEW h,
         ChunkFrom(k, c, X), ChunkFrom(h, e, X), ChunkName(c, k) = ChunkName(e, h)
  PROVE  k.src = h.src
<1>1. k.proto = h.proto /\ c = e
  BY DEF ChunkName
<1>2. k.src \in ScriptTpls(s) /\ h.src \in ScriptTpls(s)
  BY Zenon DEF ChunkFrom, ScriptTpls, ItemAt
<1>3. /\ ItemAt(k.src).proto = ItemAt(h.src).proto
      /\ c \in ItemAt(k.src).pcs \cap ItemAt(h.src).pcs
  BY <1>1, Zenon DEF ChunkFrom
<1> QED  BY <1>2, <1>3, Zenon DEF Unambiguous, ItemAt

\* Two pieces of global code of a build that have one name are the same one.
LEMMA GlobNames ==
  ASSUME NEW s, NEW n \in Nat, Unambiguous(s), NEW f, Items(f) \subseteq ScriptSources(s),
         NEW X, X = Before(s, n), NEW C, NEW T, NEW K, NEW l, NEW Y, Y \subseteq Items(f),
         Full(C, X, s, K, l), TempInv(T, C, X, Y, s, K),
         NEW g \in Entries(T.globs), NEW h \in Entries(C.globs) \cup Entries(T.globs),
         GlobName(g) = GlobName(h)
  PROVE  g.src = h.src
<1>0. g.idx = h.idx /\ g.with = h.with
  BY DEF GlobName
<1>1. GlobFrom(g, Y, s, K)
  BY Zenon DEF TempInv, GlobsFrom
<1>2. CASE h \in Entries(T.globs)
  <2>1. PICK i \in 1..Len(T.globs) : g = T.globs[i]
    BY Zenon DEF Entries
  <2>2. PICK j \in 1..Len(T.globs) : h = T.globs[j]
    BY <1>2, Zenon DEF Entries
  <2>3. g.idx + 1 = i /\ h.idx + 1 = j
    BY <2>1, <2>2, Zenon DEF TempInv
  <2>4. i = j
    BY <1>0, <2>3, Zenon
  <2> QED  BY <2>1, <2>2, <2>4, Zenon
<1>3. CASE h \in Entries(C.globs)
  <2>1. GlobFrom(h, X, s, K)
    BY <1>3, Zenon DEF Full, GlobsFrom
  <2>2. g.src \in Items(f) /\ g.src \in ScriptGlobs(s) /\ h.src \in ScriptGlobs(s)
    BY <1>1, <2>1, Zenon DEF GlobFrom, ScriptGlobs, Before, ItemAt
  <2>3. g.src[1] = h.src[1]
    BY <1>0, <1>1, <2>1, <2>2, Zenon DEF Unambiguous, GlobFrom, ItemAt
  <2>4. g.src \in X
    BY <2>1, <2>2, <2>3, Zenon DEF Before, GlobFrom, ScriptGlobs
  <2>5. PICK o \in Entries(C.globs) : o.src = g.src
    BY <1>1, <2>4, Zenon DEF Full, AllGlobs, GlobFrom
  <2>6. o.itf = g.itf
    BY <1>1, <2>5, Zenon DEF Full, GlobsFrom, GlobFrom
  <2> QED  BY <2>6, Zenon DEF TempInv
<1> QED  BY <1>2, <1>3, Zenon

\* What an entry of Diff is called and where its text comes from.
OfItf(e, T, f) == \E i \in T.itfs : e[1] = ItfName(i) /\ e[2] = <<f, 0>>
OfGlob(e, T) == \E g \in Entries(T.globs) : e[1] = GlobName(g) /\ e[2] = g.src
OfChunk(e, T) ==
  \E c \in Pointcuts : \E k \in Entries(T.chunks[c]) : e[1] = ChunkName(c, k) /\ e[2] = k.src

\* An entry of the differential cache, by its kind.
LEMMA OfDiff ==
  ASSUME NEW T, NEW f, NEW e \in Diff(T, f)
  PROVE  OfItf(e, T, f) \/ OfGlob(e, T) \/ OfChunk(e, T)
<1>1. CASE e \in {<<ItfName(i), <<f, 0>>>> : i \in T.itfs}
  <2>1. PICK i \in T.itfs : e = <<ItfName(i), <<f, 0>>>>
    BY <1>1, Zenon
  <2>2. e[1] = ItfName(i) /\ e[2] = <<f, 0>>
    BY <2>1
  <2> QED  BY <2>2, Zenon DEF OfItf
<1>2. CASE e \in {<<GlobName(g), g.src>> : g \in Entries(T.globs)}
  <2>1. PICK g \in Entries(T.globs) : e = <<GlobName(g), g.src>>
    BY <1>2, Zenon
  <2>2. e[1] = GlobName(g) /\ e[2] = g.src
    BY <2>1
  <2> QED  BY <2>2, Zenon DEF OfGlob
<1>3. CASE \E c \in Pointcuts : e \in {<<ChunkName(c, k), k.src>> : k \in Entries(T.chunks[c])}
  <2>1. PICK c \in Pointcuts : e \in {<<ChunkName(c, k), k.src>> : k \in Entries(T.chunks[c])}
    BY <1>3, Zenon
  <2>2. PICK k \in Entries(T.chunks[c]) : e = <<ChunkName(c, k), k.src>>
    BY <2>1, Zenon
  <2>3. e[1] = ChunkName(c, k) /\ e[2] = k.src
    BY <2>2
  <2> QED  BY <2>3, Zenon DEF OfChunk
<1> QED  BY <1>1, <1>2, <1>3 DEF Diff

\* Two files of a build that have one name have one text.
LEMMA DiffNames ==
  ASSUME NEW s, NEW n \in Nat, Unambiguous(s), NEW f, Items(f) \subseteq ScriptSources(s),
         NEW X, X = Before(s, n), NEW C, NEW T, NEW K, NEW l, NEW Y, Y \subseteq Items(f),
         Full(C, X, s, K, l), TempInv(T, C, X, Y, s, K), NEW e \in Diff(T, f), NEW o,
         OfItf(o, T, f) \/ OfGlob(o, T) \/ OfChunk(o, T) \/ OfGlob(o, C) \/ OfChunk(o, C),
         e[1] = o[1]
  PROVE  e[2] = o[2]
<1>0. TablesFrom(C, X \cup Y) /\ TablesFrom(T, X \cup Y) /\ X \cup Y \subseteq ScriptSources(s)
  <2>1. X \subseteq X \cup Y /\ Y \subseteq X \cup Y
    BY Zenon
  <2>2. TablesFrom(C, X) /\ TablesFrom(T, Y)
    BY Zenon DEF Full, TempInv
  <2>3. X \subseteq ScriptSources(s)
    BY Zenon DEF Before
  <2> QED  BY <2>1, <2>2, <2>3, FromLarger, Zenon
<1>1. CASE OfItf(e, T, f)
  <2>1. ~ OfGlob(o, T) /\ ~ OfChunk(o, T) /\ ~ OfGlob(o, C) /\ ~ OfChunk(o, C)
    BY <1>1, NamesDiffer, Zenon DEF OfItf, OfGlob, OfChunk
  <2> QED  BY <1>1, <2>1, Zenon DEF OfItf
<1>2. CASE OfGlob(e, T)
  <2>1. PICK g \in Entries(T.globs) : e[1] = GlobName(g) /\ e[2] = g.src
    BY <1>2, Zenon DEF OfGlob
  <2>2. ~ OfItf(o, T, f) /\ ~ OfChunk(o, T) /\ ~ OfChunk(o, C)
    BY <2>1, NamesDiffer, Zenon DEF OfItf, OfChunk
  <2>3. PICK h \in Entries(C.globs) \cup Entries(T.globs) : o[1] = GlobName(h) /\ o[2] = h.src
    BY <2>2, Zenon DEF OfGlob
  <2>4. GlobName(g) = GlobName(h)
    BY <2>1, <2>3, Zenon
  <2>5. g.src = h.src
    BY <2>4, GlobNames
  <2> QED  BY <2>1, <2>3, <2>5, Zenon
<1>3. CASE OfChunk(e, T)
  <2>1. PICK c \in Pointcuts : \E k \in Entries(T.chunks[c]) : e[1] = ChunkName(c, k) /\ e[2] = k.src
    BY <1>3, Zenon DEF OfChunk
  <2>2. PICK k \in Entries(T.chunks[c]) : e[1] = ChunkName(c, k) /\ e[2] = k.src
    BY <2>1, Zenon
  <2>3. ~ OfItf(o, T, f) /\ ~ OfGlob(o, T) /\ ~ OfGlob(o, C)
    BY <2>2, NamesDiffer, Zenon DEF OfItf, OfGlob
  <2>4. PICK d \in Pointcuts : \E h \in Entries(T.chunks[d]) \cup Entries(C.chunks[d]) :
          o[1] = ChunkName(d, h) /\ o[2] = h.src
    BY <2>3, Zenon DEF OfChunk
  <2>5. PICK h \in Entries(T.chunks[d]) \cup Entries(C.chunks[d]) :
          o[1] = ChunkName(d, h) /\ o[2] = h.src
    BY <2>4, Zenon
  <2>6. ChunkFrom(k, c, X \cup Y) /\ ChunkFrom(h, d, X \cup Y)
    BY <1>0, Zenon DEF TablesFrom
  <2>7. ChunkName(c, k) = ChunkName(d, h)
    BY <2>2, <2>5, Zenon
  <2>8. k.src = h.src
    BY <1>0, <2>6, <2>7, ChunkNames
  <2> QED  BY <2>2, <2>5, <2>8, Zenon
<1> QED  BY <1>1, <1>2, <1>3, OfDiff, Zenon

\* What a copy leaves in the library.
LEMMA LibStep ==
  ASSUME NEW l, NEW e
  PROVE  /\ InLib(WithFiles(l, e), e[1], e[2])
         /\ \A z, w : InLib(l, z, w) /\ (e[1] = z => e[2] = w) => InLib(WithFiles(l, e), z, w)
<1> DEFINE m == WithFiles(l, e)
           new == {<<e[1], "tree">>} \cup (IF e[1][1] = "itf" THEN {} ELSE {<<e[1], "cws">>})
<1>1. /\ DOMAIN m = DOMAIN l \cup new
      /\ \A z \in new : m[z] = e[2]
      /\ \A z \in DOMAIN l : z \notin new => m[z] = l[z]
  BY Zenon DEF WithFiles
<1>2. \A z : <<z, "tree">> # <<e[1], "cws">> /\ (<<z, "tree">> = <<e[1], "tree">> => z = e[1])
  OBVIOUS
<1>3. \A z : <<z, "tree">> \in new => z = e[1]
  BY <1>2, Zenon
<1>4. <<e[1], "tree">> \in new
  BY Zenon
<1> HIDE DEF m, new
<1>5. InLib(m, e[1], e[2])
  BY <1>1, <1>4, Zenon DEF InLib
<1>6. \A z, w : InLib(l, z, w) /\ (e[1] = z => e[2] = w) => InLib(m, z, w)
  BY <1>1, <1>3, Zenon DEF InLib
<1> QED  BY <1>5, <1>6, Zenon DEF m

\* Copying the files of an entry leaves the text of all others of the build.
LEMMA ValidateStep ==
  ASSUME NEW s, NEW n \in Nat, Unambiguous(s), NEW f, Items(f) \subseteq ScriptSources(s),
         NEW X, X = Before(s, n), NEW C, NEW T, NEW K, NEW l, NEW i, NEW cp,
         Registration(T, C, X, f, i, cp, s, K, l), NEW e \in Diff(T, f),
         NEW m, m = WithFiles(l, e)
  PROVE  Registration(T, C, X, f, i, cp \cup {e}, s, K, m)
<1> DEFINE Y == ItemsTo(f, i)
<1>0. Y \subseteq Items(f) /\ Full(C, X, s, K, l) /\ TempInv(T, C, X, Y, s, K)
  BY Zenon DEF ItemsTo, Registration
<1> HIDE DEF Y
<1>1. InLib(m, e[1], e[2]) /\ \A z, w : InLib(l, z, w) /\ (e[1] = z => e[2] = w) => InLib(m, z, w)
  BY LibStep, Zenon
<1>2. ASSUME NEW o, InLib(l, o[1], o[2]),
             OfItf(o, T, f) \/ OfGlob(o, T) \/ OfChunk(o, T) \/ OfGlob(o, C) \/ OfChunk(o, C)
      PROVE  InLib(m, o[1], o[2])
  <2>1. e[1] = o[1] => e[2] = o[2]
    BY <1>0, <1>2, DiffNames
  <2> QED  BY <1>1, <1>2, <2>1, ZenonT(30)
<1>3. \A o \in cp \cup {e} : InLib(m, o[1], o[2])
  <2>1. \A o \in cp : InLib(l, o[1], o[2]) /\ o \in Diff(T, f)
    BY Zenon DEF Registration
  <2>2. \A o \in cp : InLib(m, o[1], o[2])
    BY <1>2, <2>1, OfDiff, Zenon
  <2> QED  BY <1>1, <2>2, Zenon
<1>4. GlobsInLib(Entries(C.globs), m)
  <2> SUFFICES ASSUME NEW g \in Entries(C.globs) PROVE InLib(m, GlobName(g), g.src)
    BY Zenon DEF GlobsInLib
  <2> DEFINE o == <<GlobName(g), g.src>>
  <2>1. o[1] = GlobName(g) /\ o[2] = g.src
    OBVIOUS
  <2> HIDE DEF o
  <2>2. InLib(l, o[1], o[2])
    BY <1>0, <2>1, Zenon DEF Full, GlobsInLib
  <2>3. OfGlob(o, C)
    BY <2>1, Zenon DEF OfGlob
  <2>4. InLib(m, o[1], o[2])
    BY <1>2, <2>2, <2>3, Zenon
  <2> QED  BY <2>1, <2>4, Zenon
<1>5. ChunksInLib(C, m)
  <2> SUFFICES ASSUME NEW c \in Pointcuts, NEW k \in Entries(C.chunks[c])
               PROVE  InLib(m, ChunkName(c, k), k.src)
    BY Zenon DEF ChunksInLib
  <2> DEFINE o == <<ChunkName(c, k), k.src>>
  <2>1. o[1] = ChunkName(c, k) /\ o[2] = k.src
    OBVIOUS
  <2> HIDE DEF o
  <2>2. InLib(l, o[1], o[2])
    BY <1>0, <2>1, Zenon DEF Full, ChunksInLib
  <2>3. OfChunk(o, C)
    BY <2>1, Zenon DEF OfChunk
  <2>4. InLib(m, o[1], o[2])
    BY <1>2, <2>2, <2>3, Zenon
  <2> QED  BY <2>1, <2>4, Zenon
<1>6. Full(C, X, s, K, m)
  BY <1>0, <1>4, <1>5, Zenon DEF Full
<1>7. cp \cup {e} \subseteq Diff(T, f)
  BY Zenon DEF Registration
<1> QED  BY <1>0, <1>3, <1>6, <1>7, Zenon DEF Registration, Y
-----------------------------------------------------------------------------
(***************************************************************************)
(* The merge.                                                              *)
(***************************************************************************)
\* The merge starts with the global code.
LEMMA MergeBeginStep ==
  ASSUME NEW C, NEW T, NEW X, NEW f \in SourceFiles, NEW s, NEW K, NEW l, NEW D, NEW dn,
         Full(C, X, s, K, l), TempInv(T, C, X, Items(f), s, K),
         \A e \in Diff(T, f) : InLib(l, e[1], e[2]),
         D.tpls = C.tpls, D.chunks = C.chunks,
         Entries(D.globs) = Entries(C.globs) \cup Entries(T.globs),
         \A p \in Protos : dn[p] = 0 /\ Len(T.tpls[p]) \in Nat
  PROVE  MergeInv(D, T, dn, X \cup Items(f), Items(f), s, K, l)
<1> DEFINE Y == Items(f)
           Z == X \cup Y
<1>0. X \subseteq Z /\ Y \subseteq Z
  BY Zenon
<1>1. TablesFrom(D, Z) /\ ChunksInLib(D, l)
  <2>1. TablesFrom(C, Z)
    BY <1>0, FromLarger, Zenon DEF Full
  <2> QED  BY <2>1, Zenon DEF TablesFrom, Full, ChunksInLib
<1>2. GlobsFrom(Entries(D.globs), Z, s, K)
  <2>1. GlobsFrom(Entries(C.globs), Z, s, K) /\ GlobsFrom(Entries(T.globs), Z, s, K)
    BY <1>0, FromLarger, Zenon DEF Full, TempInv
  <2> QED  BY <2>1, Zenon DEF GlobsFrom
<1>3. AllGlobs(Entries(D.globs), Z, s, K)
  BY Zenon DEF TempInv
<1>4. GlobsInLib(Entries(D.globs), l)
  <2>1. ASSUME NEW g \in Entries(T.globs) PROVE InLib(l, GlobName(g), g.src)
    <3> DEFINE o == <<GlobName(g), g.src>>
    <3>1. o[1] = GlobName(g) /\ o[2] = g.src
      OBVIOUS
    <3>2. o \in Diff(T, f)
      BY Zenon DEF Diff
    <3> HIDE DEF o
    <3> QED  BY <3>1, <3>2, Zenon
  <2> QED  BY <2>1, Zenon DEF Full, GlobsInLib
<1>5. ChunksInLib(T, l)
  <2> SUFFICES ASSUME NEW c \in Pointcuts, NEW k \in Entries(T.chunks[c])
               PROVE  InLib(l, ChunkName(c, k), k.src)
    BY Zenon DEF ChunksInLib
  <2> DEFINE o == <<ChunkName(c, k), k.src>>
  <2>1. o[1] = ChunkName(c, k) /\ o[2] = k.src
    OBVIOUS
  <2>2. o \in Diff(T, f)
    <3>1. o \in {<<ChunkName(c, h), h.src>> : h \in Entries(T.chunks[c])}
      BY Zenon
    <3> HIDE DEF o
    <3> QED  BY <3>1 DEF Diff
  <2> HIDE DEF o
  <2> QED  BY <2>1, <2>2, Zenon
<1>6. \A p \in Protos : dn[p] <= Len(T.tpls[p])
  OBVIOUS
<1>7. ASSUME NEW x \in Z, ItemAt(x).kind = "tpl" PROVE HasTpl(D, x) \/ ToCome(T, dn, x)
  <2>1. CASE x \in X
    BY <1>7, <2>1, Zenon DEF Full, AllTpls, HasTpl
  <2>2. CASE x \in Y
    <3>1. ItemAt(x).proto \in Protos
      BY <1>7, <2>2, ItemTypes, Zenon
    <3>2. PICK i \in 1..Len(T.tpls[ItemAt(x).proto]) : T.tpls[ItemAt(x).proto][i].src = x
      <4>1. HasTpl(T, x)
        BY <1>7, <2>2, Zenon DEF TempInv, AllTpls
      <4> QED  BY <4>1, Zenon DEF HasTpl, Entries
    <3>3. i > dn[ItemAt(x).proto]
      BY <3>1, <3>2
    <3> QED  BY <3>2, <3>3, Zenon DEF ToCome
  <2> QED  BY <2>1, <2>2, Zenon
<1>8. TablesFrom(T, Y)
  BY Zenon DEF TempInv
<1> QED  BY <1>1, <1>2, <1>3, <1>4, <1>5, <1>6, <1>7, <1>8, Zenon DEF MergeInv

\* Cache D has, in addition to what is in C, the next template of prototype p of the
\* differential cache T, with its chunks new; dn counts it.
Merges(C, D, T, d, dn, p, new) ==
  LET t == T.tpls[p][d[p] + 1]
  IN  /\ AddsTo(C, D, p, t, Ids(t), new)
      /\ \A c \in Ids(t) : new[c] \in Entries(T.chunks[c])
      /\ \A q \in Protos : d[q] \in Nat
      /\ Len(T.tpls[p]) \in Nat /\ d[p] + 1 \in 1..Len(T.tpls[p])
      /\ dn[p] = d[p] + 1 /\ \A q \in Protos \ {p} : dn[q] = d[q]

\* The merge of one template.
LEMMA MergeTemplateStep ==
  ASSUME NEW C, NEW T, NEW d, NEW X, NEW Y, Y \subseteq X, NEW s, NEW K, NEW l, NEW D, NEW dn,
         MergeInv(C, T, d, X, Y, s, K, l), NEW p \in Protos, NEW new,
         Merges(C, D, T, d, dn, p, new),
         \A x \in X : ItemAt(x).kind = "tpl" => ItemAt(x).proto \in Protos
  PROVE  MergeInv(D, T, dn, X, Y, s, K, l)
<1> DEFINE i == d[p] + 1
           t == T.tpls[p][i]
           S == Ids(t)
<1>a. /\ \A c \in S : new[c] \in Entries(T.chunks[c])
      /\ \A q \in Protos : d[q] \in Nat
      /\ Len(T.tpls[p]) \in Nat /\ i \in 1..Len(T.tpls[p])
      /\ dn[p] = i /\ \A q \in Protos \ {p} : dn[q] = d[q]
      /\ t = T.tpls[p][i] /\ i = d[p] + 1
  BY Zenon DEF Merges
<1>b. PICK u : /\ Grows(C, D, p, u, S, new)
               /\ u.src = t.src /\ u.with = t.with
               /\ \A c \in Pointcuts : u.ids[c] # 0 <=> c \in S
  BY Zenon DEF Merges, AddsTo
<1>00. S = {c \in Pointcuts : t.ids[c] # 0} /\ S \in SUBSET Pointcuts
  BY Zenon DEF Ids
<1> HIDE DEF i, t, S
<1>0. TablesFrom(T, X) /\ D.globs = C.globs
  BY <1>b, FromLarger, Zenon DEF MergeInv, Grows
<1>1. TplFrom(t, p, X)
  BY <1>a, <1>0, Zenon DEF TablesFrom, Entries
<1>2. TplFrom(u, p, X)
  BY <1>b, <1>00, <1>1, Zenon DEF TplFrom
<1>3. \A c \in S : ChunkFrom(new[c], c, X)
  BY <1>a, <1>0, <1>00, Zenon DEF TablesFrom
<1>4. TablesFrom(D, X)
  BY <1>b, <1>00, <1>2, <1>3, GrowTables, Zenon DEF MergeInv
<1>5. ChunksInLib(D, l)
  <2> SUFFICES ASSUME NEW c \in Pointcuts, NEW k \in Entries(D.chunks[c])
               PROVE  InLib(l, ChunkName(c, k), k.src)
    BY Zenon DEF ChunksInLib
  <2>1. k \in Entries(C.chunks[c]) \/ k \in Entries(T.chunks[c])
    BY <1>a, <1>b, <1>00, ZenonT(30) DEF Grows
  <2> QED  BY <2>1, Zenon DEF MergeInv, ChunksInLib
<1>6. \A q \in Protos : dn[q] <= Len(T.tpls[q])
  <2>1. dn[p] <= Len(T.tpls[p])
    BY <1>a
  <2>2. \A q \in Protos : d[q] <= Len(T.tpls[q])
    BY Zenon DEF MergeInv
  <2> QED  BY <1>a, <2>1, <2>2, Zenon
<1>7. ASSUME NEW x \in X, ItemAt(x).kind = "tpl" PROVE HasTpl(D, x) \/ ToCome(T, dn, x)
  <2> DEFINE q == ItemAt(x).proto
  <2>0. q \in Protos
    BY <1>7, Zenon
  <2>1. CASE HasTpl(C, x)
    BY <1>b, <2>0, <2>1, <1>00, GrowHasTpl, Zenon
  <2>2. CASE ToCome(T, d, x)
    <3>1. PICK j \in 1..Len(T.tpls[q]) : j > d[q] /\ T.tpls[q][j].src = x
      BY <2>2, Zenon DEF ToCome
    <3>2. CASE q = p /\ j = i
      <4>1. u.src = x
        BY <1>a, <1>b, <3>1, <3>2, Zenon
      <4> QED  BY <2>0, <3>2, <4>1, <1>b, <1>00, GrowHasTpl, Zenon
    <3>3. CASE q # p \/ j # i
      <4> HIDE DEF q
      <4>1. d[q] \in Nat
        BY <1>a, <2>0
      <4>2. j > dn[q]
        BY <1>a, <2>0, <3>1, <3>3, <4>1
      <4> QED  BY <3>1, <4>2, Zenon DEF ToCome, q
    <3> QED  BY <3>2, <3>3, Zenon
  <2> QED  BY <1>7, <2>1, <2>2, Zenon DEF MergeInv
<1>8. /\ GlobsFrom(Entries(D.globs), X, s, K) /\ AllGlobs(Entries(D.globs), X, s, K)
      /\ GlobsInLib(Entries(D.globs), l) /\ TablesFrom(T, Y) /\ ChunksInLib(T, l)
  BY <1>0, Zenon DEF MergeInv
<1> QED  BY <1>4, <1>5, <1>6, <1>7, <1>8, Zenon DEF MergeInv

\* At the end of the merge the local cache is full.
LEMMA MergeEndStep ==
  ASSUME NEW C, NEW T, NEW d, NEW X, NEW Y, NEW s, NEW K, NEW l,
         MergeInv(C, T, d, X, Y, s, K, l),
         \A p \in Protos : d[p] = Len(T.tpls[p]) /\ Len(T.tpls[p]) \in Nat,
         \A x \in X : ItemAt(x).kind = "tpl" => ItemAt(x).proto \in Protos
  PROVE  Full(C, X, s, K, l)
<1>1. ASSUME NEW x \in X, ItemAt(x).kind = "tpl" PROVE ~ ToCome(T, d, x)
  <2>1. PICK q \in Protos : q = ItemAt(x).proto
    BY <1>1, Zenon
  <2>2. \A i \in 1..Len(T.tpls[q]) : ~ (i > d[q])
    BY <2>1
  <2> QED  BY <2>1, <2>2, Zenon DEF ToCome
<1>2. AllTpls(C, X)
  BY <1>1, Zenon DEF AllTpls, MergeInv
<1> QED  BY <1>2, Zenon DEF Full, MergeInv

-----------------------------------------------------------------------------
(***************************************************************************)
(* The generation.                                                         *)
(***************************************************************************)
\* Templates of a script have a prototype and pointcuts of the system.
LEMMA ScriptItemTypes ==
  ASSUME NEW s \in Seq(Operation), NEW x \in ScriptSources(s), ItemAt(x).kind = "tpl"
  PROVE  ItemAt(x).proto \in Protos /\ ItemAt(x).pcs \in SUBSET Pointcuts
<1>1. PICK i \in 1..Len(s) : s[i].op = "register" /\ x \in Items(s[i].file)
  BY SourcesAs, Zenon
<1>2. s[i] \in Operation
  <2> HIDE DEF Operation
  <2> QED  OBVIOUS
<1>3. s[i].file \in SourceFiles
  BY <1>1, <1>2, Zenon DEF Operation
<1> QED  BY <1>1, <1>3, ItemTypes, Zenon

\* The members of the sets that Expected and ExpectedGlobs build.
LEMMA ExpectedGlobsAs ==
  ASSUME NEW s, NEW config, NEW K
  PROVE  /\ \A z \in ExpectedGlobs(s, config, K) : \E x \in ScriptGlobs(s) :
              /\ ItemAt(x).itf \notin K /\ First(s, x) /\ ItemAt(x).with \in config
              /\ z = <<ItemAt(x).itf, ItemAt(x).with, x>>
         /\ \A x \in ScriptGlobs(s) :
              ItemAt(x).itf \notin K /\ First(s, x) /\ ItemAt(x).with \in config =>
                <<ItemAt(x).itf, ItemAt(x).with, x>> \in ExpectedGlobs(s, config, K)
  BY Zenon DEF ExpectedGlobs, First, ItemAt

LEMMA ExpectedTplsAs ==
  ASSUME NEW s
  PROVE  /\ \A z \in Expected(s).tpls :
              \E x \in ScriptTpls(s) : z = <<ItemAt(x).proto, ItemAt(x).with, x>>
         /\ \A x \in ScriptTpls(s) : <<ItemAt(x).proto, ItemAt(x).with, x>> \in Expected(s).tpls
<1>1. Expected(s).tpls = {<<ItemAt(x).proto, ItemAt(x).with, x>> : x \in ScriptTpls(s)}
  BY Zenon DEF Expected, ItemAt
<1> QED  BY <1>1, Zenon

LEMMA ExpectedCodeAs ==
  ASSUME NEW s
  PROVE  /\ \A z \in Expected(s).code : \E x \in ScriptTpls(s) : \E c \in ItemAt(x).pcs :
              z = <<ItemAt(x).proto, ItemAt(x).with, c, x>>
         /\ \A x \in ScriptTpls(s) : \A c \in ItemAt(x).pcs :
              <<ItemAt(x).proto, ItemAt(x).with, c, x>> \in Expected(s).code
<1> DEFINE S(x) == {<<ItemAt(x).proto, ItemAt(x).with, c, x>> : c \in ItemAt(x).pcs}
<1>1. Expected(s).code = UNION {S(x) : x \in ScriptTpls(s)}
  BY Zenon DEF Expected, ItemAt
<1>2. /\ \A x : \A z \in S(x) : \E c \in ItemAt(x).pcs : z = <<ItemAt(x).proto, ItemAt(x).with, c, x>>
      /\ \A x : \A c \in ItemAt(x).pcs : <<ItemAt(x).proto, ItemAt(x).with, c, x>> \in S(x)
  BY Zenon
<1> HIDE DEF S
<1>3. /\ \A z \in Expected(s).code : \E x \in ScriptTpls(s) : z \in S(x)
      /\ \A x \in ScriptTpls(s) : \A z \in S(x) : z \in Expected(s).code
  BY <1>1
<1> QED  BY <1>2, <1>3, Zenon

\* What is in the local library is found there.
LEMMA LoadItemAs ==
  ASSUME NEW y, NEW v, InLib(lib, y, v)
  PROVE  LoadItem(<<y, "tree">>) = v
  BY Zenon DEF InLib, LoadItem

\* The global code that a driver is generated from.
GlobsOf(H, C, config) == {h \in Entries(H.globs) \cup Entries(C.globs) : h.with \in config}
Loaded(G) == {<<g.itf, g.with, LoadItem(<<GlobName(g), "tree">>)>> : g \in G}
New(R, K) == {x \in R : x[1] \notin K}

\* The global code that is generated.
LEMMA GenerateGlobs ==
  ASSUME NEW s, NEW C, NEW H, NEW config,
         Full(C, ScriptSources(s), s, Known(H), lib)
  PROVE  New(Loaded(GlobsOf(H, C, config)), Known(H)) = ExpectedGlobs(s, config, Known(H))
<1> DEFINE K == Known(H)
           F == {h \in Entries(H.globs) \cup Entries(C.globs) : h.with \in config}
           R == {<<g.itf, g.with, LoadItem(<<GlobName(g), "tree">>)>> : g \in F}
           E == ExpectedGlobs(s, config, K)
<1>0. \A u, v, w : <<u, v, w>>[1] = u
  OBVIOUS
<1>1. ASSUME NEW g \in F, g.itf \notin K
      PROVE  <<g.itf, g.with, LoadItem(<<GlobName(g), "tree">>)>> \in E
  <2>1. g \in Entries(C.globs) /\ g.with \in config
    BY <1>1, Zenon DEF Known
  <2>2. GlobFrom(g, ScriptSources(s), s, K) /\ LoadItem(<<GlobName(g), "tree">>) = g.src
    BY <2>1, LoadItemAs, Zenon DEF Full, GlobsFrom, GlobsInLib
  <2>3. g.src \in ScriptGlobs(s)
    BY <2>2, Zenon DEF GlobFrom, ScriptGlobs, ItemAt
  <2> HIDE DEF K
  <2>4. <<ItemAt(g.src).itf, ItemAt(g.src).with, g.src>> \in E
    <3>1. /\ ItemAt(g.src).itf \notin K /\ First(s, g.src) /\ ItemAt(g.src).with \in config
      BY <2>1, <2>2, Zenon DEF GlobFrom
    <3> QED  BY <2>3, <3>1, ExpectedGlobsAs, Zenon
  <2> QED  BY <2>2, <2>4, Zenon DEF GlobFrom
<1>2. ASSUME NEW z \in E PROVE z \in R /\ z[1] \notin K
  <2> HIDE DEF K
  <2>1. PICK x \in ScriptGlobs(s) :
          /\ ItemAt(x).itf \notin K /\ First(s, x) /\ ItemAt(x).with \in config
          /\ z = <<ItemAt(x).itf, ItemAt(x).with, x>>
    BY ExpectedGlobsAs
  <2>2. x \in ScriptSources(s) /\ ItemAt(x).kind = "glob"
    BY Zenon DEF ScriptGlobs, ItemAt
  <2>3. PICK g \in Entries(C.globs) : g.src = x
    BY <2>1, <2>2, Zenon DEF Full, AllGlobs, K
  <2>4. g.itf = ItemAt(x).itf /\ g.with = ItemAt(x).with /\ LoadItem(<<GlobName(g), "tree">>) = x
    BY <2>3, LoadItemAs, Zenon DEF Full, GlobsFrom, GlobFrom, GlobsInLib
  <2>5. g \in F /\ z = <<g.itf, g.with, LoadItem(<<GlobName(g), "tree">>)>>
    BY <2>1, <2>4, Zenon
  <2>6. z[1] \notin K
    BY <1>0, <2>1, Zenon
  <2> HIDE DEF F
  <2> QED  BY <2>5, <2>6, Zenon
<1>3. \A x : x \in {z \in R : z[1] \notin K} <=> x \in E
  <2> HIDE DEF F, K, E
  <2>1. ASSUME NEW x \in R, x[1] \notin K PROVE x \in E
    <3>1. PICK g \in F : x = <<g.itf, g.with, LoadItem(<<GlobName(g), "tree">>)>>
      BY Zenon
    <3>2. g.itf \notin K
      BY <1>0, <2>1, <3>1, Zenon
    <3> QED  BY <1>1, <3>1, <3>2, Zenon
  <2> HIDE DEF R
  <2> QED  BY <1>2, <2>1, Zenon
<1> HIDE DEF R, F, K, E
<1>4. {z \in R : z[1] \notin K} = E
  BY <1>3, Zenon
<1> QED  BY <1>4, Zenon DEF R, F, K, E, New, Loaded, GlobsOf

\* Where the templates of a session come from.
LEMMA SessionTplsAs ==
  ASSUME NEW b
  PROVE  /\ \A x \in SessionTpls(b) :
              \E p \in Protos : \E cache \in {glob[b], loc[b]} : \E t \in Entries(cache.tpls[p]) :
                x = <<p, t, cache>>
         /\ \A p \in Protos : \A cache \in {glob[b], loc[b]} : \A t \in Entries(cache.tpls[p]) :
              <<p, t, cache>> \in SessionTpls(b)
<1> DEFINE S(p, cache) == {<<p, cache.tpls[p][i], cache>> : i \in 1..Len(cache.tpls[p])}
<1>1. SessionTpls(b) = UNION {S(p, cache) : p \in Protos, cache \in {glob[b], loc[b]}}
  BY DEF SessionTpls
<1>2. /\ \A p, cache : \A x \in S(p, cache) : \E t \in Entries(cache.tpls[p]) : x = <<p, t, cache>>
      /\ \A p, cache : \A t \in Entries(cache.tpls[p]) : <<p, t, cache>> \in S(p, cache)
  BY Zenon DEF Entries
<1> HIDE DEF S
<1>3. /\ \A x \in SessionTpls(b) :
           \E p \in Protos : \E cache \in {glob[b], loc[b]} : x \in S(p, cache)
      /\ \A p \in Protos : \A cache \in {glob[b], loc[b]} : \A x \in S(p, cache) :
           x \in SessionTpls(b)
  BY <1>1
<1>4. ASSUME NEW x \in SessionTpls(b)
      PROVE  \E p \in Protos : \E cache \in {glob[b], loc[b]} : \E t \in Entries(cache.tpls[p]) :
               x = <<p, t, cache>>
  <2>1. PICK p \in Protos, cache \in {glob[b], loc[b]} : x \in S(p, cache)
    BY <1>3, Zenon
  <2>2. \E t \in Entries(cache.tpls[p]) : x = <<p, t, cache>>
    BY <1>2, <2>1, Zenon
  <2> QED  BY <2>2, Zenon
<1>5. ASSUME NEW p \in Protos, NEW cache \in {glob[b], loc[b]}, NEW t \in Entries(cache.tpls[p])
      PROVE  <<p, t, cache>> \in SessionTpls(b)
  <2>1. <<p, t, cache>> \in S(p, cache)
    BY <1>2, Zenon
  <2> QED  BY <1>3, <2>1, Zenon
<1> QED  BY <1>4, <1>5, Zenon

\* The members of Installed.
LEMMA InstalledAs ==
  ASSUME NEW C
  PROVE  /\ \A z \in Installed(C) :
              \E p \in Protos : \E t \in Entries(C.tpls[p]) : z = <<p, t.with, t.src>>
         /\ \A p \in Protos : \A t \in Entries(C.tpls[p]) : <<p, t.with, t.src>> \in Installed(C)
<1> DEFINE S(p) == {<<p, C.tpls[p][i].with, C.tpls[p][i].src>> : i \in 1..Len(C.tpls[p])}
<1>1. Installed(C) = UNION {S(p) : p \in Protos}
  BY Zenon DEF Installed
<1>2. /\ \A p : \A z \in S(p) : \E t \in Entries(C.tpls[p]) : z = <<p, t.with, t.src>>
      /\ \A p : \A t \in Entries(C.tpls[p]) : <<p, t.with, t.src>> \in S(p)
  BY Zenon DEF Entries
<1> HIDE DEF S
<1>3. /\ \A z \in Installed(C) : \E p \in Protos : z \in S(p)
      /\ \A p \in Protos : \A z \in S(p) : z \in Installed(C)
  BY <1>1
<1> QED  BY <1>2, <1>3, Zenon

\* The templates that it is generated from.
LEMMA GenerateTpls ==
  ASSUME NEW b, NEW s \in Seq(Operation), NEW K, NEW l, Full(loc[b], ScriptSources(s), s, K, l)
  PROVE  {<<x[1], x[2].with, x[2].src>> : x \in SessionTpls(b)}
         = Expected(s).tpls \cup Installed(glob[b])
<1> DEFINE R == {<<x[1], x[2].with, x[2].src>> : x \in SessionTpls(b)}
<1>1. /\ \A z \in R : \E x \in SessionTpls(b) : z = <<x[1], x[2].with, x[2].src>>
      /\ \A x \in SessionTpls(b) : <<x[1], x[2].with, x[2].src>> \in R
  BY Zenon
<1> HIDE DEF R
<1>2. ASSUME NEW z \in R PROVE z \in Expected(s).tpls \cup Installed(glob[b])
  <2>1. PICK x \in SessionTpls(b) : z = <<x[1], x[2].with, x[2].src>>
    BY <1>1, Zenon
  <2>2. PICK p \in Protos, cache \in {glob[b], loc[b]} :
          \E t \in Entries(cache.tpls[p]) : x = <<p, t, cache>>
    BY SessionTplsAs, Zenon
  <2>3. PICK t \in Entries(cache.tpls[p]) : x = <<p, t, cache>>
    BY <2>2, Zenon
  <2>4. x[1] = p /\ x[2] = t
    BY <2>3
  <2>5. z = <<p, t.with, t.src>>
    BY <2>1, <2>4, Zenon
  <2>6. CASE cache = glob[b]
    <3>1. <<p, t.with, t.src>> \in Installed(glob[b])
      BY <2>6, InstalledAs, Zenon
    <3> QED  BY <2>5, <3>1, Zenon
  <2>7. CASE cache = loc[b]
    <3>1. TplFrom(t, p, ScriptSources(s))
      BY <2>7, Zenon DEF Full, TablesFrom
    <3>2. t.src \in ScriptTpls(s)
      BY <3>1, Zenon DEF TplFrom, ScriptTpls, ItemAt
    <3>3. <<ItemAt(t.src).proto, ItemAt(t.src).with, t.src>> \in Expected(s).tpls
      BY <3>2, ExpectedTplsAs, Zenon
    <3>4. <<p, t.with, t.src>> \in Expected(s).tpls
      BY <3>1, <3>3, Zenon DEF TplFrom
    <3> QED  BY <2>5, <3>4, Zenon
  <2> QED  BY <2>6, <2>7, Zenon
<1>3. ASSUME NEW p \in Protos, NEW cache \in {glob[b], loc[b]}, NEW t \in Entries(cache.tpls[p])
      PROVE  <<p, t.with, t.src>> \in R
  <2> DEFINE x == <<p, t, cache>>
  <2>1. x \in SessionTpls(b)
    BY SessionTplsAs, Zenon
  <2>2. x[1] = p /\ x[2] = t
    OBVIOUS
  <2> HIDE DEF x
  <2> QED  BY <1>1, <2>1, <2>2, Zenon
<1>4. ASSUME NEW z \in Expected(s).tpls PROVE z \in R
  <2>1. PICK x \in ScriptTpls(s) : z = <<ItemAt(x).proto, ItemAt(x).with, x>>
    BY ExpectedTplsAs, Zenon
  <2>2. x \in ScriptSources(s) /\ ItemAt(x).kind = "tpl"
    BY Zenon DEF ScriptTpls, ItemAt
  <2>3. PICK p \in Protos : p = ItemAt(x).proto
    BY <2>2, ScriptItemTypes, Zenon
  <2>4. PICK t \in Entries(loc[b].tpls[p]) : t.src = x
    BY <2>2, <2>3, Zenon DEF Full, AllTpls, HasTpl
  <2>5. t.with = ItemAt(x).with
    BY <2>4, Zenon DEF Full, TablesFrom, TplFrom
  <2>6. z = <<p, t.with, t.src>>
    BY <2>1, <2>3, <2>4, <2>5, Zenon
  <2> QED  BY <1>3, <2>6, Zenon
<1>5. ASSUME NEW z \in Installed(glob[b]) PROVE z \in R
  <2>1. PICK p \in Protos : \E t \in Entries(glob[b].tpls[p]) : z = <<p, t.with, t.src>>
    BY InstalledAs, Zenon
  <2> QED  BY <1>3, <2>1, Zenon
<1>6. R = Expected(s).tpls \cup Installed(glob[b])
  BY <1>2, <1>4, <1>5, Zenon
<1> QED  BY <1>6, Zenon DEF R

\* The chunk id of a template is the number of a chunk.
LEMMA IdInRange ==
  ASSUME NEW C \in Cache, IdsRefer(C), NEW p \in Protos, NEW t \in Entries(C.tpls[p]),
         NEW c \in Pointcuts, t.ids[c] # 0
  PROVE  t.ids[c] \in 1..Len(C.chunks[c]) /\ C.chunks[c][t.ids[c]].src = t.src
<1>1. PICK i \in 1..Len(C.tpls[p]) : t = C.tpls[p][i]
  BY Zenon DEF Entries
<1>2. t \in Template
  <2>1. C.tpls[p] \in Seq(Template)
    BY Zenon DEF Cache
  <2> HIDE DEF Template
  <2> QED  BY <1>1, <2>1
<1>3. t.ids[c] \in Nat
  <2>1. t.ids \in [Pointcuts -> Nat]
    BY <1>2, Zenon DEF Template
  <2> QED  BY <2>1, Zenon
<1>4. t.ids[c] <= Len(C.chunks[c]) /\ C.chunks[c][t.ids[c]].src = t.src
  BY <1>1, ZenonT(30) DEF IdsRefer
<1>5. Len(C.chunks[c]) \in Nat
  <2>1. C.chunks[c] \in Seq(Chunk)
    BY Zenon DEF Cache
  <2> HIDE DEF Chunk
  <2> QED  BY <2>1
<1> QED  BY <1>3, <1>4, <1>5

\* The chunk that a template of the local cache refers to is in the local library,
\* and what is installed has no chunks.
LEMMA TemplateCode ==
  ASSUME NEW b, NEW X, NEW s, NEW K, Full(loc[b], X, s, K, lib),
         loc[b] \in Cache, IdsRefer(loc[b]), glob[b] \in Cache, IdsRefer(glob[b]),
         NoChunks(glob[b]), NEW p \in Protos, NEW cache \in {glob[b], loc[b]},
         NEW t \in Entries(cache.tpls[p]), NEW c \in Pointcuts, t.ids[c] # 0
  PROVE  t \in Entries(loc[b].tpls[p])
         /\ LoadItem(<<ChunkName(c, ChunkOf(cache, t, c)), "tree">>) = t.src
<1>1. cache \in Cache /\ IdsRefer(cache)
  BY Zenon
<1>2. t.ids[c] \in 1..Len(cache.chunks[c]) /\ cache.chunks[c][t.ids[c]].src = t.src
  BY <1>1, IdInRange
<1>3. cache = loc[b]
  <2> SUFFICES ASSUME cache = glob[b] PROVE FALSE
    BY Zenon
  <2>1. cache.chunks[c] = << >>
    BY Zenon DEF NoChunks
  <2>2. 1..Len(<< >>) = {}
    OBVIOUS
  <2> QED  BY <1>2, <2>1, <2>2, Zenon
<1>4. cache.chunks[c][t.ids[c]] \in Entries(loc[b].chunks[c])
  BY <1>2, <1>3, Zenon DEF Entries
<1>5. InLib(lib, ChunkName(c, ChunkOf(cache, t, c)), t.src)
  BY <1>2, <1>4, Zenon DEF Full, ChunksInLib, ChunkOf
<1> QED  BY <1>3, <1>5, LoadItemAs, Zenon

\* The code that it is generated from.
LEMMA GenerateCode ==
  ASSUME NEW b, NEW s \in Seq(Operation), NEW K, Full(loc[b], ScriptSources(s), s, K, lib),
         loc[b] \in Cache, IdsRefer(loc[b]), glob[b] \in Cache, IdsRefer(glob[b]),
         NoChunks(glob[b])
  PROVE  UNION {{<<x[1], x[2].with, y[1], LoadItem(<<y[2], "tree">>)>> :
                    y \in {<<c, ChunkName(c, ChunkOf(x[3], x[2], c))>> :
                             c \in {d \in Pointcuts : x[2].ids[d] # 0}}} : x \in SessionTpls(b)}
         = Expected(s).code
<1> DEFINE F(x) == {<<c, ChunkName(c, ChunkOf(x[3], x[2], c))>> :
                      c \in {d \in Pointcuts : x[2].ids[d] # 0}}
           S(x) == {<<x[1], x[2].with, y[1], LoadItem(<<y[2], "tree">>)>> : y \in F(x)}
           R == UNION {S(x) : x \in SessionTpls(b)}
<1>1. /\ \A x : \A y \in F(x) : \E c \in Pointcuts :
           x[2].ids[c] # 0 /\ y = <<c, ChunkName(c, ChunkOf(x[3], x[2], c))>>
      /\ \A x : \A c \in Pointcuts :
           x[2].ids[c] # 0 => <<c, ChunkName(c, ChunkOf(x[3], x[2], c))>> \in F(x)
  BY Zenon
<1>2. /\ \A x : \A z \in S(x) : \E y \in F(x) :
           z = <<x[1], x[2].with, y[1], LoadItem(<<y[2], "tree">>)>>
      /\ \A x : \A y \in F(x) : <<x[1], x[2].with, y[1], LoadItem(<<y[2], "tree">>)>> \in S(x)
  <2> HIDE DEF F
  <2> QED  BY Zenon
<1>3. /\ \A z \in R : \E x \in SessionTpls(b) : z \in S(x)
      /\ \A x \in SessionTpls(b) : \A z \in S(x) : z \in R
  <2> HIDE DEF S
  <2> QED  OBVIOUS
<1> HIDE DEF R, S, F
<1>4. ASSUME NEW z \in R PROVE z \in Expected(s).code
  <2>1. PICK x \in SessionTpls(b) : z \in S(x)
    BY <1>3, Zenon
  <2>2. PICK y \in F(x) : z = <<x[1], x[2].with, y[1], LoadItem(<<y[2], "tree">>)>>
    BY <1>2, <2>1, Zenon
  <2>3. PICK p \in Protos, cache \in {glob[b], loc[b]} :
          \E t \in Entries(cache.tpls[p]) : x = <<p, t, cache>>
    BY SessionTplsAs, Zenon
  <2>4. PICK t \in Entries(cache.tpls[p]) : x = <<p, t, cache>>
    BY <2>3, Zenon
  <2>5. x[1] = p /\ x[2] = t /\ x[3] = cache
    BY <2>4
  <2>6. PICK c \in Pointcuts : x[2].ids[c] # 0 /\ y = <<c, ChunkName(c, ChunkOf(x[3], x[2], c))>>
    BY <1>1, Zenon
  <2>7. y[1] = c /\ y[2] = ChunkName(c, ChunkOf(x[3], x[2], c))
    BY <2>6
  <2>8. t.ids[c] # 0 /\ y[2] = ChunkName(c, ChunkOf(cache, t, c))
    BY <2>5, <2>6, <2>7, Zenon
  <2>9. t \in Entries(loc[b].tpls[p]) /\ LoadItem(<<y[2], "tree">>) = t.src
    <3>1. /\ t \in Entries(loc[b].tpls[p])
          /\ LoadItem(<<ChunkName(c, ChunkOf(cache, t, c)), "tree">>) = t.src
      BY <2>8, TemplateCode, Zenon
    <3> QED  BY <2>8, <3>1, Zenon
  <2>10. z = <<p, t.with, c, t.src>>
    BY <2>2, <2>5, <2>7, <2>9, Zenon
  <2>11. TplFrom(t, p, ScriptSources(s))
    BY <2>9, Zenon DEF Full, TablesFrom
  <2>12. t.src \in ScriptTpls(s) /\ c \in ItemAt(t.src).pcs
    BY <2>8, <2>11, Zenon DEF TplFrom, ScriptTpls, ItemAt
  <2>13. <<ItemAt(t.src).proto, ItemAt(t.src).with, c, t.src>> \in Expected(s).code
    BY <2>12, ExpectedCodeAs, Zenon
  <2> QED  BY <2>10, <2>11, <2>13, Zenon DEF TplFrom
<1>5. ASSUME NEW z \in Expected(s).code PROVE z \in R
  <2>1. PICK x \in ScriptTpls(s) :
          \E c \in ItemAt(x).pcs : z = <<ItemAt(x).proto, ItemAt(x).with, c, x>>
    BY ExpectedCodeAs, Zenon
  <2>2. PICK c \in ItemAt(x).pcs : z = <<ItemAt(x).proto, ItemAt(x).with, c, x>>
    BY <2>1, Zenon
  <2>3. x \in ScriptSources(s) /\ ItemAt(x).kind = "tpl"
    BY Zenon DEF ScriptTpls, ItemAt
  <2>4. PICK p \in Protos : p = ItemAt(x).proto /\ c \in Pointcuts
    BY <2>3, ScriptItemTypes, Zenon
  <2>5. PICK t \in Entries(loc[b].tpls[p]) : t.src = x
    BY <2>3, <2>4, Zenon DEF Full, AllTpls, HasTpl
  <2>6. t.with = ItemAt(x).with /\ t.ids[c] # 0
    BY <2>4, <2>5, ZenonT(30) DEF Full, TablesFrom, TplFrom
  <2>7. LoadItem(<<ChunkName(c, ChunkOf(loc[b], t, c)), "tree">>) = x
    BY <2>4, <2>5, <2>6, TemplateCode, Zenon
  <2> DEFINE w == <<p, t, loc[b]>>
             y == <<c, ChunkName(c, ChunkOf(loc[b], t, c))>>
  <2>8. w[1] = p /\ w[2] = t /\ w[3] = loc[b]
    OBVIOUS
  <2>9. y[1] = c /\ y[2] = ChunkName(c, ChunkOf(loc[b], t, c))
    OBVIOUS
  <2>10. w \in SessionTpls(b)
    BY <2>5, SessionTplsAs, Zenon
  <2>11. y \in F(w)
    <3>1. w[2].ids[c] # 0 /\ y = <<c, ChunkName(c, ChunkOf(w[3], w[2], c))>>
      BY <2>6, <2>8
    <3> HIDE DEF w, y
    <3> QED  BY <1>1, <2>4, <3>1, Zenon
  <2> HIDE DEF w, y
  <2>12. z = <<w[1], w[2].with, y[1], LoadItem(<<y[2], "tree">>)>>
    BY <2>2, <2>4, <2>6, <2>7, <2>8, <2>9, Zenon
  <2> QED  BY <1>2, <1>3, <2>10, <2>11, <2>12, Zenon
<1>6. R = Expected(s).code
  BY <1>4, <1>5, Zenon
<1> QED  BY <1>6, Zenon DEF R, S, F

-----------------------------------------------------------------------------
(***************************************************************************)
(* The steps of a build.  Only the target that takes the step runs, so for *)
(* the others there is but the outcome of their last generation to keep.   *)
(***************************************************************************)
\* A step of the one target that runs leaves it the only one.
LEMMA AloneStep ==
  ASSUME Alone, NEW b \in Targets, b \in Running, \A a \in Targets \ {b} : pc'[a] = pc[a]
  PROVE  Alone' /\ \A a \in Targets \ {b} : a \notin Running /\ a \notin Running'
<1>1. Running = {b}
  BY Zenon DEF Alone
<1>2. \A a \in Targets \ {b} : a \notin Running
  BY <1>1, Zenon
<1>3. \A a \in Targets \ {b} : a \notin Running'
  BY <1>2, Zenon DEF Running
<1>4. \A a \in Running' : a \in Targets
  BY Zenon DEF Running
<1>5. Running' = {} \/ Running' = {b}
  BY <1>3, <1>4, Zenon
<1> QED  BY <1>2, <1>3, <1>5, Zenon DEF Alone

\* The invariant follows from what it says of the target that takes the step.
LEMMA BuildsStep ==
  ASSUME BuildsInv, NEW b \in Targets, b \in Running, script' = script,
         \A a \in Targets \ {b} :
           pc'[a] = pc[a] /\ step'[a] = step[a] /\ gen'[a] = gen[a] /\ glob'[a] = glob[a],
         DOMAIN copied' = DOMAIN copied, DOMAIN gen' = DOMAIN gen,
         GlobalInv', Build(b) => GenInv(b)' /\ (b \in Running' => BuildInv(b)')
  PROVE  BuildsInv'
<1>1. Alone' /\ \A a \in Targets \ {b} : a \notin Running /\ a \notin Running'
  BY AloneStep, Zenon DEF BuildsInv
<1>2. ASSUME NEW a \in Targets \ {b}, Build(a) PROVE GenInv(a)'
  <2>1. GenInv(a) /\ pc[a] \notin {"load", "gen"}
    BY <1>1, <1>2, Zenon DEF BuildsInv, Running
  <2>2. /\ pc'[a] = pc[a] /\ step'[a] = step[a] /\ gen'[a] = gen[a] /\ glob'[a] = glob[a]
        /\ script'[a] = script[a]
    BY <1>2, Zenon
  <2> QED  BY <2>1, <2>2, Zenon DEF GenInv
<1>3. \A a \in Targets : Build(a)' = Build(a)
  BY Zenon DEF Build
<1>4. ASSUME NEW a \in Targets, Build(a)' PROVE GenInv(a)' /\ (a \in Running' => BuildInv(a)')
  <2>1. CASE a = b
    BY <1>3, <1>4, <2>1, Zenon
  <2>2. CASE a # b
    BY <1>1, <1>2, <1>3, <1>4, <2>2, Zenon
  <2> QED  BY <2>1, <2>2, Zenon
<1> QED  BY <1>1, <1>4, Zenon DEF BuildsInv

\* As long as nothing is installed, what is installed has no chunks.
LEMMA GlobalKept ==
  ASSUME GlobalInv, UNCHANGED <<glob, globalCache>>
  PROVE  GlobalInv'
  BY Zenon DEF GlobalInv

\* A step within a command that registers or clears.
LEMMA InnerStep ==
  ASSUME IInv, BuildsInv, NEW b \in Targets, NEW x, pc' = [pc EXCEPT ![b] = x],
         pc[b] \in {"itfs", "items", "copy", "merge", "save"},
         UNCHANGED <<script, step, gen, glob, globalCache>>, DOMAIN copied' = DOMAIN copied,
         Build(b) /\ BuildInv(b) /\ b \in Running' => BuildInv(b)'
  PROVE  BuildsInv'
<1>1. b \in Running /\ GlobalInv'
  BY GlobalKept, Zenon DEF Running, BuildsInv
<1>2. \A a \in Targets \ {b} : pc'[a] = pc[a]
  BY Zenon DEF IInv, TypeInv, TypeOK
<1>3. ASSUME Build(b) PROVE GenInv(b)' /\ (b \in Running' => BuildInv(b)')
  <2>1. GenInv(b) /\ BuildInv(b)
    BY <1>1, <1>3, Zenon DEF BuildsInv
  <2>2. GenInv(b)'
    BY <2>1, Zenon DEF GenInv
  <2> QED  BY <2>1, <2>2, <1>3, Zenon
<1> QED  BY <1>1, <1>2, <1>3, BuildsStep, Zenon

\* A target that fails or is killed.
LEMMA StopStep ==
  ASSUME IInv, BuildsInv, NEW b \in Targets, b \in Running, NEW x \in {"failed", "killed"},
         pc' = [pc EXCEPT ![b] = x], UNCHANGED <<script, step, gen, glob, globalCache, copied>>
  PROVE  BuildsInv'
<1>1. GlobalInv'
  BY GlobalKept, Zenon DEF BuildsInv
<1>2. pc'[b] = x /\ \A a \in Targets \ {b} : pc'[a] = pc[a]
  BY Zenon DEF IInv, TypeInv, TypeOK
<1>3. b \notin Running'
  BY <1>2, Zenon DEF Running
<1>4. ASSUME Build(b) PROVE GenInv(b)'
  BY <1>2, <1>4, Zenon DEF BuildsInv, GenInv
<1> QED  BY <1>1, <1>2, <1>3, <1>4, BuildsStep, Zenon

\* The script of a target that runs, and the file it registers.
LEMMA TargetFacts ==
  ASSUME IInv, NEW b \in Targets, pc[b] \in Active
  PROVE  /\ script[b] \in Seq(Operation) /\ step[b] \in Nat /\ 1 <= step[b]
         /\ step[b] <= Len(script[b]) /\ Op(b) = script[b][step[b]]
         /\ item[b] \in Nat /\ 1 <= item[b]
         /\ Op(b).op = "register" =>
              /\ Op(b).file \in SourceFiles /\ Len(FileItems[Op(b).file]) \in Nat
              /\ Items(Op(b).file) \subseteq ScriptSources(script[b])
<1>1. /\ script[b] \in Seq(Operation) /\ step[b] \in Nat \ {0} /\ item[b] \in Nat \ {0}
      /\ step[b] <= Len(script[b]) /\ Op(b) = script[b][step[b]] /\ TypeInv
  BY Zenon DEF IInv, TypeInv, TypeOK, ScriptInv, Op
<1>2. 1 <= step[b] /\ 1 <= item[b] /\ step[b] \in 1..Len(script[b])
  <2> HIDE DEF Operation
  <2> QED  BY <1>1
<1>3. ASSUME Op(b).op = "register"
      PROVE  /\ Op(b).file \in SourceFiles /\ Len(FileItems[Op(b).file]) \in Nat
             /\ Items(Op(b).file) \subseteq ScriptSources(script[b])
  <2>1. Op(b).file \in SourceFiles
    BY <1>1, <1>3, OpType, Zenon
  <2>2. FileItems[Op(b).file] \in Seq(Item)
    BY <2>1, ItemsAssumption, Zenon
  <2>3. Len(FileItems[Op(b).file]) \in Nat
    <3> HIDE DEF Item
    <3> QED  BY <2>2
  <2>4. \A x \in Items(Op(b).file) : x \in ScriptSources(script[b])
    BY <1>1, <1>2, <1>3, SourcesAs, Zenon
  <2> QED  BY <2>1, <2>3, <2>4, Zenon
<1> QED  BY <1>1, <1>2, <1>3, Zenon

\* The order of the commands of a build.
LEMMA BuildOps ==
  ASSUME NEW s \in Seq(Operation), IsBuild(s), NEW n \in Nat, 1 <= n, n <= Len(s)
  PROVE  /\ n = 1 => s[n].op = "clear" /\ n < Len(s)
         /\ n > 1 => s[n].op \in {"register", "generate"}
         /\ s[n].op = "register" => n < Len(s)
         /\ n > 1 /\ s[n - 1].op = "generate" => s[n].op = "generate"
         /\ s[n].op = "generate" => \A i \in n..Len(s) : s[i].op = "generate"
<1> HIDE DEF Operation
<1>1. PICK m \in 2..Len(s) :
        /\ s[1].op = "clear"
        /\ \A i \in 2..(m - 1) : s[i].op = "register"
        /\ \A i \in m..Len(s) : s[i].op = "generate"
  BY Zenon DEF IsBuild
<1>2. n = 1 \/ (n > 1 /\ n \in 2..(m - 1) /\ n < Len(s)) \/ (n > 1 /\ n \in m..Len(s))
  OBVIOUS
<1>3. CASE n = 1
  <2>1. 1 < Len(s)
    BY <1>1
  <2> QED  BY <1>1, <1>3, <2>1
<1>4. CASE n > 1 /\ n \in 2..(m - 1) /\ n < Len(s)
  <2>1. s[n].op = "register" /\ n # 1
    BY <1>1, <1>4
  <2>2. n - 1 = 1 \/ n - 1 \in 2..(m - 1)
    BY <1>4
  <2>3. s[n - 1].op # "generate"
    BY <1>1, <2>2, Zenon
  <2> QED  BY <1>4, <2>1, <2>3, Zenon
<1>5. CASE n > 1 /\ n \in m..Len(s)
  <2>1. s[n].op = "generate" /\ n # 1
    BY <1>1, <1>5
  <2>2. \A i \in n..Len(s) : i \in m..Len(s)
    BY <1>5
  <2> QED  BY <1>1, <1>5, <2>1, <2>2, Zenon
<1> QED  BY <1>2, <1>3, <1>4, <1>5, Zenon

\* DiffFiles of a target is Diff of its differential cache.
LEMMA DiffAs ==
  ASSUME NEW b
  PROVE  DiffFiles(b) = Diff(temp[b], Op(b).file)
<1> DEFINE I == {<<ItfName(i), <<Op(b).file, 0>>>> : i \in temp[b].itfs}
           G == {<<GlobName(g), g.src>> : g \in Entries(temp[b].globs)}
           G1 == {<<GlobName(temp[b].globs[i]), temp[b].globs[i].src>> : i \in 1..Len(temp[b].globs)}
           S(c) == {<<ChunkName(c, k), k.src>> : k \in Entries(temp[b].chunks[c])}
           S1(c) == {<<ChunkName(c, temp[b].chunks[c][i]), temp[b].chunks[c][i].src>> :
                        i \in 1..Len(temp[b].chunks[c])}
<1>1. G1 = G
  BY Zenon DEF Entries
<1>2. \A c : S1(c) = S(c)
  BY Zenon DEF Entries
<1>3. /\ DiffFiles(b) = I \cup G1 \cup UNION {S1(c) : c \in Pointcuts}
      /\ Diff(temp[b], Op(b).file) = I \cup G \cup UNION {S(c) : c \in Pointcuts}
  BY Zenon DEF DiffFiles, Diff
<1> HIDE DEF I, G, G1, S, S1
<1>4. {S1(c) : c \in Pointcuts} = {S(c) : c \in Pointcuts}
  BY <1>2, Zenon
<1> QED  BY <1>1, <1>3, <1>4, Zenon

\* Where the global code of a session comes from.
LEMMA SessionGlobsAs ==
  ASSUME IInv, NEW b \in Targets, merged[b]
  PROVE  Entries(SessionGlobs(b))
           = Entries(glob[b].globs) \cup Entries(loc[b].globs) \cup Entries(temp[b].globs)
<1>1. glob[b].globs \in Seq(Glob) /\ loc[b].globs \in Seq(Glob) /\ temp[b].globs \in Seq(Glob)
  BY CachesSound, Zenon DEF Sound, Cache
<1>2. glob[b].globs \o loc[b].globs \in Seq(Glob)
  <2> HIDE DEF Glob
  <2> QED  BY <1>1
<1>3. SessionGlobs(b) = (glob[b].globs \o loc[b].globs) \o temp[b].globs
  BY Zenon DEF SessionGlobs
<1> HIDE DEF Glob
<1>4. Entries(glob[b].globs \o loc[b].globs) = Entries(glob[b].globs) \cup Entries(loc[b].globs)
  BY <1>1, EntriesConcat, Zenon
<1>5. Entries((glob[b].globs \o loc[b].globs) \o temp[b].globs)
        = Entries(glob[b].globs \o loc[b].globs) \cup Entries(temp[b].globs)
  <2> DEFINE u == glob[b].globs \o loc[b].globs
             v == temp[b].globs
  <2>1. u \in Seq(Glob) /\ v \in Seq(Glob)
    BY <1>1, <1>2, Zenon
  <2> HIDE DEF u, v
  <2>2. Entries(u \o v) = Entries(u) \cup Entries(v)
    BY <2>1, EntriesConcat, Zenon
  <2> QED  BY <2>2, Zenon DEF u, v
<1> QED  BY <1>3, <1>4, <1>5, Zenon

\* The empty cache has all items of the empty set.
LEMMA EmptyFull ==
  ASSUME NEW s, NEW K, NEW l
  PROVE  Full(EmptyCache, {}, s, K, l)
<1>1. /\ \A p \in Protos : Entries(EmptyCache.tpls[p]) = {}
      /\ \A c \in Pointcuts : Entries(EmptyCache.chunks[c]) = {}
      /\ Entries(EmptyCache.globs) = {}
  BY EntriesEmpty, Zenon DEF EmptyCache
<1> QED  BY <1>1, Zenon DEF Full, TablesFrom, AllTpls, ChunksInLib, GlobsFrom, AllGlobs, GlobsInLib

\* The registration of a file starts with an empty differential cache.
LEMMA StartRegistration ==
  ASSUME NEW C, NEW X, NEW f, NEW s, NEW K, NEW l, Full(C, X, s, K, l),
         Len(FileItems[f]) \in Nat
  PROVE  Registration(EmptyCache, C, X, f, 1, {}, s, K, l)
<1>1. /\ \A p \in Protos : Entries(EmptyCache.tpls[p]) = {}
      /\ \A c \in Pointcuts : Entries(EmptyCache.chunks[c]) = {}
      /\ Entries(EmptyCache.globs) = {}
  BY EntriesEmpty, Zenon DEF EmptyCache
<1>2. ItemsTo(f, 1) = {} /\ 1..Len(EmptyCache.globs) = {}
  <2>1. 1 \in Nat /\ 1..Len(<< >>) = {}
    OBVIOUS
  <2> QED  BY <2>1, ItemsToFacts, Zenon DEF EmptyCache
<1>3. TablesFrom(EmptyCache, {}) /\ AllTpls(EmptyCache, {}) /\ GlobsFrom({}, {}, s, K)
  BY <1>1, Zenon DEF TablesFrom, AllTpls, GlobsFrom
<1>4. AllGlobs(Entries(C.globs) \cup {}, X \cup {}, s, K)
  <2>1. Entries(C.globs) \cup {} = Entries(C.globs) /\ X \cup {} = X
    BY Zenon
  <2> QED  BY <2>1, Zenon DEF Full
<1>5. TempInv(EmptyCache, C, X, {}, s, K)
  BY <1>1, <1>2, <1>3, <1>4, Zenon DEF TempInv
<1>6. 1 <= Len(FileItems[f]) + 1
  OBVIOUS
<1> QED  BY <1>2, <1>5, <1>6, Zenon DEF Registration

\* The next state of an invocation that registers.
LEMMA RegsIntro ==
  ASSUME NEW b, NEW x, x = pc'[b], x \in {"itfs", "items", "copy"},
         script' = script, step' = step, glob'[b] = Inst(globalCache'), merged'[b],
         \A p \in Protos : done'[b][p] = 0,
         Registration(temp'[b], loc'[b], Before(script[b], step[b]), Op(b).file, item'[b],
                      copied'[b], script[b], Known(Inst(globalCache')), lib'),
         x \in {"itfs", "items"} => copied'[b] = {},
         x = "copy" => item'[b] = Len(FileItems[Op(b).file]) + 1
  PROVE  BuildInv(b)'
<1>1. Op(b)' = Op(b)
  BY Zenon DEF Op
<1>2. Regs(b)'
  BY <1>1, Zenon DEF Regs
<1> QED  BY <1>1, <1>2, Zenon DEF BuildInv

LEMMA LoadCacheBuild ==
  ASSUME IInv, BuildsInv, NEW b \in Targets, LoadCache(b)
  PROVE  BuildsInv'
<1> DEFINE g == IF Readable(globalCache) THEN globalCache ELSE EmptyCache
           l == IF Readable(localCache) THEN localCache ELSE EmptyCache
           s == script[b]
           n == step[b]
<1>0. pc[b] = "load" /\ b \in Running /\ UNCHANGED <<localCache, globalCache, lib, glib, script,
                                                     step, kills, gen>>
  BY Zenon DEF LoadCache, Running, disk, memory
<1>1. CASE Readable(localCache) /\ MergeConflict(g, l)
  <2>1. pc' = [pc EXCEPT ![b] = "failed"] /\ UNCHANGED <<glob, copied>>
    BY <1>1, Zenon DEF LoadCache, Fail, memory
  <2> QED  BY <1>0, <2>1, StopStep, Zenon
<1>2. CASE ~ (Readable(localCache) /\ MergeConflict(g, l))
  <2>1. /\ glob' = [glob EXCEPT ![b] = g]
        /\ loc' = [loc EXCEPT ![b] = IF Op(b).op = "clear" THEN EmptyCache ELSE l]
        /\ merged' = [merged EXCEPT ![b] = Readable(localCache)]
        /\ temp' = [temp EXCEPT ![b] = EmptyCache]
        /\ item' = [item EXCEPT ![b] = 1]
        /\ copied' = [copied EXCEPT ![b] = {}]
        /\ done' = [done EXCEPT ![b] = [p \in Protos |-> 0]]
        /\ pc' = [pc EXCEPT ![b] = AfterLoad(Op(b).op)]
    BY <1>2, Zenon DEF LoadCache
  <2>2. /\ glob'[b] = Inst(globalCache)
        /\ loc'[b] = IF Op(b).op = "clear" THEN EmptyCache ELSE l
        /\ merged'[b] = Readable(localCache) /\ temp'[b] = EmptyCache /\ item'[b] = 1
        /\ \A p \in Protos : done'[b][p] = 0
        /\ pc'[b] = AfterLoad(Op(b).op)
        /\ \A a \in Targets \ {b} : pc'[a] = pc[a] /\ glob'[a] = glob[a]
    BY <2>1, Zenon DEF IInv, TypeInv, TypeOK, Inst
  <2> HIDE DEF g
  <2>3. GlobalInv'
    BY <1>0, <2>2, Zenon DEF GlobalInv, BuildsInv
  <2>4. /\ s \in Seq(Operation) /\ n \in Nat /\ 1 <= n /\ n <= Len(s) /\ Op(b) = s[n]
        /\ Op(b).op = "register" => Len(FileItems[Op(b).file]) \in Nat
    BY <1>0, TargetFacts, Zenon DEF Active
  <2>5. ASSUME Build(b) PROVE GenInv(b)'
    <3> SUFFICES ASSUME gen[b].ran PROVE GenInv(b)'
      BY <1>0, Zenon DEF GenInv
    <3>1. /\ Built(gen[b], glob[b], s, s[n - 1].config) /\ n > 1 /\ s[n - 1].op = "generate"
          /\ glob[b] = Inst(globalCache)
      BY <1>0, <2>5, Zenon DEF BuildsInv, GenInv
    <3>2. s[n].op = "generate"
      BY <2>4, <2>5, <3>1, BuildOps, Zenon DEF Build
    <3>3. pc'[b] = "gen" /\ glob'[b] = glob[b]
      BY <2>2, <2>4, <3>1, <3>2, ZenonT(30) DEF AfterLoad
    <3> QED  BY <1>0, <2>2, <3>1, <3>3, Zenon DEF GenInv
  <2>6. ASSUME Build(b) PROVE BuildInv(b)'
    <3>0. BuildInv(b)
      BY <1>0, <2>6, Zenon DEF BuildsInv
    <3>1. CASE n = 1
      <4>0. IsBuild(s)
        BY <2>6, Zenon DEF Build
      <4>1. Op(b).op = "clear" /\ n < Len(s) /\ s[n].op # "register"
        BY <2>4, <3>1, <4>0, BuildOps
      <4>2. Before(s, n + 1) = {}
        BY <2>4, <3>1, <4>1, BeforeFirst, BeforeNext, Zenon
      <4>3. pc'[b] = "save" /\ loc'[b] = EmptyCache
        BY <2>2, <4>1, Zenon DEF AfterLoad
      <4>4. Full(loc'[b], Before(s, n + 1), s, Known(Inst(globalCache)), lib)
        BY <4>2, <4>3, EmptyFull, Zenon
      <4> QED  BY <1>0, <2>2, <4>1, <4>3, <4>4, Zenon DEF BuildInv, Op
    <3>2. CASE n > 1
      <4>1. Readable(localCache) /\ Full(localCache, Before(s, n), s, Known(Inst(globalCache)), lib)
        BY <1>0, <3>0, <3>2, Zenon DEF BuildInv
      <4>2. s[n].op \in {"register", "generate"}
        BY <2>4, <2>6, <3>2, BuildOps, Zenon DEF Build
      <4>3. loc'[b] = localCache /\ merged'[b]
        BY <2>2, <2>4, <4>1, <4>2, ZenonT(30)
      <4>4. CASE s[n].op = "register"
        <5>1. pc'[b] = "itfs"
          BY <2>2, <2>4, <4>4, Zenon DEF AfterLoad
        <5>2. copied'[b] = {}
          BY <2>1, Zenon DEF BuildsInv
        <5>3. Registration(EmptyCache, localCache, Before(s, n), Op(b).file, 1, {}, s,
                           Known(Inst(globalCache)), lib)
          BY <2>4, <4>1, <4>4, StartRegistration, Zenon
        <5>4. Registration(temp'[b], loc'[b], Before(s, n), Op(b).file, item'[b], copied'[b], s,
                           Known(Inst(globalCache')), lib')
          BY <1>0, <2>2, <4>3, <5>2, <5>3, Zenon
        <5>5. glob'[b] = Inst(globalCache')
          BY <1>0, <2>2, Zenon
        <5> QED  BY <1>0, <2>2, <4>3, <5>1, <5>2, <5>4, <5>5, RegsIntro, Zenon
      <4>5. CASE s[n].op = "generate"
        <5>1. pc'[b] = "gen"
          BY <2>2, <2>4, <4>5, Zenon DEF AfterLoad
        <5> QED  BY <1>0, <2>2, <2>4, <4>1, <4>3, <4>5, <5>1, ZenonT(30) DEF BuildInv, Op
      <4> QED  BY <4>2, <4>4, <4>5, Zenon
    <3> QED  BY <2>4, <3>1, <3>2
  <2>7. /\ \A a \in Targets \ {b} : step'[a] = step[a] /\ gen'[a] = gen[a]
        /\ DOMAIN copied' = DOMAIN copied /\ DOMAIN gen' = DOMAIN gen
    BY <1>0, <2>1, Zenon
  <2> QED  BY <1>0, <2>2, <2>3, <2>5, <2>6, <2>7, BuildsStep, ZenonT(30)
<1> QED  BY <1>1, <1>2, Zenon

\* Interfaces are not among the tables that a build is generated from.
LEMMA RegisterItfsBuild ==
  ASSUME IInv, BuildsInv, NEW b \in Targets, RegisterItfs(b)
  PROVE  BuildsInv'
<1>0. /\ pc[b] = "itfs"
      /\ UNCHANGED <<localCache, globalCache, lib, glib, script, step, kills, glob, loc, merged,
                     item, copied, done, gen>>
  BY Zenon DEF RegisterItfs, disk, memory
<1>1. CASE pc' = [pc EXCEPT ![b] = "failed"]
  BY <1>0, <1>1, StopStep, Zenon DEF Running
<1>2. CASE /\ temp' = [temp EXCEPT ![b].itfs = FileItfs[Op(b).file]]
           /\ pc' = [pc EXCEPT ![b] = "items"]
  <2>1. ASSUME BuildInv(b) PROVE BuildInv(b)'
    <3>1. Regs(b) /\ copied[b] = {}
      BY <1>0, <2>1, Zenon DEF BuildInv
    <3>2. /\ temp'[b].tpls = temp[b].tpls /\ temp'[b].chunks = temp[b].chunks
          /\ temp'[b].globs = temp[b].globs /\ pc'[b] = "items"
      <4>1. temp \in [Targets -> Cache] /\ pc'[b] = "items"
        BY <1>2, Zenon DEF IInv, TypeInv, TypeOK
      <4>2. temp'[b] = [temp[b] EXCEPT !.itfs = FileItfs[Op(b).file]] /\ temp[b] \in Cache
        BY <1>2, <4>1, Zenon
      <4> QED  BY <4>1, <4>2, Zenon DEF Cache
    <3>3. ASSUME NEW X, NEW Y, NEW s, NEW K, TempInv(temp[b], loc[b], X, Y, s, K)
          PROVE  TempInv(temp'[b], loc[b], X, Y, s, K)
      BY <3>2, <3>3, Zenon DEF TempInv, TablesFrom, AllTpls, HasTpl
    <3>4. Registration(temp'[b], loc[b], Before(script[b], step[b]), Op(b).file, item[b],
                       {}, script[b], Known(Inst(globalCache)), lib)
      BY <3>1, <3>3, Zenon DEF Regs, Registration
    <3>5. Registration(temp'[b], loc'[b], Before(script[b], step[b]), Op(b).file, item'[b],
                       copied'[b], script[b], Known(Inst(globalCache')), lib')
      BY <1>0, <3>1, <3>4, Zenon
    <3>6. glob'[b] = Inst(globalCache') /\ merged'[b] /\ \A p \in Protos : done'[b][p] = 0
      BY <1>0, <3>1, Zenon DEF Regs
    <3>7. pc'[b] # "copy" /\ copied'[b] = {}
      BY <1>0, <3>1, <3>2, Zenon
    <3> QED  BY <1>0, <3>2, <3>5, <3>6, <3>7, RegsIntro, Zenon
  <2> QED  BY <1>0, <1>2, <2>1, InnerStep, Zenon
<1> QED  BY <1>1, <1>2, Zenon DEF RegisterItfs, Fail

\* The item that is registered next.
LEMMA NextItemAs ==
  ASSUME IInv, NEW b \in Targets, NEW kind, Registering(b, kind)
  PROVE  /\ <<Op(b).file, item[b]>> \in Items(Op(b).file)
         /\ ItemAt(<<Op(b).file, item[b]>>) = NextItem(b) /\ NextItem(b).kind = kind
         /\ item[b] <= Len(FileItems[Op(b).file]) /\ <<Op(b).file, item[b]>>[2] = item[b]
         /\ ItemsTo(Op(b).file, item[b] + 1)
              = ItemsTo(Op(b).file, item[b]) \cup {<<Op(b).file, item[b]>>}
         /\ ItemsTo(Op(b).file, item[b]) \subseteq Items(Op(b).file)
         /\ pc = [pc EXCEPT ![b] = "items"] /\ pc[b] = "items" /\ Op(b).op = "register"
<1> DEFINE x == <<Op(b).file, item[b]>>
<1>1. pc[b] = "items" /\ item[b] <= Len(FileItems[Op(b).file]) /\ NextItem(b).kind = kind
  BY Zenon DEF Registering
<1>2. /\ Op(b).op = "register" /\ item[b] \in Nat /\ 1 <= item[b]
      /\ Len(FileItems[Op(b).file]) \in Nat
  BY <1>1, TargetFacts, Zenon DEF Active, IInv, TypeInv, ScriptInv
<1>3. x[1] = Op(b).file /\ x[2] = item[b]
  OBVIOUS
<1>4. ItemAt(x) = NextItem(b)
  <2> HIDE DEF x
  <2> QED  BY <1>3, Zenon DEF ItemAt, NextItem
<1>5. pc = [pc EXCEPT ![b] = "items"]
  <2>1. pc \in [Targets -> {"idle", "load", "itfs", "items", "copy", "merge", "save", "write",
                            "gen", "install", "failed", "killed", "done"}]
    BY Zenon DEF IInv, TypeInv, TypeOK
  <2> QED  BY <1>1, <2>1
<1> QED  BY <1>1, <1>2, <1>3, <1>4, <1>5, ItemsToFacts, Zenon

\* The next state after an item is registered.
LEMMA NextItemStep ==
  ASSUME IInv, BuildsInv, NEW b \in Targets, NEW kind, Registering(b, kind),
         UNCHANGED <<localCache, globalCache, lib, glib, pc, script, step, kills, glob, loc,
                     merged, copied, done, gen>>,
         item' = [item EXCEPT ![b] = @ + 1],
         Build(b) /\ Regs(b) =>
           TempInv(temp'[b], loc[b], Before(script[b], step[b]),
                   ItemsTo(Op(b).file, item[b]) \cup {<<Op(b).file, item[b]>>}, script[b],
                   Known(Inst(globalCache)))
  PROVE  BuildsInv'
<1>1. /\ pc = [pc EXCEPT ![b] = "items"] /\ pc[b] = "items" /\ Op(b).op = "register"
      /\ ItemsTo(Op(b).file, item[b] + 1)
           = ItemsTo(Op(b).file, item[b]) \cup {<<Op(b).file, item[b]>>}
      /\ item[b] <= Len(FileItems[Op(b).file])
  BY NextItemAs, Zenon
<1>2. item'[b] = item[b] + 1
  BY Zenon DEF IInv, TypeInv, TypeOK
<1>3. item[b] \in Nat /\ Len(FileItems[Op(b).file]) \in Nat
  BY <1>1, TargetFacts, ZenonT(30) DEF Active
<1>4. item[b] + 1 <= Len(FileItems[Op(b).file]) + 1
  BY <1>1, <1>3
<1>5. ASSUME Build(b), BuildInv(b) PROVE BuildInv(b)'
  <2>1. Regs(b) /\ copied[b] = {}
    BY <1>1, <1>5, Zenon DEF BuildInv
  <2>2. Registration(temp'[b], loc[b], Before(script[b], step[b]), Op(b).file, item[b] + 1,
                     {}, script[b], Known(Inst(globalCache)), lib)
    BY <1>1, <1>4, <1>5, <2>1, Zenon DEF Regs, Registration
  <2>3. Registration(temp'[b], loc'[b], Before(script[b], step[b]), Op(b).file, item'[b],
                     copied'[b], script[b], Known(Inst(globalCache')), lib')
    BY <1>2, <2>1, <2>2, Zenon
  <2>4. glob'[b] = Inst(globalCache') /\ merged'[b] /\ \A p \in Protos : done'[b][p] = 0
    BY <2>1, Zenon DEF Regs
  <2>5. pc'[b] = "items" /\ copied'[b] = {}
    BY <1>1, <2>1, Zenon
  <2> QED  BY <2>3, <2>4, <2>5, RegsIntro, Zenon
<1>6. pc' = [pc EXCEPT ![b] = "items"]
  BY <1>1, Zenon
<1> QED  BY <1>1, <1>5, <1>6, InnerStep, Zenon

LEMMA RegisterGlobalCodeBuild ==
  ASSUME IInv, BuildsInv, NEW b \in Targets, RegisterGlobalCode(b)
  PROVE  BuildsInv'
<1> DEFINE s == script[b]
           n == step[b]
           f == Op(b).file
           x == <<f, item[b]>>
           X == Before(s, n)
           Y == ItemsTo(f, item[b])
           K == Known(Inst(globalCache))
           T == temp[b]
           C == loc[b]
           known == \E i \in 1..Len(SessionGlobs(b)) : SessionGlobs(b)[i].itf = NextItem(b).itf
           e == [itf |-> NextItem(b).itf, with |-> NextItem(b).with, src |-> x,
                 idx |-> Len(temp[b].globs)]
<1>1. /\ Registering(b, "glob") /\ item' = [item EXCEPT ![b] = @ + 1]
      /\ temp' = IF known THEN temp ELSE [temp EXCEPT ![b].globs = Append(@, e)]
      /\ UNCHANGED <<localCache, globalCache, lib, glib, pc, script, step, kills, glob, loc,
                     merged, copied, done, gen>>
  BY Zenon DEF RegisterGlobalCode, disk, memory
<1>2. /\ x \in Items(f) /\ ItemAt(x) = NextItem(b) /\ ItemAt(x).kind = "glob"
      /\ pc[b] = "items" /\ Op(b).op = "register" /\ Y = ItemsTo(f, x[2]) /\ x[2] = item[b]
      /\ item[b] <= Len(FileItems[f])
  BY <1>1, NextItemAs
<1>3. /\ s \in Seq(Operation) /\ n \in Nat /\ 1 <= n /\ n <= Len(s) /\ Op(b) = s[n]
      /\ item[b] \in Nat /\ 1 <= item[b] /\ f \in SourceFiles
  BY <1>2, TargetFacts, Zenon DEF Active
<1>4. ASSUME Build(b), Regs(b) PROVE TempInv(temp'[b], C, X, Y \cup {x}, s, K)
  <2>1. Full(C, X, s, K, lib) /\ TempInv(T, C, X, Y, s, K) /\ K = Known(glob[b]) /\ merged[b]
    BY <1>4, Zenon DEF Regs, Registration
  <2>2. known <=> \/ ItemAt(x).itf \in K
                  \/ \E g \in Entries(C.globs) \cup Entries(T.globs) : g.itf = ItemAt(x).itf
    <3>1. known <=> \E g \in Entries(SessionGlobs(b)) : g.itf = ItemAt(x).itf
      BY <1>2, Zenon DEF Entries
    <3>2. Entries(SessionGlobs(b))
            = Entries(glob[b].globs) \cup Entries(loc[b].globs) \cup Entries(temp[b].globs)
      BY <2>1, SessionGlobsAs, Zenon
    <3>3. ItemAt(x).itf \in K <=> \E g \in Entries(glob[b].globs) : g.itf = ItemAt(x).itf
      BY <2>1, Zenon DEF Known
    <3> HIDE DEF known, K, x
    <3> QED  BY <3>1, <3>2, <3>3, Zenon
  <2>3. f = s[n].file /\ s[n].op = "register"
    BY <1>2, <1>3, Zenon
  <2>4. CASE known
    <3>1. temp'[b] = T
      BY <1>1, <2>4, Zenon
    <3>2. GlobsFrom(Entries(C.globs), X, s, K)
      BY <2>1, Zenon DEF Full
    <3> HIDE DEF known, x, X, Y, K, T, C, s, n, f
    <3>3. /\ X = Before(s, n) /\ Y = ItemsTo(s[n].file, x[2]) /\ x \in Items(s[n].file)
      BY <1>2, <2>3, ZenonT(30) DEF X
    <3>4. TempInv(T, C, X, Y \cup {x}, s, K)
      BY <1>2, <1>3, <2>1, <2>2, <2>3, <2>4, <3>2, <3>3, RegisterGlobDropped
    <3> QED  BY <3>1, <3>4, Zenon
  <2>5. CASE ~ known
    <3>1. T \in Cache /\ temp'[b] = [T EXCEPT !.globs = Append(@, e)]
      BY <1>1, <2>5, CachesSound, Zenon DEF IInv, TypeInv, TypeOK
    <3>2. T.globs \in Seq(Glob)
      BY <3>1, Zenon DEF Cache
    <3>3. Len(T.globs) \in Nat
      <4> HIDE DEF Glob
      <4> QED  BY <3>2
    <3>4. e \in Glob
      <4>1. ItemAt(x) \in Item
        BY <1>2, <1>3, ItemTypes, Zenon
      <4>2. NextItem(b).itf \in Itfs /\ NextItem(b).with \in Withs
        BY <1>2, <4>1, Zenon DEF Item
      <4>3. item[b] \in Nat \ {0}
        BY <1>3
      <4> QED  BY <1>3, <3>3, <4>2, <4>3, Zenon DEF Glob, Source
    <3>5. /\ temp'[b].tpls = T.tpls /\ temp'[b].chunks = T.chunks
          /\ temp'[b].globs = Append(T.globs, e)
      BY <3>1, Zenon DEF Cache
    <3>6. e.itf = ItemAt(x).itf /\ e.with = ItemAt(x).with /\ e.src = x /\ e.idx = Len(T.globs)
      BY <1>2, Zenon
    <3> HIDE DEF e
    <3>7. /\ Len(temp'[b].globs) = Len(T.globs) + 1
          /\ \A i \in 1..Len(T.globs) : temp'[b].globs[i] = T.globs[i]
          /\ temp'[b].globs[Len(T.globs) + 1] = e
      <4>1. /\ Len(Append(T.globs, e)) = Len(T.globs) + 1
            /\ \A i \in 1..Len(T.globs) : Append(T.globs, e)[i] = T.globs[i]
            /\ Append(T.globs, e)[Len(T.globs) + 1] = e
        <5> HIDE DEF Glob
        <5> QED  BY <3>2, <3>4
      <4> QED  BY <3>5, <4>1, Zenon
    <3>8. /\ ItemAt(x).itf \notin K
          /\ \A g \in Entries(C.globs) \cup Entries(T.globs) : g.itf # ItemAt(x).itf
      BY <2>2, <2>5, Zenon
    <3> HIDE DEF known, x, X, Y, K, T, C, s, n, f
    <3>9. /\ X = Before(s, n) /\ Y = ItemsTo(s[n].file, x[2]) /\ x \in Items(s[n].file)
      BY <1>2, <2>3, Zenon DEF X
    <3> QED  BY <1>2, <1>3, <2>1, <2>3, <3>3, <3>5, <3>6, <3>7, <3>8, <3>9, RegisterGlobKept,
                 ZenonT(30)
  <2> QED  BY <2>4, <2>5, Zenon
<1> QED  BY <1>1, <1>4, NextItemStep, Zenon

LEMMA RegisterTemplateBuild ==
  ASSUME IInv, BuildsInv, NEW b \in Targets, RegisterTemplate(b)
  PROVE  BuildsInv'
<1> DEFINE f   == Op(b).file
           it  == NextItem(b)
           x   == <<f, item[b]>>
           X   == Before(script[b], step[b])
           Y   == ItemsTo(f, item[b])
           K   == Known(Inst(globalCache))
           t   == [with |-> it.with, src |-> x, mapped |-> it.mapped,
                   ids |-> [c \in Pointcuts |-> 0]]
           new == [c \in it.pcs |->
                     [proto |-> it.proto, src |-> x, idx |-> Len(temp[b].chunks[c])]]
<1>1. /\ Registering(b, "tpl") /\ item' = [item EXCEPT ![b] = @ + 1]
      /\ temp' = [temp EXCEPT ![b] = AddTemplate(@, it.proto, t, new)]
      /\ UNCHANGED <<localCache, globalCache, lib, glib, pc, script, step, kills, glob, loc,
                     merged, copied, done, gen>>
  BY Zenon DEF RegisterTemplate, CheckSingleTpl, disk, memory
<1>2. /\ it.proto \in Protos /\ it.pcs \in SUBSET Pointcuts
      /\ t \in Template /\ new \in [it.pcs -> Chunk]
      /\ \A c \in it.pcs : new[c].proto = it.proto /\ new[c].src = t.src
  BY <1>1, RegisterTypes, Zenon DEF IInv
<1>3. /\ x \in Items(f) /\ ItemAt(x) = it /\ ItemAt(x).kind = "tpl" /\ pc[b] = "items"
      /\ Op(b).op = "register" /\ Y \subseteq Items(f)
  <2>1. /\ x \in Items(f) /\ ItemAt(x) = it /\ it.kind = "tpl" /\ pc[b] = "items"
        /\ Op(b).op = "register"
    <3> HIDE DEF t, new
    <3> QED  BY <1>1, NextItemAs
  <2>2. Y \subseteq Items(f)
    <3> HIDE DEF t, new
    <3> QED  BY <1>1, NextItemAs, Zenon
  <2> HIDE DEF x, it
  <2> QED  BY <2>1, <2>2, Zenon
<1>4. t.src = x /\ t.with = it.with
  BY Zenon
<1>5. f \in SourceFiles
  BY <1>3, TargetFacts, Zenon DEF Active
<1>6. temp[b] \in Cache /\ temp'[b] = AddTemplate(temp[b], it.proto, t, new)
  BY <1>1, CachesSound, Zenon DEF IInv, TypeInv, TypeOK
<1>7. ASSUME Regs(b) PROVE TempInv(temp'[b], loc[b], X, Y \cup {x}, script[b], K)
  <2>1. TempInv(temp[b], loc[b], X, Y, script[b], K)
    BY <1>7, Zenon DEF Regs, Registration
  <2>2. \A y \in Y : ItemAt(y).kind = "tpl" => ItemAt(y).proto \in Protos
    BY <1>3, <1>5, ItemTypes, Zenon
  <2> HIDE DEF t, new, X, Y, x, it, K
  <2>3. PICK u : /\ Grows(temp[b], temp'[b], it.proto, u, it.pcs, new)
                 /\ u.src = t.src /\ u.with = t.with
                 /\ \A c \in Pointcuts : u.ids[c] # 0 <=> c \in it.pcs
    <3>1. NewChunks(new, it.pcs)
      BY <1>2, Zenon DEF NewChunks
    <3>2. AddsTo(temp[b], temp'[b], it.proto, t, it.pcs, new)
      BY <1>2, <1>6, <3>1, AddTemplateEntries, Zenon
    <3> QED  BY <3>2, Zenon DEF AddsTo
  <2>4. TplFrom(u, it.proto, Y \cup {x})
    BY <1>3, <1>4, <2>3, Zenon DEF TplFrom
  <2>5. \A c \in it.pcs : ChunkFrom(new[c], c, Y \cup {x})
    BY <1>2, <1>3, <1>4, Zenon DEF ChunkFrom
  <2>6. u.src = x /\ ItemAt(x).proto = it.proto
    BY <1>3, <1>4, <2>3, Zenon
  <2> QED  BY <1>2, <1>3, <2>1, <2>2, <2>3, <2>4, <2>5, <2>6, RegisterTplTemp, ZenonT(30)
<1> HIDE DEF t, new
<1> QED  BY <1>1, <1>7, NextItemStep, Zenon

LEMMA RegisterEndBuild ==
  ASSUME IInv, BuildsInv, NEW b \in Targets, RegisterEnd(b)
  PROVE  BuildsInv'
<1>0. /\ pc[b] = "items" /\ item[b] > Len(FileItems[Op(b).file])
      /\ pc' = [pc EXCEPT ![b] = "copy"]
      /\ UNCHANGED <<localCache, globalCache, lib, glib, script, step, kills, glob, loc, merged,
                     temp, item, copied, done, gen>>
  BY Zenon DEF RegisterEnd, disk, memory
<1>1. ASSUME BuildInv(b) PROVE BuildInv(b)'
  <2>1. Regs(b) /\ pc'[b] = "copy"
    BY <1>0, <1>1, Zenon DEF BuildInv, IInv, TypeInv, TypeOK
  <2>2. item[b] <= Len(FileItems[Op(b).file]) + 1
    BY <2>1, Zenon DEF Regs, Registration
  <2>3. item[b] \in Nat /\ Len(FileItems[Op(b).file]) \in Nat
    BY <1>0, TargetFacts, Zenon DEF Active, IInv, TypeInv, ScriptInv
  <2>4. item[b] = Len(FileItems[Op(b).file]) + 1
    BY <1>0, <2>2, <2>3
  <2>5. Registration(temp'[b], loc'[b], Before(script[b], step[b]), Op(b).file, item'[b],
                     copied'[b], script[b], Known(Inst(globalCache')), lib')
    BY <1>0, <2>1, Zenon DEF Regs
  <2>6. glob'[b] = Inst(globalCache') /\ merged'[b] /\ \A p \in Protos : done'[b][p] = 0
    BY <1>0, <2>1, Zenon DEF Regs
  <2>7. item'[b] = Len(FileItems[Op(b).file]) + 1
    BY <1>0, <2>4, Zenon
  <2> QED  BY <1>0, <2>1, <2>5, <2>6, <2>7, RegsIntro, ZenonT(30)
<1> QED  BY <1>0, <1>1, InnerStep, Zenon

LEMMA ValidateFileBuild ==
  ASSUME IInv, BuildsInv, NEW b \in Targets, ValidateFile(b)
  PROVE  BuildsInv'
<1>0. /\ pc[b] = "copy"
      /\ UNCHANGED <<localCache, globalCache, glib, pc, script, step, kills, glob, loc, merged,
                     temp, item, done, gen>>
  BY Zenon DEF ValidateFile, disk, memory
<1>1. PICK e \in DiffFiles(b) \ copied[b] :
        /\ lib' = WithFiles(lib, e)
        /\ copied' = [copied EXCEPT ![b] = @ \cup {e}]
  BY Zenon DEF ValidateFile
<1>2. pc = [pc EXCEPT ![b] = "copy"]
  <2>1. pc \in [Targets -> {"idle", "load", "itfs", "items", "copy", "merge", "save", "write",
                            "gen", "install", "failed", "killed", "done"}]
    BY Zenon DEF IInv, TypeInv, TypeOK
  <2> QED  BY <1>0, <2>1
<1>3. ASSUME Build(b), BuildInv(b) PROVE BuildInv(b)'
  <2>1. Regs(b) /\ Op(b).op = "register" /\ item[b] = Len(FileItems[Op(b).file]) + 1
    BY <1>0, <1>3, Zenon DEF BuildInv, IInv, TypeInv, ScriptInv
  <2>2. e \in Diff(temp[b], Op(b).file)
    BY <1>1, DiffAs, Zenon
  <2>3. step[b] \in Nat /\ Items(Op(b).file) \subseteq ScriptSources(script[b])
    BY <1>0, <2>1, TargetFacts, Zenon DEF Active
  <2>4. Registration(temp[b], loc[b], Before(script[b], step[b]), Op(b).file, item[b],
                     copied[b] \cup {e}, script[b], Known(Inst(globalCache)), lib')
    BY <1>1, <1>3, <2>1, <2>2, <2>3, ValidateStep, Zenon DEF Regs, Build
  <2>5. copied'[b] = copied[b] \cup {e}
    BY <1>1, Zenon DEF BuildsInv
  <2>6. Registration(temp'[b], loc'[b], Before(script[b], step[b]), Op(b).file, item'[b],
                     copied'[b], script[b], Known(Inst(globalCache')), lib')
    BY <1>0, <2>4, <2>5, Zenon
  <2>7. glob'[b] = Inst(globalCache') /\ merged'[b] /\ \A p \in Protos : done'[b][p] = 0
    BY <1>0, <2>1, Zenon DEF Regs
  <2>8. pc'[b] = "copy" /\ item'[b] = Len(FileItems[Op(b).file]) + 1
    BY <1>0, <2>1, Zenon
  <2> QED  BY <1>0, <2>6, <2>7, <2>8, RegsIntro, Zenon
<1>4. pc' = [pc EXCEPT ![b] = "copy"] /\ DOMAIN copied' = DOMAIN copied
  BY <1>0, <1>1, <1>2, Zenon
<1> QED  BY <1>0, <1>3, <1>4, InnerStep, Zenon

LEMMA MergeBeginBuild ==
  ASSUME IInv, BuildsInv, NEW b \in Targets, MergeBegin(b)
  PROVE  BuildsInv'
<1> DEFINE s == script[b]
           n == step[b]
           f == Op(b).file
           K == Known(Inst(globalCache))
<1>0. /\ pc[b] = "copy" /\ DiffFiles(b) \subseteq copied[b]
      /\ UNCHANGED <<localCache, globalCache, lib, glib, script, step, kills, glob, merged, temp,
                     item, copied, done, gen>>
  BY Zenon DEF MergeBegin, disk, memory
<1>1. CASE pc' = [pc EXCEPT ![b] = "failed"]
  BY <1>0, <1>1, StopStep, Zenon DEF Running
<1>2. CASE /\ loc' = [loc EXCEPT ![b].itfs = @ \cup temp[b].itfs, ![b].globs = @ \o temp[b].globs]
           /\ pc' = [pc EXCEPT ![b] = "merge"]
  <2>1. ASSUME BuildInv(b) PROVE BuildInv(b)'
    <3>1. /\ Regs(b) /\ Op(b).op = "register" /\ item[b] = Len(FileItems[f]) + 1
          /\ pc'[b] = "merge"
      BY <1>0, <1>2, <2>1, Zenon DEF BuildInv, IInv, TypeInv, TypeOK, ScriptInv
    <3>2. /\ s \in Seq(Operation) /\ n \in Nat /\ 1 <= n /\ n <= Len(s) /\ Op(b) = s[n]
          /\ f \in SourceFiles /\ Len(FileItems[f]) \in Nat /\ item[b] \in Nat
      BY <1>0, <3>1, TargetFacts, Zenon DEF Active
    <3>3. ItemsTo(f, item[b]) = Items(f)
      BY <3>1, <3>2, ItemsToFacts, Zenon
    <3>4. Before(s, n + 1) = Before(s, n) \cup Items(f)
      BY <3>1, <3>2, BeforeNext, Zenon
    <3>5. \A e \in Diff(temp[b], f) : InLib(lib, e[1], e[2])
      BY <1>0, <3>1, DiffAs, Zenon DEF Regs, Registration
    <3>6. loc[b] \in Cache /\ temp[b] \in Cache
      BY CachesSound, Zenon DEF Sound
    <3>7. /\ loc'[b].tpls = loc[b].tpls /\ loc'[b].chunks = loc[b].chunks
          /\ loc'[b].globs = loc[b].globs \o temp[b].globs
      <4>1. loc \in [Targets -> Cache]
        BY Zenon DEF IInv, TypeInv, TypeOK
      <4>2. loc'[b] = [loc[b] EXCEPT !.itfs = @ \cup temp[b].itfs, !.globs = @ \o temp[b].globs]
        BY <1>2, <4>1, Zenon
      <4> QED  BY <3>6, <4>2, Zenon DEF Cache
    <3>8. Entries(loc'[b].globs) = Entries(loc[b].globs) \cup Entries(temp[b].globs)
      <4>1. loc[b].globs \in Seq(Glob) /\ temp[b].globs \in Seq(Glob)
        BY <3>6, Zenon DEF Cache
      <4> HIDE DEF Glob
      <4>2. Entries(loc[b].globs \o temp[b].globs) = Entries(loc[b].globs) \cup Entries(temp[b].globs)
        BY <4>1, EntriesConcat, ZenonT(30)
      <4> QED  BY <3>7, <4>2, Zenon
    <3>9. \A p \in Protos : done[b][p] = 0 /\ Len(temp[b].tpls[p]) \in Nat
      <4>1. \A p \in Protos : temp[b].tpls[p] \in Seq(Template)
        BY <3>6, Zenon DEF Cache
      <4>2. \A p \in Protos : Len(temp[b].tpls[p]) \in Nat
        <5> HIDE DEF Template
        <5> QED  BY <4>1
      <4> QED  BY <3>1, <4>2, Zenon DEF Regs
    <3>10. Full(loc[b], Before(s, n), s, K, lib)
           /\ TempInv(temp[b], loc[b], Before(s, n), Items(f), s, K)
      BY <3>1, <3>3, Zenon DEF Regs, Registration
    <3> HIDE DEF s, n, f, K
    <3>11. MergeInv(loc'[b], temp[b], done[b], Before(s, n) \cup Items(f), Items(f), s, K, lib)
      BY <3>2, <3>5, <3>7, <3>8, <3>9, <3>10, MergeBeginStep, ZenonT(30)
    <3>12. MergeInv(loc'[b], temp'[b], done'[b], Before(s, n + 1), Items(f), s, K, lib')
      BY <1>0, <3>4, <3>11, Zenon
    <3> QED  BY <1>0, <3>1, <3>12, Zenon DEF BuildInv, Regs, Op, s, n, f, K
  <2> QED  BY <1>0, <1>2, <2>1, InnerStep, Zenon
<1> QED  BY <1>1, <1>2, Zenon DEF MergeBegin, Fail

\* The chunks that go along with a template are in the lists of the cache.
LEMMA TemplateChunksAs ==
  ASSUME NEW cache \in Cache, IdsRefer(cache), NEW p \in Protos, NEW i \in 1..Len(cache.tpls[p]),
         NEW t, t = cache.tpls[p][i], NEW new, new = TemplateChunks(cache, t),
         NEW S, S = Ids(t)
  PROVE  /\ t \in Template /\ NewChunks(new, S)
         /\ \A c \in S : new[c] \in Entries(cache.chunks[c])
<1>0. S = {c \in Pointcuts : t.ids[c] # 0}
  BY Zenon DEF Ids
<1>1. t \in Template /\ OwnChunks(new, p, t)
  BY TemplateChunksType, Zenon
<1>2. new = [c \in S |-> cache.chunks[c][t.ids[c]]] /\ S \in SUBSET Pointcuts
  BY <1>0, Zenon DEF TemplateChunks
<1>3. ASSUME NEW c \in S PROVE t.ids[c] \in 1..Len(cache.chunks[c])
  <2>1. c \in Pointcuts /\ t.ids[c] \in Nat /\ t.ids[c] # 0
    BY <1>0, <1>1, Zenon DEF Template
  <2>2. t.ids[c] <= Len(cache.chunks[c])
    BY <2>1, Zenon DEF IdsRefer
  <2>3. Len(cache.chunks[c]) \in Nat
    <3>1. cache.chunks[c] \in Seq(Chunk)
      BY <2>1, Zenon DEF Cache
    <3> HIDE DEF Chunk
    <3> QED  BY <3>1
  <2> QED  BY <2>1, <2>2, <2>3
<1>4. \A c \in S : new[c] \in Entries(cache.chunks[c])
  BY <1>2, <1>3, Zenon DEF Entries
<1>5. new \in [S -> Chunk]
  <2>1. PICK R \in SUBSET Pointcuts : new \in [R -> Chunk]
    BY <1>1, Zenon DEF OwnChunks
  <2>2. R = S
    BY <1>2, <2>1, Zenon
  <2> QED  BY <2>1, <2>2, Zenon
<1> QED  BY <1>1, <1>2, <1>4, <1>5, Zenon DEF NewChunks

LEMMA MergeTemplateBuild ==
  ASSUME IInv, BuildsInv, NEW b \in Targets, MergeTemplate(b)
  PROVE  BuildsInv'
<1>0. /\ pc[b] = "merge"
      /\ UNCHANGED <<localCache, globalCache, lib, glib, script, step, kills, glob, merged, temp,
                     item, copied, gen>>
  BY Zenon DEF MergeTemplate, disk, memory
<1>1. PICK p \in Protos :
        /\ done[b][p] < Len(temp[b].tpls[p])
        /\ LET t == temp[b].tpls[p][done[b][p] + 1]
               new == TemplateChunks(temp[b], t)
           IN  IF CheckTplConflict(loc[b].tpls[p], t.with)
               THEN Fail(b) /\ UNCHANGED <<loc, done>>
               ELSE /\ loc' = [loc EXCEPT ![b] = AddTemplate(@, p, t, new)]
                    /\ done' = [done EXCEPT ![b][p] = @ + 1]
                    /\ UNCHANGED pc
  BY Zenon DEF MergeTemplate
<1> DEFINE s == script[b]
           n == step[b]
           f == Op(b).file
           K == Known(Inst(globalCache))
           i == done[b][p] + 1
           t == temp[b].tpls[p][i]
           new == TemplateChunks(temp[b], t)
           S == Ids(t)
<1>2. CASE pc' = [pc EXCEPT ![b] = "failed"]
  BY <1>0, <1>2, StopStep, Zenon DEF Running
<1>3. CASE /\ loc' = [loc EXCEPT ![b] = AddTemplate(@, p, t, new)]
           /\ done' = [done EXCEPT ![b][p] = @ + 1]
           /\ UNCHANGED pc
  <2>0. /\ temp[b] \in Cache /\ IdsRefer(temp[b]) /\ loc[b] \in Cache
        /\ done \in [Targets -> [Protos -> Nat]] /\ loc \in [Targets -> Cache]
    BY CachesSound, Zenon DEF Sound, IInv, TypeInv, TypeOK
  <2>1. pc = [pc EXCEPT ![b] = "merge"]
    <3>1. pc \in [Targets -> {"idle", "load", "itfs", "items", "copy", "merge", "save", "write",
                              "gen", "install", "failed", "killed", "done"}]
      BY Zenon DEF IInv, TypeInv, TypeOK
    <3> QED  BY <1>0, <3>1
  <2>2. done[b] \in [Protos -> Nat] /\ done'[b] = [done[b] EXCEPT ![p] = done[b][p] + 1]
    BY <1>3, <2>0, ZenonT(30)
  <2>3. i \in 1..Len(temp[b].tpls[p]) /\ Len(temp[b].tpls[p]) \in Nat
    <3>1. temp[b].tpls[p] \in Seq(Template) /\ done[b][p] \in Nat
      BY <2>0, Zenon DEF Cache
    <3>2. Len(temp[b].tpls[p]) \in Nat
      <4> HIDE DEF Template
      <4> QED  BY <3>1
    <3> QED  BY <1>1, <3>1, <3>2
  <2>4. loc'[b] = AddTemplate(loc[b], p, t, new)
    BY <1>3, <2>0, Zenon
  <2>5. /\ t \in Template /\ NewChunks(new, S)
        /\ \A c \in S : new[c] \in Entries(temp[b].chunks[c])
    <3> HIDE DEF i
    <3>1. t = temp[b].tpls[p][i] /\ new = TemplateChunks(temp[b], t) /\ S = Ids(t)
      BY Zenon
    <3> HIDE DEF t, new, S
    <3> QED  BY <2>0, <2>3, <3>1, TemplateChunksAs, Zenon
  <2>6. ASSUME Build(b), BuildInv(b) PROVE BuildInv(b)'
    <3>1. /\ MergeInv(loc[b], temp[b], done[b], Before(s, n + 1), Items(f), s, K, lib)
          /\ Op(b).op = "register"
      BY <1>0, <2>6, Zenon DEF BuildInv, IInv, TypeInv, ScriptInv
    <3>2. /\ s \in Seq(Operation) /\ n \in Nat /\ 1 <= n /\ n <= Len(s) /\ Op(b) = s[n]
      BY <1>0, TargetFacts, Zenon DEF Active
    <3>3. Items(f) \subseteq Before(s, n + 1)
      BY <3>1, <3>2, BeforeNext, Zenon
    <3>4. \A x \in Before(s, n + 1) : ItemAt(x).kind = "tpl" => ItemAt(x).proto \in Protos
      BY <3>2, ScriptItemTypes, Zenon DEF Before
    <3>5. t = temp[b].tpls[p][i] /\ S = Ids(t) /\ i = done[b][p] + 1
      BY Zenon
    <3> HIDE DEF i, t, new, S, s, n, f, K
    <3>6. AddsTo(loc[b], loc'[b], p, t, S, new)
      BY <2>0, <2>4, <2>5, AddTemplateEntries, Zenon
    <3>7. MergeInv(loc'[b], temp[b], done'[b], Before(s, n + 1), Items(f), s, K, lib)
      <4> DEFINE C == loc[b]
                 D == loc'[b]
                 T == temp[b]
                 d == done[b]
                 dn == done'[b]
                 X == Before(s, n + 1)
                 Y == Items(f)
      <4>1. /\ MergeInv(C, T, d, X, Y, s, K, lib) /\ Y \subseteq X
            /\ \A x \in X : ItemAt(x).kind = "tpl" => ItemAt(x).proto \in Protos
        BY <3>1, <3>3, <3>4, Zenon
      <4>2. /\ AddsTo(C, D, p, t, S, new) /\ i \in 1..Len(T.tpls[p]) /\ Len(T.tpls[p]) \in Nat
            /\ t = T.tpls[p][i] /\ S = Ids(t) /\ i = d[p] + 1
            /\ \A c \in S : new[c] \in Entries(T.chunks[c])
            /\ \A q \in Protos : d[q] \in Nat
            /\ dn[p] = d[p] + 1 /\ \A q \in Protos \ {p} : dn[q] = d[q]
        BY <2>2, <2>3, <2>5, <3>5, <3>6, ZenonT(30)
      <4> HIDE DEF C, D, T, d, dn, X, Y
      <4>3. Merges(C, D, T, d, dn, p, new)
        BY <4>2, Zenon DEF Merges
      <4>4. MergeInv(D, T, dn, X, Y, s, K, lib)
        BY <4>1, <4>3, MergeTemplateStep, ZenonT(30)
      <4> QED  BY <4>4, Zenon DEF D, T, dn, X, Y
    <3> QED  BY <1>0, <1>3, <2>6, <3>7, ZenonT(30) DEF BuildInv, Regs, Op, s, n, f, K
  <2> QED  BY <1>0, <1>3, <2>1, <2>6, InnerStep, Zenon
<1> QED  BY <1>1, <1>2, <1>3, Zenon DEF Fail

LEMMA MergeEndBuild ==
  ASSUME IInv, BuildsInv, NEW b \in Targets, MergeEnd(b)
  PROVE  BuildsInv'
<1> DEFINE s == script[b]
           n == step[b]
           K == Known(Inst(globalCache))
<1>0. /\ pc[b] = "merge" /\ \A p \in Protos : done[b][p] = Len(temp[b].tpls[p])
      /\ pc' = [pc EXCEPT ![b] = "save"]
      /\ UNCHANGED <<localCache, globalCache, lib, glib, script, step, kills, glob, loc, merged,
                     temp, item, copied, done, gen>>
  BY Zenon DEF MergeEnd, disk, memory
<1>1. ASSUME Build(b), BuildInv(b) PROVE BuildInv(b)'
  <2>1. /\ MergeInv(loc[b], temp[b], done[b], Before(s, n + 1), Items(Op(b).file), s, K, lib)
        /\ Op(b).op = "register" /\ pc'[b] = "save" /\ glob[b] = Inst(globalCache)
    BY <1>0, <1>1, Zenon DEF BuildInv, IInv, TypeInv, TypeOK, ScriptInv
  <2>2. /\ s \in Seq(Operation) /\ n \in Nat /\ 1 <= n /\ n <= Len(s) /\ Op(b) = s[n]
    BY <1>0, TargetFacts, Zenon DEF Active
  <2>3. \A x \in Before(s, n + 1) : ItemAt(x).kind = "tpl" => ItemAt(x).proto \in Protos
    BY <2>2, ScriptItemTypes, Zenon DEF Before
  <2>4. \A p \in Protos : Len(temp[b].tpls[p]) \in Nat
    <3>1. \A p \in Protos : temp[b].tpls[p] \in Seq(Template)
      BY CachesSound, Zenon DEF Sound, Cache
    <3> HIDE DEF Template
    <3> QED  BY <3>1
  <2>5. Full(loc[b], Before(s, n + 1), s, K, lib)
    <3> DEFINE C == loc[b]
               T == temp[b]
               d == done[b]
               X == Before(s, n + 1)
               Y == Items(Op(b).file)
    <3>1. /\ MergeInv(C, T, d, X, Y, s, K, lib)
          /\ \A p \in Protos : d[p] = Len(T.tpls[p]) /\ Len(T.tpls[p]) \in Nat
          /\ \A x \in X : ItemAt(x).kind = "tpl" => ItemAt(x).proto \in Protos
      BY <1>0, <2>1, <2>3, <2>4, ZenonT(30)
    <3> HIDE DEF C, T, d, X, Y, s, n, K
    <3>2. Full(C, X, s, K, lib)
      BY <3>1, MergeEndStep, Zenon
    <3> QED  BY <3>2, Zenon DEF C, X
  <2>6. n < Len(s)
    BY <1>1, <2>1, <2>2, BuildOps, ZenonT(30) DEF Build
  <2> QED  BY <1>0, <2>1, <2>5, <2>6, ZenonT(30) DEF BuildInv, Regs, Op
<1> QED  BY <1>0, <1>1, InnerStep, Zenon

LEMMA SaveBeginBuild ==
  ASSUME IInv, BuildsInv, NEW b \in Targets, SaveBegin(b)
  PROVE  BuildsInv'
<1>0. /\ pc[b] = "save" /\ pc' = [pc EXCEPT ![b] = "write"]
      /\ UNCHANGED <<globalCache, lib, glib, script, step, kills, glob, loc, merged, temp, item,
                     copied, done, gen>>
  BY Zenon DEF SaveBegin, disk, memory
<1>1. ASSUME BuildInv(b) PROVE BuildInv(b)'
  <2>1. pc'[b] = "write"
    BY <1>0, Zenon DEF IInv, TypeInv, TypeOK
  <2> QED  BY <1>0, <1>1, <2>1, Zenon DEF BuildInv, Regs, Op
<1> QED  BY <1>0, <1>1, InnerStep, Zenon

\* A cache that is saved can be read again.
LEMMA CacheReadable ==
  ASSUME NEW c \in Cache
  PROVE  Readable(c)
<1>1. "itfs" \in DOMAIN c /\ "itfs" \notin DOMAIN Absent /\ "itfs" \notin DOMAIN Torn
  BY DEF Cache, Absent, Torn
<1> QED  BY <1>1, Zenon DEF Readable

\* The next command of a script.
LEMMA ReturnFacts ==
  ASSUME IInv, NEW b \in Targets, Return(b)
  PROVE  /\ step'[b] = step[b] + 1
         /\ pc'[b] = IF step[b] = Len(script[b]) THEN "done" ELSE "load"
         /\ \A a \in Targets \ {b} : pc'[a] = pc[a] /\ step'[a] = step[a]
  BY Zenon DEF Return, IInv, TypeInv, TypeOK

LEMMA NoChunksEmpty == NoChunks(EmptyCache)
  BY Zenon DEF NoChunks, EmptyCache

LEMMA SaveEndBuild ==
  ASSUME IInv, BuildsInv, NEW b \in Targets, SaveEnd(b)
  PROVE  BuildsInv'
<1> DEFINE s == script[b]
           n == step[b]
           K == Known(Inst(globalCache))
<1>0. /\ pc[b] = "write" /\ localCache' = loc[b] /\ Return(b)
      /\ globalCache' = IF Op(b).op = "install" THEN glob[b] ELSE globalCache
      /\ UNCHANGED <<lib, glib, script, kills, glob, loc, merged, temp, item, copied, done, gen>>
  BY Zenon DEF SaveEnd, disk, memory
<1>1. /\ step'[b] = n + 1 /\ pc'[b] = IF n = Len(s) THEN "done" ELSE "load"
      /\ \A a \in Targets \ {b} : pc'[a] = pc[a] /\ step'[a] = step[a]
  BY <1>0, ReturnFacts, Zenon
<1>2. GlobalInv'
  <2>1. NoChunks(Inst(globalCache)')
    BY <1>0, NoChunksEmpty, Zenon DEF BuildsInv, GlobalInv, Inst
  <2> QED  BY <1>0, <2>1, Zenon DEF BuildsInv, GlobalInv
<1>3. ASSUME Build(b) PROVE GenInv(b)' /\ BuildInv(b)'
  <2>1. BuildInv(b) /\ GenInv(b)
    BY <1>0, <1>3, Zenon DEF BuildsInv, Running
  <2>2. ~ gen[b].ran
    BY <1>0, <2>1, Zenon DEF GenInv
  <2>3. GenInv(b)'
    BY <1>0, <2>2, Zenon DEF GenInv
  <2>4. /\ n < Len(s) /\ Op(b).op # "install" /\ Full(loc[b], Before(s, n + 1), s, K, lib)
        /\ glob[b] = Inst(globalCache)
    BY <1>0, <2>1, Zenon DEF BuildInv
  <2>5. s \in Seq(Operation) /\ n \in Nat
    BY <1>0, TargetFacts, Zenon DEF Active
  <2>6. n # Len(s)
    <3> HIDE DEF Operation
    <3> QED  BY <2>4, <2>5
  <2>7. pc'[b] = "load" /\ globalCache' = globalCache
    BY <1>0, <1>1, <2>4, <2>6, Zenon
  <2>8. Readable(loc[b])
    BY CachesSound, CacheReadable, Zenon DEF Sound
  <2>9. BuildInv(b)'
    BY <1>0, <1>1, <2>4, <2>7, <2>8, Zenon DEF BuildInv, Regs
  <2> QED  BY <2>3, <2>9, Zenon
<1>4. /\ b \in Running /\ script' = script /\ DOMAIN copied' = DOMAIN copied
      /\ DOMAIN gen' = DOMAIN gen
      /\ \A a \in Targets \ {b} : gen'[a] = gen[a] /\ glob'[a] = glob[a]
  BY <1>0, Zenon DEF Running
<1> QED  BY <1>1, <1>2, <1>3, <1>4, BuildsStep, Zenon

\* A build has no install command, and what an install leaves has no chunks.
LEMMA InstallLocalCacheBuild ==
  ASSUME IInv, BuildsInv, NEW b \in Targets, InstallLocalCache(b)
  PROVE  BuildsInv'
<1>0. pc[b] = "install" /\ UNCHANGED <<script, step, gen, copied>>
  BY Zenon DEF InstallLocalCache
<1> DEFINE Ok == /\ pc' = [pc EXCEPT ![b] = "save"]
                 /\ glob' = [glob EXCEPT ![b].globs = @ \o loc[b].globs,
                                         ![b].tpls = [p \in Protos |-> @[p] \o loc[b].tpls[p]]]
<1>1. UNCHANGED globalCache /\ (Ok \/ (pc' = [pc EXCEPT ![b] = "failed"] /\ UNCHANGED glob))
  <2>1. CASE loc[b].itfs # {} \/ HasMapped(loc[b])
    BY <2>1, Zenon DEF InstallLocalCache, Fail, disk, memory
  <2>2. CASE ~ (loc[b].itfs # {} \/ HasMapped(loc[b]))
    <3>1. \/ Fail(b) /\ UNCHANGED <<localCache, globalCache, memory>>
          \/ UNCHANGED disk /\ (Ok \/ (Fail(b) /\ UNCHANGED memory))
      BY <2>2, Zenon DEF InstallLocalCache
    <3> QED  BY <3>1, Zenon DEF Fail, disk, memory
  <2> QED  BY <2>1, <2>2, Zenon
<1>2. CASE pc' = [pc EXCEPT ![b] = "failed"] /\ UNCHANGED glob
  BY <1>0, <1>1, <1>2, StopStep, Zenon DEF Running
<1>3. CASE Ok
  <2>1. /\ \A a \in Targets \ {b} : pc'[a] = pc[a] /\ step'[a] = step[a] /\ gen'[a] = gen[a]
        /\ glob \in [Targets -> Cache]
    BY <1>0, <1>3, Zenon DEF IInv, TypeInv, TypeOK
  <2>2. /\ \A a \in Targets \ {b} : glob'[a] = glob[a]
        /\ glob'[b] = [glob[b] EXCEPT !.globs = @ \o loc[b].globs,
                                      !.tpls = [p \in Protos |-> @[p] \o loc[b].tpls[p]]]
    BY <1>3, <2>1, Zenon
  <2>3. glob'[b].chunks = glob[b].chunks
    <3>1. glob[b] \in Cache
      BY <2>1, Zenon
    <3> QED  BY <2>2, <3>1, Zenon DEF Cache
  <2>4. GlobalInv'
    <3>1. NoChunks(Inst(globalCache)) /\ \A a \in Targets : NoChunks(glob[a])
      BY Zenon DEF BuildsInv, GlobalInv
    <3>2. NoChunks(glob'[b])
      BY <2>3, <3>1, Zenon DEF NoChunks
    <3>3. \A a \in Targets : NoChunks(glob'[a])
      BY <2>2, <3>1, <3>2, ZenonT(30)
    <3> QED  BY <1>1, <3>1, <3>3, Zenon DEF GlobalInv
  <2>5. b \in Running
    BY <1>0, Zenon DEF Running
  <2>6. ~ Build(b)
    BY <1>0, <2>5, ZenonT(30) DEF BuildsInv, BuildInv
  <2>7. DOMAIN copied' = DOMAIN copied /\ DOMAIN gen' = DOMAIN gen
    BY <1>0, Zenon
  <2> QED  BY <1>0, <2>1, <2>2, <2>4, <2>5, <2>6, <2>7, BuildsStep, Zenon
<1> QED  BY <1>1, <1>2, <1>3, Zenon

LEMMA GenerateBuild ==
  ASSUME IInv, BuildsInv, NEW b \in Targets, Generate(b)
  PROVE  BuildsInv'
<1> DEFINE s == script[b]
           n == step[b]
           H == glob[b]
           tpls == IF merged[b] THEN SessionTpls(b) ELSE {}
           globs == FindGlobalCode(b)
           F(x) == {<<c, ChunkName(c, ChunkOf(x[3], x[2], c))>> :
                      c \in {d \in Pointcuts : x[2].ids[d] # 0}}
           r == [globs |-> {<<g.itf, g.with, LoadItem(<<GlobName(g), "tree">>)>> : g \in globs},
                 tpls |-> {<<x[1], x[2].with, x[2].src>> : x \in tpls},
                 code |-> UNION {{<<x[1], x[2].with, y[1], LoadItem(<<y[2], "tree">>)>> :
                                     y \in F(x)} : x \in tpls},
                 ran |-> TRUE]
<1>0. pc[b] = "gen" /\ UNCHANGED <<localCache, globalCache, lib, glib, script, kills, glob, loc,
                                   merged, temp, item, copied, done>>
  BY Zenon DEF Generate, disk, memory
<1>1. \/ gen' = [gen EXCEPT ![b] = r] /\ Return(b)
      \/ pc' = [pc EXCEPT ![b] = "failed"] /\ UNCHANGED <<gen, step>>
  BY Zenon DEF Generate, Fail
<1>2. CASE pc' = [pc EXCEPT ![b] = "failed"] /\ UNCHANGED <<gen, step>>
  BY <1>0, <1>2, StopStep, Zenon DEF Running
<1>3. CASE gen' = [gen EXCEPT ![b] = r] /\ Return(b)
  <2>1. /\ step'[b] = n + 1 /\ pc'[b] = IF n = Len(s) THEN "done" ELSE "load"
        /\ \A a \in Targets \ {b} : pc'[a] = pc[a] /\ step'[a] = step[a]
    BY <1>3, ReturnFacts, Zenon
  <2>2. /\ gen'[b] = r /\ DOMAIN gen' = DOMAIN gen /\ \A a \in Targets \ {b} : gen'[a] = gen[a]
    <3> HIDE DEF r
    <3> QED  BY <1>3, Zenon DEF BuildsInv
  <2>3. b \in Running /\ GlobalInv' /\ glob' = glob /\ copied' = copied /\ script' = script
    BY <1>0, GlobalKept, ZenonT(30) DEF Running, BuildsInv
  <2>4. ASSUME Build(b) PROVE GenInv(b)' /\ BuildInv(b)'
    <3>1. BuildInv(b)
      BY <2>3, <2>4, Zenon DEF BuildsInv
    <3>2. /\ Op(b).op = "generate" /\ merged[b] /\ temp[b] = EmptyCache /\ H = Inst(globalCache)
          /\ Readable(localCache) /\ loc[b] = localCache
          /\ Full(loc[b], Before(s, n), s, Known(H), lib)
      BY <1>0, <3>1, Zenon DEF BuildInv
    <3>3. s \in Seq(Operation) /\ n \in Nat /\ 1 <= n /\ n <= Len(s) /\ Op(b) = s[n]
      BY <1>0, TargetFacts, ZenonT(30) DEF Active
    <3>4. Before(s, n) = ScriptSources(s) /\ Before(s, n + 1) = Before(s, n) /\ n > 1
      <4>0. IsBuild(s) /\ s[n].op = "generate"
        BY <2>4, <3>2, <3>3, Zenon DEF Build
      <4>1. \A i \in n..Len(s) : s[i].op # "register"
        <5>1. \A i \in n..Len(s) : s[i].op = "generate"
          BY <3>3, <4>0, BuildOps
        <5> QED  BY <5>1, Zenon
      <4>2. Before(s, n) = ScriptSources(s)
        <5>1. n <= Len(s) + 1
          <6> HIDE DEF Operation
          <6> QED  BY <3>3
        <5> QED  BY <3>3, <4>1, <5>1, BeforeAll, Zenon
      <4>3. Before(s, n + 1) = Before(s, n)
        BY <3>2, <3>3, BeforeNext, ZenonT(30)
      <4>4. n # 1
        BY <3>3, <4>0, BuildOps
      <4> QED  BY <3>3, <4>2, <4>3, <4>4
    <3>5. Built(r, H, s, s[n].config)
      <4>1. Full(loc[b], ScriptSources(s), s, Known(H), lib)
        BY <3>2, <3>4, Zenon
      <4>2. /\ loc[b] \in Cache /\ IdsRefer(loc[b]) /\ glob[b] \in Cache /\ IdsRefer(glob[b])
            /\ NoChunks(glob[b])
        BY CachesSound, Zenon DEF Sound, BuildsInv, GlobalInv
      <4>3. globs = GlobsOf(H, loc[b], s[n].config)
        <5>1. Entries(temp[b].globs) = {}
          <6>1. EmptyCache.globs = << >>
            BY Zenon DEF EmptyCache
          <6> QED  BY <3>2, <6>1, EntriesEmpty, Zenon
        <5>2. Entries(SessionGlobs(b)) = Entries(H.globs) \cup Entries(loc[b].globs)
          BY <3>2, <5>1, SessionGlobsAs, Zenon
        <5> QED  BY <3>3, <5>2, Zenon DEF FindGlobalCode, GlobsOf
      <4>4. tpls = SessionTpls(b)
        BY <3>2, Zenon
      <4> HIDE DEF tpls, globs
      <4>5. New(r.globs, Known(H)) = ExpectedGlobs(s, s[n].config, Known(H))
        <5>1. r.globs = Loaded(globs)
          BY Zenon DEF Loaded
        <5>2. New(Loaded(GlobsOf(H, loc[b], s[n].config)), Known(H))
                = ExpectedGlobs(s, s[n].config, Known(H))
          BY <4>1, GenerateGlobs, Zenon
        <5> HIDE DEF r
        <5> QED  BY <4>3, <5>1, <5>2, Zenon
      <4>6. r.tpls = Expected(s).tpls \cup Installed(H)
        <5>1. r.tpls = {<<x[1], x[2].with, x[2].src>> : x \in tpls}
          BY Zenon
        <5> HIDE DEF r
        <5> QED  BY <3>3, <4>1, <4>4, <5>1, GenerateTpls, ZenonT(30)
      <4>7. r.code = Expected(s).code
        <5>1. r.code = UNION {{<<x[1], x[2].with, y[1], LoadItem(<<y[2], "tree">>)>> :
                                  y \in F(x)} : x \in tpls}
          BY Zenon
        <5> HIDE DEF r
        <5> QED  BY <3>3, <4>1, <4>2, <4>4, <5>1, GenerateCode, Zenon
      <4> HIDE DEF r
      <4> QED  BY <4>5, <4>6, <4>7, ZenonT(30) DEF Built, New
    <3> HIDE DEF r
    <3>6. (n + 1) - 1 = n /\ n + 1 > 1
      BY <3>3
    <3>7. GenInv(b)'
      <4>1. s[n].op = "generate" /\ glob'[b] = Inst(globalCache') /\ globalCache' = globalCache
        BY <1>0, <2>3, <3>2, <3>3, Zenon
      <4> QED  BY <2>1, <2>2, <2>3, <3>5, <3>6, <4>1, ZenonT(30) DEF GenInv
    <3>8. BuildInv(b)'
      <4>1. UNCHANGED <<localCache, globalCache, lib, glob, loc, script>>
        BY <1>0, Zenon
      <4>2. pc'[b] \in {"done", "load"}
        BY <2>1, Zenon
      <4>3. Full(localCache, Before(s, n + 1), s, Known(Inst(globalCache)), lib)
        BY <3>2, <3>4, Zenon
      <4> QED  BY <2>1, <3>2, <4>1, <4>2, <4>3, ZenonT(30) DEF BuildInv
    <3> QED  BY <3>7, <3>8, Zenon
  <2> QED  BY <2>1, <2>2, <2>3, <2>4, BuildsStep, Zenon
<1> QED  BY <1>1, <1>2, <1>3, Zenon

\* Cardinality of a set with one element, from the definition of Cardinality.
LEMMA SingletonSize == ASSUME NEW a PROVE Cardinality({a}) = 1
<1> DEFINE Sized(f) == f = [T \in SUBSET {a} |-> IF T = {} THEN 0
                                                 ELSE 1 + f[T \ {CHOOSE x : x \in T}]]
           size == [T \in SUBSET {a} |-> IF T = {} THEN 0 ELSE 1]
<1>1. \A T \in SUBSET {a} : T = {} \/ T = {a}
  BY Zenon
<1>2. {a} \ {CHOOSE x : x \in {a}} = {} /\ {a} # {} /\ {a} \in SUBSET {a} /\ {} \in SUBSET {a}
  <2>1. \E x : x \in {a}
    BY Zenon
  <2>2. (CHOOSE x : x \in {a}) \in {a}
    BY <2>1, Zenon
  <2> QED  BY <2>2, Zenon
<1>3. \E f : Sized(f)
  <2>1. \A T \in SUBSET {a} : size[T] = IF T = {} THEN 0
                                        ELSE 1 + size[T \ {CHOOSE x : x \in T}]
    BY <1>1, <1>2
  <2>2. Sized(size)
    BY <2>1, Zenon
  <2> QED  BY <2>2, Zenon
<1>4. \A f : Sized(f) => f[{a}] = 1
  <2> SUFFICES ASSUME NEW f, Sized(f) PROVE f[{a}] = 1
    BY Zenon
  <2>1. f[{}] = 0 /\ f[{a}] = 1 + f[{a} \ {CHOOSE x : x \in {a}}]
    BY <1>2, Zenon
  <2> QED  BY <1>2, <2>1
<1>5. Cardinality({a}) = (CHOOSE f : Sized(f))[{a}]
  BY Zenon DEF Cardinality
<1>6. Sized(CHOOSE f : Sized(f))
  <2> HIDE DEF Sized
  <2> QED  BY <1>3, Zenon
<1> HIDE DEF Sized
<1> QED  BY <1>4, <1>5, <1>6, Zenon

\* With one job, a target starts when no other runs.
LEMMA StartTargetBuild ==
  ASSUME Jobs = 1, IInv, BuildsInv, NEW b \in Targets, StartTarget(b)
  PROVE  BuildsInv'
<1>1. Running = {}
  <2>1. Cardinality(Running) < 1
    BY Zenon DEF StartTarget
  <2>2. ASSUME NEW a, Running = {a} PROVE FALSE
    <3>1. Cardinality({a}) = 1
      BY SingletonSize, Zenon
    <3> QED  BY <2>1, <2>2, <3>1
  <2> QED  BY <2>2, Zenon DEF BuildsInv, Alone
<1>2. PICK s \in Scripts[b] :
        /\ script' = [script EXCEPT ![b] = s]
        /\ pc' = [pc EXCEPT ![b] = IF s = << >> THEN "done" ELSE "load"]
  BY Zenon DEF StartTarget
<1>3. /\ step' = [step EXCEPT ![b] = 1] /\ gen' = [gen EXCEPT ![b] = NoGen]
      /\ UNCHANGED <<localCache, globalCache, lib, glib, glob, loc, merged, temp, copied>>
  BY Zenon DEF StartTarget, disk, memory
<1>4. /\ pc'[b] \in {"done", "load"} /\ step'[b] = 1
      /\ \A a \in Targets \ {b} : pc'[a] = pc[a] /\ step'[a] = step[a] /\ script'[a] = script[a]
  BY <1>2, <1>3, Zenon DEF IInv, TypeInv, TypeOK
<1>5. /\ gen'[b] = NoGen /\ DOMAIN gen' = Targets /\ DOMAIN copied' = Targets
      /\ \A a \in Targets \ {b} : gen'[a] = gen[a]
  BY <1>3, Zenon DEF BuildsInv
<1>6. \A a \in Targets \ {b} : a \notin Running /\ a \notin Running'
  BY <1>1, <1>4, Zenon DEF Running
<1>7. Alone'
  <2>1. \A a \in Running' : a \in Targets
    BY Zenon DEF Running
  <2>2. Running' = {} \/ Running' = {b}
    BY <1>6, <2>1, Zenon
  <2> QED  BY <2>2, Zenon DEF Alone
<1>8. GlobalInv'
  BY <1>3, GlobalKept, Zenon DEF BuildsInv
<1>9. GenInv(b)' /\ (b \in Running' => BuildInv(b)')
  <2>1. GenInv(b)'
    <3>1. gen'[b].ran = FALSE
      BY <1>5 DEF NoGen
    <3> QED  BY <3>1, Zenon DEF GenInv
  <2>2. ~ (1 > 1)
    OBVIOUS
  <2>3. b \in Running' => BuildInv(b)'
    BY <1>4, <2>2, Zenon DEF BuildInv, Running
  <2> QED  BY <2>1, <2>3, Zenon
<1>10. ASSUME NEW a \in Targets \ {b}, Build(a)' PROVE GenInv(a)'
  <2>1. /\ pc'[a] = pc[a] /\ step'[a] = step[a] /\ script'[a] = script[a] /\ gen'[a] = gen[a]
        /\ glob'[a] = glob[a]
    BY <1>3, <1>4, <1>5, <1>10, Zenon
  <2>2. GenInv(a) /\ pc[a] \notin {"load", "gen"}
    BY <1>6, <1>10, <2>1, Zenon DEF BuildsInv, Build, Running
  <2> QED  BY <2>1, <2>2, Zenon DEF GenInv
<1> QED  BY <1>5, <1>6, <1>7, <1>8, <1>9, <1>10, Zenon DEF BuildsInv

LEMMA KillBuild ==
  ASSUME IInv, BuildsInv, NEW b \in Targets, Kill(b)
  PROVE  BuildsInv'
<1>1. /\ b \in Running /\ pc' = [pc EXCEPT ![b] = "killed"]
      /\ UNCHANGED <<script, step, gen, glob, globalCache, copied>>
  BY Zenon DEF Kill, disk, memory
<1> QED  BY <1>1, StopStep, Zenon

LEMMA RerunBuild ==
  ASSUME IInv, BuildsInv, NEW b \in Targets, Rerun(b)
  PROVE  BuildsInv'
<1>0. /\ pc[b] = "killed" /\ pc' = [pc EXCEPT ![b] = "idle"]
      /\ UNCHANGED <<localCache, globalCache, lib, glib, script, step, kills, glob, loc, merged,
                     temp, item, copied, done, gen>>
  BY Zenon DEF Rerun, disk, memory
<1>1. pc'[b] = "idle" /\ \A a \in Targets \ {b} : pc'[a] = pc[a]
  BY <1>0, Zenon DEF IInv, TypeInv, TypeOK
<1>2. Running' = Running
  BY <1>0, <1>1, Zenon DEF Running
<1>3. Alone' /\ GlobalInv'
  BY <1>0, <1>2, GlobalKept, Zenon DEF BuildsInv, Alone
<1>4. ASSUME NEW a \in Targets, Build(a)' PROVE GenInv(a)' /\ (a \in Running' => BuildInv(a)')
  <2>0. Build(a) /\ b \notin Running
    BY <1>0, <1>4, Zenon DEF Build, Running
  <2>1. GenInv(a) /\ (a \in Running => BuildInv(a))
    BY <2>0, Zenon DEF BuildsInv
  <2>2. CASE a = b
    BY <1>0, <1>1, <1>2, <2>0, <2>1, <2>2, Zenon DEF GenInv
  <2>3. CASE a # b
    <3>1. pc'[a] = pc[a]
      BY <1>1, <2>3, Zenon
    <3>2. GenInv(a)'
      BY <1>0, <2>1, <3>1, Zenon DEF GenInv
    <3>3. BuildInv(a) => BuildInv(a)'
      BY <1>0, <3>1, Zenon DEF BuildInv, Regs, Op
    <3> QED  BY <1>2, <2>1, <3>2, <3>3, Zenon
  <2> QED  BY <2>2, <2>3, Zenon
<1> QED  BY <1>0, <1>3, <1>4, Zenon DEF BuildsInv

LEMMA BuildsInit == Init => BuildsInv
<1> SUFFICES ASSUME Init PROVE BuildsInv
  BY Zenon
<1>1. Running = {}
  BY Zenon DEF Init, Running
<1>2. GlobalInv
  BY NoChunksEmpty, Zenon DEF Init, GlobalInv, Inst, Readable
<1>3. \A b \in Targets : GenInv(b)
  BY Zenon DEF Init, GenInv, NoGen
<1>4. DOMAIN copied = Targets /\ DOMAIN gen = Targets
  BY Zenon DEF Init
<1> QED  BY <1>1, <1>2, <1>3, <1>4, ZenonT(30) DEF BuildsInv, Alone

LEMMA BuildsNext == Jobs = 1 /\ IInv /\ BuildsInv /\ [Next]_vars => BuildsInv'
<1> SUFFICES ASSUME Jobs = 1, IInv, BuildsInv, [Next]_vars PROVE BuildsInv'
  BY Zenon
<1>1. CASE UNCHANGED vars
  <2>0. UNCHANGED <<localCache, globalCache, lib, glib, pc, script, step, kills, glob, loc,
                    merged, temp, item, copied, done, gen>>
    BY <1>1, Zenon DEF vars, disk, memory
  <2>1. Running' = Running /\ GlobalInv'
    BY <2>0, GlobalKept, ZenonT(30) DEF Running, BuildsInv
  <2>2. ASSUME NEW a \in Targets
        PROVE  /\ Build(a)' = Build(a) /\ GenInv(a)' = GenInv(a) /\ BuildInv(a)' = BuildInv(a)
    BY <2>0, Zenon DEF Build, GenInv, BuildInv, Regs, Op
  <2> QED  BY <2>0, <2>1, <2>2, ZenonT(30) DEF BuildsInv, Alone
<1>2. ASSUME NEW b \in Targets, StartTarget(b) \/ Invocation(b) \/ Kill(b) \/ Rerun(b)
      PROVE  BuildsInv'
  BY <1>2, StartTargetBuild, LoadCacheBuild, RegisterItfsBuild, RegisterGlobalCodeBuild,
     RegisterTemplateBuild, RegisterEndBuild, ValidateFileBuild, MergeBeginBuild,
     MergeTemplateBuild, MergeEndBuild, SaveBeginBuild, SaveEndBuild, InstallLocalCacheBuild,
     GenerateBuild, KillBuild, RerunBuild, Zenon DEF Invocation
<1> QED  BY <1>1, <1>2, Zenon DEF Next, Terminated

\* When make runs one target at a time, the driver of every target is generated from
\* the files the target lists and from what is installed, and from nothing else,
\* whatever earlier builds, commands typed by hand and killed invocations left in
\* the local cache and in its library: rtxLink_ValidateDiff overwrites no text that
\* the build still needs, and rtxLink_SessionRegister keeps the first global code.
THEOREM BuiltOnItsFiles == Jobs = 1 => (Spec => []RtxBuiltOnItsFiles)
<1> SUFFICES ASSUME Jobs = 1 PROVE Spec => []RtxBuiltOnItsFiles
  OBVIOUS
<1>1. BuildsInv => RtxBuiltOnItsFiles
  BY Zenon DEF BuildsInv, GenInv, Build, Built, Known, RtxBuiltOnItsFiles
<1>2. IInv /\ BuildsInv /\ [Next]_vars => (IInv /\ BuildsInv)'
  BY BuildsNext, InvNext, Zenon
<1>3. Init => IInv /\ BuildsInv
  BY BuildsInit, InvInit, Zenon
<1> QED  BY <1>1, <1>2, <1>3, PTL DEF Spec
=============================================================================
