----------------------------- MODULE LinkCache -----------------------------
(***************************************************************************)
(* The link cache of the Rathaxes compiler (linker/rtxLink_Session.inc.cws *)
(* and the operations of rathaxes.cws that use it).  Every invocation of   *)
(* the compiler loads the global and the local cache file, registers the   *)
(* interfaces, global code and templates of one source file in memory,     *)
(* copies the files it generated into the local backend library, merges    *)
(* the new entries into the local cache and saves it.  A build target      *)
(* (UseRathaxes.cmake) is a script of such invocations; all the targets of *)
(* a build tree share one local cache directory.                           *)
(*                                                                         *)
(* Templates live in two tables of the cache (types, sequences); a member  *)
(* of Protos stands for a table together with the hash of a prototype.     *)
(* Chunk ids are positions in the list of a pointcut: 1-based here, with 0 *)
(* for "the template has no chunk for this pointcut".                      *)
(***************************************************************************)
EXTENDS Naturals, Sequences, FiniteSets, TLC

CONSTANTS
  Targets,        \* the build targets (or users) that run scripts
  Scripts,        \* Scripts[b]: the scripts target b may be started with
  Jobs,           \* how many targets make runs at the same time (make -j)
  MaxKills,       \* bound: how many invocations are killed
  SourceFiles,    \* the .rti and .blt files
  Itfs, Protos, Withs, Pointcuts,
  FileItfs,       \* FileItfs[f]: the interfaces file f defines
  FileItems       \* FileItems[f]: the global codes and templates of file f

\* A script is a sequence of operations of the command line; the configuration
\* of a driver counts by the with nodes that are compatible with it.
Operation == [op : {"register"}, file : SourceFiles]
             \cup [op : {"generate"}, config : SUBSET Withs]
             \cup [op : {"clear", "install"}]

\* What a blt file holds, in the order in which it is registered: the C block
\* of a with block, or a template with its chunks' pointcuts; "mapped" tells
\* a type template that has attributes of its own (and so a file of its own).
Item == [kind : {"glob"}, itf : Itfs, with : Withs]
        \cup [kind : {"tpl"}, proto : Protos, with : Withs,
              pcs : SUBSET Pointcuts, mapped : BOOLEAN]

ASSUME ScriptsAssumption == Scripts \in [Targets -> SUBSET Seq(Operation)]
ASSUME JobsAssumption == Jobs \in Nat /\ MaxKills \in Nat
ASSUME ItfsAssumption == FileItfs \in [SourceFiles -> SUBSET Itfs]
ASSUME ItemsAssumption == FileItems \in [SourceFiles -> Seq(Item)]

\* Where a cached entry comes from: the k-th item of a source file.
Source == SourceFiles \X (Nat \ {0})

Template == [with : Withs, src : Source, mapped : BOOLEAN, ids : [Pointcuts -> Nat]]
Chunk    == [proto : Protos, src : Source, idx : Nat]
Glob     == [itf : Itfs, with : Withs, src : Source, idx : Nat]
Cache    == [itfs : SUBSET Itfs, globs : Seq(Glob),
             tpls : [Protos -> Seq(Template)], chunks : [Pointcuts -> Seq(Chunk)]]

EmptyCache == [itfs |-> {}, globs |-> << >>, tpls |-> [p \in Protos |-> << >>],
               chunks |-> [c \in Pointcuts |-> << >>]]

\* A cache file that does not exist, or that a killed invocation left half
\* written: loading either of them fails.
Absent == [unreadable |-> "absent"]
Torn   == [unreadable |-> "torn"]

VARIABLES
  localCache,   \* <local_cache_path>/rtxLink_Cache.tree
  globalCache,  \* <cache_path>/rtxLink_Cache.tree
  lib,          \* the local backend library: file name -> source of its text
  glib,         \* the global backend library
  pc, script, step, kills,
  glob, loc,    \* this.caches.global and this.caches.local
  merged,       \* did rtxLink_LoadCache get as far as filling the session?
  temp,         \* this.session.temp, the differential cache
  item,         \* the next item of the source file to register
  copied,       \* the entries of temp whose files ValidateDiff has copied
  done,         \* done[b][p]: templates of p that the merge has taken from temp
  gen           \* what the last generate of a target worked on

disk   == <<localCache, globalCache, lib, glib>>
memory == <<glob, loc, merged, temp>>
vars   == <<disk, pc, script, step, kills, memory, item, copied, done, gen>>

NoGen == [globs |-> {}, tpls |-> {}, code |-> {}, ran |-> FALSE]

Init ==
  /\ localCache = Absent
  /\ globalCache = Absent
  /\ lib = << >>
  /\ glib = << >>
  /\ pc = [b \in Targets |-> "idle"]
  /\ script = [b \in Targets |-> << >>]
  /\ step = [b \in Targets |-> 1]
  /\ kills = 0
  /\ glob = [b \in Targets |-> EmptyCache]
  /\ loc = [b \in Targets |-> EmptyCache]
  /\ merged = [b \in Targets |-> FALSE]
  /\ temp = [b \in Targets |-> EmptyCache]
  /\ item = [b \in Targets |-> 1]
  /\ copied = [b \in Targets |-> {}]
  /\ done = [b \in Targets |-> [p \in Protos |-> 0]]
  /\ gen = [b \in Targets |-> NoGen]
-----------------------------------------------------------------------------
(***************************************************************************)
(* Operators on caches.                                                    *)
(***************************************************************************)
Readable(file) == file \notin {Absent, Torn}

Entries(list) == {list[i] : i \in 1..Len(list)}

\* Two templates clash when the same prototype has the same with node.
CheckTplConflict(list, with) == \E i \in 1..Len(list) : list[i].with = with

\* The lookup goes to the array of session.templates, which holds nothing: the
\* two tables are its attributes "types" and "sequences".
CheckSingleTpl(proto, with) == proto \in {}

\* Append template t of prototype p, with a chunk for each pointcut in the
\* domain of new; new[c] is the entry that goes to the list of pointcut c.
AddTemplate(cache, p, t, new) ==
  [cache EXCEPT
     !.tpls[p] = Append(@, [t EXCEPT !.ids =
        [c \in Pointcuts |-> IF c \in DOMAIN new THEN Len(cache.chunks[c]) + 1 ELSE 0]]),
     !.chunks = [c \in Pointcuts |->
        IF c \in DOMAIN new THEN Append(cache.chunks[c], new[c]) ELSE cache.chunks[c]]]

\* rtxLink_MergeCaches raises an error: an interface in both caches, or a
\* template that clashes with one that is already in the destination.
MergeConflict(cache1, cache2) ==
  \/ cache1.itfs \cap cache2.itfs # {}
  \/ \E p \in Protos : \E j \in 1..Len(cache2.tpls[p]) :
        CheckTplConflict(cache1.tpls[p] \o SubSeq(cache2.tpls[p], 1, j - 1),
                         cache2.tpls[p][j].with)

Op(b) == script[b][step[b]]
Running == {b \in Targets : pc[b] \notin {"idle", "failed", "killed", "done"}}

SessionItfs(b) ==
  (IF merged[b] THEN glob[b].itfs \cup loc[b].itfs ELSE {}) \cup temp[b].itfs
SessionGlobs(b) ==
  (IF merged[b] THEN glob[b].globs \o loc[b].globs ELSE << >>) \o temp[b].globs

\* error() and exit() end the invocation; make stops the target.
Fail(b) == pc' = [pc EXCEPT ![b] = "failed"]
-----------------------------------------------------------------------------
StartTarget(b) ==
  /\ pc[b] = "idle"
  /\ Cardinality(Running) < Jobs
  /\ \E s \in Scripts[b] :
       /\ script' = [script EXCEPT ![b] = s]
       /\ pc' = [pc EXCEPT ![b] = IF s = << >> THEN "done" ELSE "load"]
  /\ step' = [step EXCEPT ![b] = 1]
  /\ gen' = [gen EXCEPT ![b] = NoGen]
  /\ UNCHANGED <<disk, kills, memory, item, copied, done>>

\* The state in which rathaxes.cws leaves the load of the caches.
AfterLoad(op) ==
  CASE op = "register" -> "itfs"
    [] op = "clear"    -> "save"
    [] op = "generate" -> "gen"
    [] op = "install"  -> "install"

\* Mutant: a local cache file that cannot be read ends the invocation.
LoadCache_Fatal(b) ==
  /\ pc[b] = "load"
  /\ IF Readable(localCache)
     THEN /\ loc' = [loc EXCEPT ![b] = localCache]
          /\ temp' = [temp EXCEPT ![b] = EmptyCache]
          /\ pc' = [pc EXCEPT ![b] = AfterLoad(Op(b).op)]
     ELSE Fail(b) /\ UNCHANGED <<loc, temp>>
  /\ UNCHANGED <<disk, script, step, kills, glob, merged, item, copied, done, gen>>

\* rtxLink_LoadCache.  A global file that cannot be read is ignored; without a
\* local file nothing is merged and the session stays empty.
LoadCache(b) ==
  /\ pc[b] = "load"
  /\ LET g == IF Readable(globalCache) THEN globalCache ELSE EmptyCache
         l == IF Readable(localCache) THEN localCache ELSE EmptyCache
     IN  IF Readable(localCache) /\ MergeConflict(g, l)
         THEN Fail(b) /\ UNCHANGED <<memory, item, copied, done>>
         ELSE /\ glob' = [glob EXCEPT ![b] = g]
              /\ loc' = [loc EXCEPT ![b] = IF Op(b).op = "clear" THEN EmptyCache ELSE l]
              /\ merged' = [merged EXCEPT ![b] = Readable(localCache)]
              /\ temp' = [temp EXCEPT ![b] = EmptyCache]
              /\ item' = [item EXCEPT ![b] = 1]
              /\ copied' = [copied EXCEPT ![b] = {}]
              /\ done' = [done EXCEPT ![b] = [p \in Protos |-> 0]]
              /\ pc' = [pc EXCEPT ![b] = AfterLoad(Op(b).op)]
  /\ UNCHANGED <<disk, script, step, kills, gen>>

RegisterItfs(b) ==
  /\ pc[b] = "itfs"
  /\ IF FileItfs[Op(b).file] \cap SessionItfs(b) # {}
     THEN Fail(b) /\ UNCHANGED temp
     ELSE /\ temp' = [temp EXCEPT ![b].itfs = FileItfs[Op(b).file]]
          /\ pc' = [pc EXCEPT ![b] = "items"]
  /\ UNCHANGED <<disk, script, step, kills, glob, loc, merged, item, copied, done, gen>>

NextItem(b) == FileItems[Op(b).file][item[b]]
Registering(b, kind) ==
  /\ pc[b] = "items"
  /\ item[b] <= Len(FileItems[Op(b).file])
  /\ NextItem(b).kind = kind

\* rtxLink_SessionRegister<"__rtx_with__">: the C block is kept unless some
\* block of the same first interface is in the session.
RegisterGlobalCode(b) ==
  /\ Registering(b, "glob")
  /\ LET known == \E i \in 1..Len(SessionGlobs(b)) : SessionGlobs(b)[i].itf = NextItem(b).itf
         entry == [itf |-> NextItem(b).itf, with |-> NextItem(b).with,
                   src |-> <<Op(b).file, item[b]>>, idx |-> Len(temp[b].globs)]
     IN  temp' = IF known THEN temp ELSE [temp EXCEPT ![b].globs = Append(@, entry)]
  /\ item' = [item EXCEPT ![b] = @ + 1]
  /\ UNCHANGED <<disk, pc, script, step, kills, glob, loc, merged, copied, done, gen>>

\* rtxLink_SessionRegisterTpl<"type" / "sequence"> with the chunks of its body.
RegisterTemplate(b) ==
  /\ Registering(b, "tpl")
  /\ LET it  == NextItem(b)
         src == <<Op(b).file, item[b]>>
         t   == [with |-> it.with, src |-> src, mapped |-> it.mapped,
                 ids |-> [c \in Pointcuts |-> 0]]
         new == [c \in it.pcs |->
                   [proto |-> it.proto, src |-> src, idx |-> Len(temp[b].chunks[c])]]
     IN  temp' = IF CheckSingleTpl(it.proto, it.with) THEN temp
                 ELSE [temp EXCEPT ![b] = AddTemplate(@, it.proto, t, new)]
  /\ item' = [item EXCEPT ![b] = @ + 1]
  /\ UNCHANGED <<disk, pc, script, step, kills, glob, loc, merged, copied, done, gen>>

RegisterEnd(b) ==
  /\ pc[b] = "items"
  /\ item[b] > Len(FileItems[Op(b).file])
  /\ pc' = [pc EXCEPT ![b] = "copy"]
  /\ UNCHANGED <<disk, script, step, kills, memory, item, copied, done, gen>>
-----------------------------------------------------------------------------
(***************************************************************************)
(* rtxLink_SaveCache: rtxLink_ValidateDiff copies the generated files and  *)
(* merges temp into the local cache, which is then written.                *)
(***************************************************************************)

\* Names in the backend library.  A chunk's name depends on its prototype, its
\* pointcut and its position in temp; the with node is not part of it, since
\* the chunk entry only holds the (empty) value of that node.
ItfName(i)     == <<"itf", i>>
GlobName(g)    == <<"glob", g.idx, g.with>>
ChunkName(c, k) == <<"chunk", k.proto, c, k.idx>>

\* The entries of a cache that have files to copy: <<name, source of the text>>.
\* The lists of templates are walked as if they were templates, so the files
\* of a mapped type are not among them.
DiffFiles(b) ==
  {<<ItfName(i), <<Op(b).file, 0>>>> : i \in temp[b].itfs}
  \cup {<<GlobName(temp[b].globs[i]), temp[b].globs[i].src>> : i \in 1..Len(temp[b].globs)}
  \cup UNION {{<<ChunkName(c, temp[b].chunks[c][i]), temp[b].chunks[c][i].src>> :
                  i \in 1..Len(temp[b].chunks[c])} : c \in Pointcuts}

\* Library l with the files of entry e: its tree and, unless it is an interface,
\* its script.
WithFiles(l, e) ==
  LET new == {<<e[1], "tree">>} \cup (IF e[1][1] = "itf" THEN {} ELSE {<<e[1], "cws">>})
  IN  [file \in DOMAIN l \cup new |-> IF file \in new THEN e[2] ELSE l[file]]

\* rtxLink_ValidateFiles / rtxLink_ValidateItf for one entry.
ValidateFile(b) ==
  /\ pc[b] = "copy"
  /\ \E e \in DiffFiles(b) \ copied[b] :
       /\ lib' = WithFiles(lib, e)
       /\ copied' = [copied EXCEPT ![b] = @ \cup {e}]
  /\ UNCHANGED <<localCache, globalCache, glib, pc, script, step, kills, memory,
                 item, done, gen>>

\* The merge of temp into the local cache starts with the interfaces and the
\* global codes ...
MergeBegin(b) ==
  /\ pc[b] = "copy"
  /\ DiffFiles(b) \subseteq copied[b]
  /\ IF temp[b].itfs \cap loc[b].itfs # {}
     THEN Fail(b) /\ UNCHANGED loc
     ELSE /\ loc' = [loc EXCEPT ![b].itfs = @ \cup temp[b].itfs,
                                ![b].globs = @ \o temp[b].globs]
          /\ pc' = [pc EXCEPT ![b] = "merge"]
  /\ UNCHANGED <<disk, script, step, kills, glob, merged, temp, item, copied, done, gen>>

\* The chunks of template t of a cache, by pointcut.
TemplateChunks(cache, t) ==
  [c \in {d \in Pointcuts : t.ids[d] # 0} |-> cache.chunks[c][t.ids[c]]]

\* Mutant: the merged template keeps the chunk ids it had in temp.
MergeTemplate_KeepIds(b) ==
  /\ pc[b] = "merge"
  /\ \E p \in Protos :
       /\ done[b][p] < Len(temp[b].tpls[p])
       /\ LET t == temp[b].tpls[p][done[b][p] + 1]
              new == TemplateChunks(temp[b], t)
          IN  IF CheckTplConflict(loc[b].tpls[p], t.with)
              THEN Fail(b) /\ UNCHANGED <<loc, done>>
              ELSE /\ loc' = [loc EXCEPT
                        ![b].tpls[p] = Append(@, t),
                        ![b].chunks = AddTemplate(loc[b], p, t, new).chunks]
                   /\ done' = [done EXCEPT ![b][p] = @ + 1]
                   /\ UNCHANGED pc
  /\ UNCHANGED <<disk, script, step, kills, glob, merged, temp, item, copied, gen>>

\* Mutant: the test for a clash is dropped.
MergeTemplate_NoConflict(b) ==
  /\ pc[b] = "merge"
  /\ \E p \in Protos :
       /\ done[b][p] < Len(temp[b].tpls[p])
       /\ LET t == temp[b].tpls[p][done[b][p] + 1]
              new == TemplateChunks(temp[b], t)
          IN  loc' = [loc EXCEPT ![b] = AddTemplate(@, p, t, new)]
       /\ done' = [done EXCEPT ![b][p] = @ + 1]
  /\ UNCHANGED <<disk, pc, script, step, kills, glob, merged, temp, item, copied, gen>>

\* ... and goes on with the templates, each with its chunks: a copied chunk
\* gets the next id of its pointcut and the copied template is told that id.
MergeTemplate(b) ==
  /\ pc[b] = "merge"
  /\ \E p \in Protos :
       /\ done[b][p] < Len(temp[b].tpls[p])
       /\ LET t == temp[b].tpls[p][done[b][p] + 1]
              new == TemplateChunks(temp[b], t)
          IN  IF CheckTplConflict(loc[b].tpls[p], t.with)
              THEN Fail(b) /\ UNCHANGED <<loc, done>>
              ELSE /\ loc' = [loc EXCEPT ![b] = AddTemplate(@, p, t, new)]
                   /\ done' = [done EXCEPT ![b][p] = @ + 1]
                   /\ UNCHANGED pc
  /\ UNCHANGED <<disk, script, step, kills, glob, merged, temp, item, copied, gen>>

MergeEnd(b) ==
  /\ pc[b] = "merge"
  /\ \A p \in Protos : done[b][p] = Len(temp[b].tpls[p])
  /\ pc' = [pc EXCEPT ![b] = "save"]
  /\ UNCHANGED <<disk, script, step, kills, memory, item, copied, done, gen>>

\* saveProject truncates the file and writes it: a reader may come in between,
\* and a kill leaves the file torn.
SaveBegin(b) ==
  /\ pc[b] = "save"
  /\ localCache' = Torn
  /\ pc' = [pc EXCEPT ![b] = "write"]
  /\ UNCHANGED <<globalCache, lib, glib, script, step, kills, memory, item, copied, done, gen>>

\* The invocation is over: the next command of the script is a new one.
Return(b) ==
  /\ step' = [step EXCEPT ![b] = @ + 1]
  /\ pc' = [pc EXCEPT ![b] = IF step[b] = Len(script[b]) THEN "done" ELSE "load"]

SaveEnd(b) ==
  /\ pc[b] = "write"
  /\ localCache' = loc[b]
  /\ globalCache' = IF Op(b).op = "install" THEN glob[b] ELSE globalCache
  /\ Return(b)
  /\ UNCHANGED <<lib, glib, script, kills, memory, item, copied, done, gen>>
-----------------------------------------------------------------------------
AllChunks(cache) ==
  UNION {{<<c, cache.chunks[c][i]>> : i \in 1..Len(cache.chunks[c])} : c \in Pointcuts}
HasMapped(cache) ==
  \E p \in Protos : \E i \in 1..Len(cache.tpls[p]) : cache.tpls[p][i].mapped

\* rtxLink_InstallItem copies the script of a chunk, deletes it, and then copies
\* it again where it should copy the tree: the source is gone and the copy
\* raises an error.  For an interface there is no script to start with, and
\* the files of a mapped type were never in the local library.
InstallLocalCache(b) ==
  /\ pc[b] = "install"
  /\ IF loc[b].itfs # {} \/ HasMapped(loc[b])
     THEN Fail(b) /\ UNCHANGED <<disk, memory>>
     ELSE \/ \E e \in AllChunks(loc[b]) :
               LET file == <<ChunkName(e[1], e[2]), "cws">>
               IN  /\ Fail(b)
                   /\ IF file \in DOMAIN lib
                      THEN /\ glib' = (file :> lib[file]) @@ glib
                           /\ lib' = [f \in DOMAIN lib \ {file} |-> lib[f]]
                      ELSE UNCHANGED <<lib, glib>>
                   /\ UNCHANGED <<localCache, globalCache, memory>>
          \/ /\ AllChunks(loc[b]) = {}
             /\ IF MergeConflict(glob[b], loc[b])
                THEN Fail(b) /\ UNCHANGED memory
                ELSE /\ glob' = [glob EXCEPT ![b].globs = @ \o loc[b].globs,
                            ![b].tpls = [p \in Protos |-> @[p] \o loc[b].tpls[p]]]
                     /\ loc' = [loc EXCEPT ![b] = EmptyCache]
                     /\ pc' = [pc EXCEPT ![b] = "save"]
                     /\ UNCHANGED <<merged, temp>>
             /\ UNCHANGED disk
  /\ UNCHANGED <<script, step, kills, item, copied, done, gen>>

\* rtxLink_LoadItem: the local library hides the global one.  The working
\* directory, which is looked at first, holds no file of these names: they are
\* made by rtxLink_ValidateFiles, which writes to the libraries only.
LoadItem(name) ==
  IF name \in DOMAIN lib THEN lib[name] ELSE glib[name]
Loadable(name) == name \in DOMAIN lib \/ name \in DOMAIN glib

\* The templates of the session: <<prototype, template, cache it comes from>>.
SessionTpls(b) ==
  UNION {{<<p, cache.tpls[p][i], cache>> : i \in 1..Len(cache.tpls[p])} :
            p \in Protos, cache \in {glob[b], loc[b]}}

\* Mutant: the chunk is looked up one position too early.
ChunkOf_OffByOne(cache, t, c) ==
  IF t.ids[c] > 1 THEN cache.chunks[c][t.ids[c] - 1] ELSE cache.chunks[c][t.ids[c]]

\* rtxLink_selectChunkFromTemplate
ChunkOf(cache, t, c) == cache.chunks[c][t.ids[c]]

\* rtxLink_findGlobalCode: the global code that the driver is built around.
FindGlobalCode(b) == {g \in Entries(SessionGlobs(b)) : g.with \in Op(b).config}

\* The generate operation reads the session, loads the global code and the chunks
\* that it needs (all of them here); to find no global code is an error, and so
\* is a file that is in no library.  The driver's own file holds no template and
\* no global code, so that registering it adds nothing to the session.
Generate(b) ==
  /\ pc[b] = "gen"
  /\ LET tpls == IF merged[b] THEN SessionTpls(b) ELSE {}
         globs == FindGlobalCode(b)
         Files(x) == {<<c, ChunkName(c, ChunkOf(x[3], x[2], c))>> :
                        c \in {d \in Pointcuts : x[2].ids[d] # 0}}
         names == {GlobName(g) : g \in globs} \cup UNION {{y[2] : y \in Files(x)} : x \in tpls}
     IN  IF globs # {} /\ \A n \in names : Loadable(<<n, "tree">>) /\ Loadable(<<n, "cws">>)
         THEN /\ gen' = [gen EXCEPT ![b] =
                   [globs |-> {<<g.itf, g.with, LoadItem(<<GlobName(g), "tree">>)>> : g \in globs},
                    tpls |-> {<<x[1], x[2].with, x[2].src>> : x \in tpls},
                    code |-> UNION {{<<x[1], x[2].with, y[1], LoadItem(<<y[2], "tree">>)>> :
                                        y \in Files(x)} : x \in tpls},
                    ran |-> TRUE]]
              /\ Return(b)
         ELSE Fail(b) /\ UNCHANGED <<gen, step>>
  /\ UNCHANGED <<disk, script, kills, memory, item, copied, done>>

\* The invocation is killed, or one of its copies or writes fails.
Kill(b) ==
  /\ b \in Running
  /\ kills < MaxKills
  /\ kills' = kills + 1
  /\ pc' = [pc EXCEPT ![b] = "killed"]
  /\ UNCHANGED <<disk, script, step, memory, item, copied, done, gen>>

\* make is run again: the target starts over, its first command included.
Rerun(b) ==
  /\ pc[b] = "killed"
  /\ pc' = [pc EXCEPT ![b] = "idle"]
  /\ UNCHANGED <<disk, script, step, kills, memory, item, copied, done, gen>>

Invocation(b) ==
  \/ LoadCache(b) \/ RegisterItfs(b) \/ RegisterGlobalCode(b) \/ RegisterTemplate(b)
  \/ RegisterEnd(b) \/ ValidateFile(b) \/ MergeBegin(b) \/ MergeTemplate(b) \/ MergeEnd(b)
  \/ SaveBegin(b) \/ SaveEnd(b) \/ InstallLocalCache(b) \/ Generate(b)

Terminated == Running = {} /\ (\A b \in Targets : pc[b] \in {"failed", "done"}) /\ UNCHANGED vars

Next == \/ \E b \in Targets : StartTarget(b) \/ Invocation(b) \/ Kill(b) \/ Rerun(b)
        \/ Terminated

Spec == Init /\ [][Next]_vars

\* An invocation that runs goes on, make starts the next target when a job is
\* free, and a killed target is run again.
FairSpec ==
  /\ Spec
  /\ \A b \in Targets : WF_vars(Invocation(b)) /\ WF_vars(StartTarget(b)) /\ WF_vars(Rerun(b))
-----------------------------------------------------------------------------
(***************************************************************************)
(* Properties.                                                             *)
(***************************************************************************)
CacheFile == Cache \cup {Absent, Torn}

\* The type invariant.
TypeOK ==
  /\ localCache \in CacheFile /\ globalCache \in CacheFile
  /\ pc \in [Targets -> {"idle", "load", "itfs", "items", "copy", "merge", "save", "write",
                          "gen", "install", "failed", "killed", "done"}]
  /\ glob \in [Targets -> Cache] /\ loc \in [Targets -> Cache]
  /\ temp \in [Targets -> Cache]
  /\ merged \in [Targets -> BOOLEAN]
  /\ script \in [Targets -> Seq(Operation)]
  /\ step \in [Targets -> Nat \ {0}] /\ item \in [Targets -> Nat \ {0}]
  /\ kills \in 0..MaxKills
  /\ done \in [Targets -> [Protos -> Nat]]

\* Every chunk id of a template leads to a chunk of that very template.
IdsRefer(cache) ==
  \A p \in Protos : \A i \in 1..Len(cache.tpls[p]) : \A c \in Pointcuts :
    LET t == cache.tpls[p][i]
    IN  t.ids[c] # 0 =>
          /\ t.ids[c] <= Len(cache.chunks[c])
          /\ cache.chunks[c][t.ids[c]].proto = p
          /\ cache.chunks[c][t.ids[c]].src = t.src

\* The ids that rtxLink_MergeCaches renumbers stay right however many files are
\* merged, cleared and registered again, in the cache files on disk.
SavedIdsRefer ==
  /\ Readable(localCache) => IdsRefer(localCache)
  /\ Readable(globalCache) => IdsRefer(globalCache)

\* No prototype has two templates with the same with node.
NoDuplicates(cache) ==
  \A p \in Protos : \A i, j \in 1..Len(cache.tpls[p]) :
    cache.tpls[p][i].with = cache.tpls[p][j].with => i = j

\* Merging, saving and installing never leave such a pair in a cache file, so
\* rtxLink_selectUniqueTemplate is never faced with two equal candidates.
SavedNoDuplicates ==
  /\ Readable(localCache) => NoDuplicates(localCache)
  /\ Readable(globalCache) => NoDuplicates(globalCache)

\* What a target's generate command should work on: the templates of the files
\* its script registers, with the text those files gave to their chunks.
ScriptSources(s) ==
  UNION {{<<s[i].file, k>> : k \in 1..Len(FileItems[s[i].file])} :
            i \in {j \in 1..Len(s) : s[j].op = "register"}}
ScriptGlobs(s) == {x \in ScriptSources(s) : FileItems[x[1]][x[2]].kind = "glob"}
ScriptTpls(s) == {x \in ScriptSources(s) : FileItems[x[1]][x[2]].kind = "tpl"}
Expected(s) ==
  [tpls |-> {<<FileItems[x[1]][x[2]].proto, FileItems[x[1]][x[2]].with, x>> : x \in ScriptTpls(s)},
   code |-> UNION {{<<FileItems[x[1]][x[2]].proto, FileItems[x[1]][x[2]].with, c, x>> :
                       c \in FileItems[x[1]][x[2]].pcs} : x \in ScriptTpls(s)}]

\* Does script s register x before y, the first time if it does so repeatedly?
Registers(s, i, f) == s[i].op = "register" /\ s[i].file = f
Earlier(s, x, y) ==
  IF x[1] = y[1] THEN x[2] < y[2]
  ELSE \E i \in 1..Len(s) : Registers(s, i, x[1]) /\ \A j \in 1..i : ~ Registers(s, j, y[1])

\* The first global code that the script has for each interface not installed yet,
\* as far as it is compatible with the configuration.
ExpectedGlobs(s, config, known) ==
  LET Code(x) == FileItems[x[1]][x[2]]
      first == {x \in ScriptGlobs(s) :
                  /\ Code(x).itf \notin known
                  /\ \A y \in ScriptGlobs(s) : Code(y).itf = Code(x).itf => ~ Earlier(s, y, x)}
  IN  {<<Code(x).itf, Code(x).with, x>> :
         x \in {y \in first : Code(y).with \in config}}

\* No two templates of a script give a chunk of the same prototype to the same
\* pointcut and no two of its files have global code with the same with node,
\* so that the names of what they put in the library differ.
Unambiguous(s) ==
  /\ \A x, y \in ScriptTpls(s) :
       LET t == FileItems[x[1]][x[2]]
           u == FileItems[y[1]][y[2]]
       IN  x # y => t.proto # u.proto \/ t.pcs \cap u.pcs = {}
  /\ \A x, y \in ScriptGlobs(s) :
       x[1] # y[1] => FileItems[x[1]][x[2]].with # FileItems[y[1]][y[2]].with

\* The script of a build target: it clears the cache, registers its files and then
\* generates the driver, once for each system.
IsBuild(s) ==
  \E m \in 2..Len(s) :
    /\ s[1].op = "clear"
    /\ \A i \in 2..(m - 1) : s[i].op = "register"
    /\ \A i \in m..Len(s) : s[i].op = "generate"

Installed(cache) ==
  UNION {{<<p, cache.tpls[p][i].with, cache.tpls[p][i].src>> : i \in 1..Len(cache.tpls[p])} :
            p \in Protos}

\* The driver of a target is generated from the files the target lists and from
\* what is installed, and from nothing else, whatever earlier builds, commands
\* typed by hand and killed invocations left in the local cache and its library.
\* Of the global code of one interface it has the block that was registered
\* first, and the others are dropped (rtxLink_Session.inc.cws:67-78).
RtxBuiltOnItsFiles ==
  \A b \in Targets :
    gen[b].ran /\ IsBuild(script[b]) /\ Unambiguous(script[b]) =>
      /\ LET known == {g.itf : g \in Entries(glob[b].globs)}
             config == script[b][step[b] - 1].config
         IN  {x \in gen[b].globs : x[1] \notin known} = ExpectedGlobs(script[b], config, known)
      /\ gen[b].tpls = Expected(script[b]).tpls \cup Installed(glob[b])
      /\ gen[b].code = Expected(script[b]).code

\* The two cache files clash: every invocation fails as it loads them, one that is
\* to clear the local cache included.
Blocked ==
  Readable(globalCache) /\ Readable(localCache) /\ MergeConflict(globalCache, localCache)

\* Installed global code of an interface hides the one that the target registers,
\* and is itself not compatible with the target's configuration: the generation
\* then finds no global code for this interface, and perhaps none at all.
Hidden(s) ==
  Readable(globalCache) /\ \E g \in Entries(globalCache.globs) :
    /\ \E i \in 1..Len(s) : s[i].op = "generate" /\ g.with \notin s[i].config
    /\ \E x \in ScriptGlobs(s) : FileItems[x[1]][x[2]].itf = g.itf

\* A build whose invocations are killed a bounded number of times, and that is
\* then run again, ends with the driver of each target generated: no torn or stale
\* cache file and no failed install stops it for good, only a local cache that
\* clashes with what is installed, or installed global code that hides its own.
BuildCompletes ==
  <>[](Blocked \/ \A b \in Targets :
         IsBuild(script[b]) => Hidden(script[b]) \/ (pc[b] = "done" /\ gen[b].ran))
=============================================================================
