--------------------------- MODULE TypeReordering ---------------------------
(***************************************************************************)
(* rtxResolve_BlockReordering (compiler/passes/common/                     *)
(* rtxResolve_TypeReordering.inc.cws): the declarations of a block are put *)
(* in an order in which C types come after the types they use.             *)
(*                                                                         *)
(* A chunk of the source is [names, deps]: the types it declares, first the*)
(* typedef then the struct or union, and the types the fields of its body  *)
(* mention, each with the flag "aggreg" (by value, not through a pointer). *)
(* A type is <<kind, name>>; the key of a chunk is its position.           *)
(***************************************************************************)
EXTENDS Integers, Sequences

CONSTANTS
  Names,      \* the identifiers of types
  Sources     \* the blocks to reorder: sequences of chunks

TypeKinds == {"struct", "union", "typedef"}
Types == TypeKinds \X Names
Deps == [type : Types, aggreg : BOOLEAN]
Chunk == [names : Seq(Types), deps : Seq(Deps)]

ASSUME SourcesAssumption ==
  \A s \in Sources :
    /\ s \in Seq(Chunk)
    /\ \A k \in 1..Len(s) : \A m, n \in 1..Len(s[k].names) :
         s[k].names[m][1] = s[k].names[n][1] => m = n

VARIABLES
  source,             \* inout_chunks
  phase, cur, field,  \* the loops of BlockReordering
  entries,            \* deps.structs, .unions, .typedefs: names in order
  location, list,     \* of each entry
  managed,            \* of each entry: "unset", "false" or "true"
  inserted, result,   \* inserted_keys and result
  stack               \* the activations of DoRecursive: [type, dep]

graph == <<entries, location, list>>
sorting == <<managed, inserted, result, stack>>
reorderVars == <<source, phase, cur, field, entries, location, list, managed,
                 inserted, result, stack>>

ReorderInit ==
  /\ source \in Sources
  /\ phase = "build" /\ cur = 1 /\ field = 0
  /\ entries = [k \in TypeKinds |-> <<>>]
  /\ location = [t \in Types |-> 0]
  /\ list = [t \in Types |-> <<>>]
  /\ managed = [t \in Types |-> "unset"]
  /\ inserted = {} /\ result = <<>> /\ stack = <<>>

Known(t) == location[t] # 0
\* Chunk k declares type t.
Declares(s, k, t) == \E n \in 1..Len(s[k].names) : s[k].names[n] = t

----------------------------------------------------------------------------
(* The dependency lists.                                                   *)

\* The names of a kind that get their entry with the chunk: one at most.
NewNames(k) == {x \in Names : Declares(source, cur, <<k, x>>) /\ ~Known(<<k, x>>)}

\* A chunk's types are entered; its key replaces that of an earlier chunk.
Declare ==
  /\ phase = "build" /\ field = 0 /\ cur <= Len(source)
  /\ entries' = [k \in TypeKinds |->
       IF NewNames(k) = {} THEN entries[k]
       ELSE Append(entries[k], CHOOSE x \in Names : x \in NewNames(k))]
  /\ location' = [t \in Types |-> IF Declares(source, cur, t) THEN cur ELSE location[t]]
  /\ field' = 1
  /\ UNCHANGED <<source, phase, cur, list, sorting>>

\* Mutant: only the first of the chunk's lists gets the dependency.
InsertDep_FirstList ==
  /\ phase = "build" /\ field > 0 /\ field <= Len(source[cur].deps)
  /\ LET names == source[cur].names
         dep == source[cur].deps[field]
     IN list' = [t \in Types |->
          IF names # <<>> /\ t = names[1] THEN Append(list[t], dep) ELSE list[t]]
  /\ field' = field + 1
  /\ UNCHANGED <<source, phase, cur, entries, location, sorting>>
\* InsertDep: one field's type, unless the first of the chunk's lists has it.
InsertDep ==
  /\ phase = "build" /\ field > 0 /\ field <= Len(source[cur].deps)
  /\ LET names == source[cur].names
         dep == source[cur].deps[field]
         Listed == /\ names # <<>>
                   /\ \E e \in 1..Len(list[names[1]]) : list[names[1]][e].type = dep.type
     IN list' = [t \in Types |->
          IF Declares(source, cur, t) /\ ~Listed THEN Append(list[t], dep) ELSE list[t]]
  /\ field' = field + 1
  /\ UNCHANGED <<source, phase, cur, entries, location, sorting>>

\* The next chunk.
ChunkDone ==
  /\ phase = "build" /\ field > 0 /\ field > Len(source[cur].deps)
  /\ cur' = cur + 1 /\ field' = 0
  /\ UNCHANGED <<source, phase, graph, sorting>>

BuildDone ==
  /\ phase = "build" /\ field = 0 /\ cur > Len(source)
  /\ phase' = "struct" /\ cur' = 1
  /\ UNCHANGED <<source, field, graph, sorting>>

----------------------------------------------------------------------------
(* DoRecursive.                                                            *)

\* The "force" that the recursion passes on is theDep.aggreg: a field of the
\* entry found, which no code sets, and not of the dependency.
Forced(dep) == FALSE

\* The start of DoRecursive(type, ..., force): its early returns, or an
\* activation on top of frames.
Call(type, force, frames) ==
  IF managed[type] = "true" \/ (managed[type] # "unset" /\ ~force)
    THEN UNCHANGED managed /\ stack' = frames
  ELSE IF location[type] \in inserted
    THEN /\ managed' = [managed EXCEPT ![type] = "true"]
         /\ stack' = frames
    ELSE /\ managed' = [managed EXCEPT ![type] = IF force THEN "true" ELSE "false"]
         /\ stack' = Append(frames, [type |-> type, dep |-> 1])

Top == stack[Len(stack)]
Below == SubSeq(stack, 1, Len(stack) - 1)
Advanced == Append(Below, [Top EXCEPT !.dep = @ + 1])

\* Mutant: the loop stays on its dependency.
Recurse_Stays ==
  /\ stack # <<>> /\ Top.dep <= Len(list[Top.type])
  /\ LET dep == list[Top.type][Top.dep]
     IN /\ Known(dep.type)
        /\ Call(dep.type, Forced(dep), stack)
  /\ UNCHANGED <<source, phase, cur, field, graph, inserted, result>>
\* foreach dep in type.list: a dependency on a type of the block.
Recurse ==
  /\ stack # <<>> /\ Top.dep <= Len(list[Top.type])
  /\ LET dep == list[Top.type][Top.dep]
     IN /\ Known(dep.type)
        /\ Call(dep.type, Forced(dep), Advanced)
  /\ UNCHANGED <<source, phase, cur, field, graph, inserted, result>>

\* foreach dep in type.list: a dependency on a type declared elsewhere.
Ignore ==
  /\ stack # <<>> /\ Top.dep <= Len(list[Top.type])
  /\ ~Known(list[Top.type][Top.dep].type)
  /\ stack' = Advanced
  /\ UNCHANGED <<source, phase, cur, field, graph, managed, inserted, result>>

\* Mutant: the chunk is inserted although another entry has inserted it.
InsertType_Twice ==
  /\ stack # <<>> /\ Top.dep > Len(list[Top.type])
  /\ result' = Append(result, location[Top.type])
  /\ inserted' = inserted \cup {location[Top.type]}
  /\ managed' = [managed EXCEPT ![Top.type] = "true"]
  /\ stack' = Below
  /\ UNCHANGED <<source, phase, cur, field, graph>>
\* After the loop: the type's chunk goes to the result, once.
InsertType ==
  /\ stack # <<>> /\ Top.dep > Len(list[Top.type])
  /\ IF location[Top.type] \in inserted
       THEN UNCHANGED <<result, inserted, managed>>
       ELSE /\ result' = Append(result, location[Top.type])
            /\ inserted' = inserted \cup {location[Top.type]}
            /\ managed' = [managed EXCEPT ![Top.type] = "true"]
  /\ stack' = Below
  /\ UNCHANGED <<source, phase, cur, field, graph>>

----------------------------------------------------------------------------
(* The loops over the entries, and the rest of the block.                  *)

Iterate ==
  /\ phase \in TypeKinds /\ stack = <<>> /\ cur <= Len(entries[phase])
  /\ Call(<<phase, entries[phase][cur]>>, FALSE, <<>>)
  /\ cur' = cur + 1
  /\ UNCHANGED <<source, phase, field, graph, inserted, result>>

NextKind ==
  /\ phase \in TypeKinds /\ stack = <<>> /\ cur > Len(entries[phase])
  /\ phase' = CASE phase = "struct" -> "union"
                [] phase = "union" -> "typedef"
                [] phase = "typedef" -> "rest"
  /\ cur' = 1
  /\ UNCHANGED <<source, field, graph, sorting>>

\* Every item that was not inserted goes to the end.
AppendRest ==
  /\ phase = "rest" /\ cur <= Len(source)
  /\ IF cur \in inserted
       THEN UNCHANGED <<inserted, result>>
       ELSE inserted' = inserted \cup {cur} /\ result' = Append(result, cur)
  /\ cur' = cur + 1
  /\ UNCHANGED <<source, phase, field, graph, managed, stack>>

\* setall inout_chunks = result
Finish ==
  /\ phase = "rest" /\ cur > Len(source)
  /\ phase' = "done"
  /\ UNCHANGED <<source, cur, field, graph, sorting>>

Reordered == phase = "done" /\ UNCHANGED reorderVars

ReorderNext ==
  \/ Declare \/ InsertDep \/ ChunkDone \/ BuildDone
  \/ Recurse \/ Ignore \/ InsertType
  \/ Iterate \/ NextKind \/ AppendRest \/ Finish \/ Reordered

ReorderSpec == ReorderInit /\ [][ReorderNext]_reorderVars
ReorderFairSpec == ReorderSpec /\ WF_reorderVars(ReorderNext)

----------------------------------------------------------------------------
\* BlockReordering gives back every chunk of the block exactly once, whether the
\* sort inserted it for one of its types, for the other or at the end.
NothingLost ==
  /\ \A i, j \in 1..Len(result) : result[i] = result[j] => i = j
  /\ inserted = {result[i] : i \in 1..Len(result)}
  /\ phase = "done" => inserted = 1..Len(source)

\* No type is declared by two chunks.
DeclaredOnce(s) ==
  \A t \in Types : \A j, k \in 1..Len(s) : Declares(s, j, t) /\ Declares(s, k, t) => j = k
\* A field of chunk j mentions a type that k declares.
Uses(s, j, k) ==
  j # k /\ \E d \in 1..Len(s[j].deps) : Declares(s, k, s[j].deps[d].type)
\* There is an order in which every chunk comes after those it uses.
Ranks(s, rank) == \A j, k \in 1..Len(s) : Uses(s, j, k) => rank[k] < rank[j]
Orderable(s) == \E rank \in [1..Len(s) -> 1..Len(s)] : Ranks(s, rank)
At(k) == CHOOSE i \in 1..Len(result) : result[i] = k

\* In a block that declares every type once and whose types do not depend on
\* each other in a circle, every chunk comes after the chunks it uses.
DependenciesFirst ==
  phase = "done" /\ DeclaredOnce(source) /\ Orderable(source) =>
    \A j, k \in 1..Len(source) : Uses(source, j, k) => At(k) < At(j)

\* The sort ends, whatever the circles among the types.
Terminates == <>(phase = "done")
=============================================================================
