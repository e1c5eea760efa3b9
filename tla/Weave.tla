------------------------------- MODULE Weave -------------------------------
(***************************************************************************)
(* How the resolution of a chunk weaves code into a block of statements    *)
(* (compiler/passes/common/rtxResolve.inc.cws).  The instanceChunk function*)
(* that rtxGen generates resolves the placeholders of a chunk in order;    *)
(* rtxPlaceHolders recorded for each its index in its block.  Every        *)
(* resolution removes the placeholder's statement and inserts code, so the *)
(* block carries a "modifier" that turns recorded indices into current     *)
(* ones.                                                                   *)
(*                                                                         *)
(* An item of a block is <<kind, at, n>>: a statement or placeholder of the*)
(* original block at position "at", or the n-th statement of code woven for*)
(* the placeholder at "at".  Indices of the code are 0-based.              *)
(***************************************************************************)
EXTENDS Integers, Sequences

CONSTANTS
  MaxBlock,    \* bound: the statements of the block
  MaxChunks,   \* bound: the chunks of a pointcut
  MaxCode,     \* bound: the statements of a chunk
  MaxCalls     \* bound: the calls in the front-end's sequence

ASSUME SizesAssumption ==
  /\ MaxBlock \in Nat /\ MaxChunks \in Nat
  /\ MaxCode \in Nat /\ MaxCalls \in Nat

\* A pointcut without and with a default body, ::IMPLEMENTATION, and a call of
\* a sequence or of a type's method.
Placeholders == {"pointcut", "defaulted", "implementation", "call"}
\* What a chunk gives: code, or text in which instanceChunk has left something
\* unresolved.
Texts == {"code", "partial"}
Kinds == Placeholders \cup Texts \cup {"stmt", "default", "front"}
Item == Kinds \X Nat \X Nat

VARIABLES
  orig, block, modifier,    \* the block as parsed; as woven so far
  pos,                      \* the placeholder in hand: orig[pos]
  pc, startIdx, phIdx,      \* the locals of the handler
  chunks,                   \* the chunks it has inserted
  body, bodyModifier, callIdx,  \* decl.body.block of the front-end's sequence
  errcount,
  woven,                    \* history: what orig[1..pos] should become
  moved                     \* history: was a default set in a block whose size
                            \* had changed?

weaving == <<block, modifier>>
front == <<body, bodyModifier, callIdx>>
vars == <<orig, block, modifier, pos, pc, startIdx, phIdx, chunks, body,
          bodyModifier, callIdx, errcount, woven, moved>>

Init ==
  /\ \E n \in 1..MaxBlock : \E kind \in [1..n -> Placeholders \cup {"stmt"}] :
        orig = [i \in 1..n |-> <<kind[i], i, 0>>]
  /\ \E n \in 0..MaxCalls : body = [i \in 1..n |-> <<"front", i, 0>>]
  /\ block = orig
  /\ modifier = 0 /\ bodyModifier = 0
  /\ pos = 0 /\ pc = "next"
  /\ startIdx = 0 /\ phIdx = 0 /\ chunks = 0 /\ callIdx = 0
  /\ errcount = 0
  /\ woven = <<>> /\ moved = FALSE

----------------------------------------------------------------------------
(* Operations on a block's statements.                                     *)

\* removeVariable(theBlock#[idx])
Without(b, idx) == SubSeq(b, 1, idx) \o SubSeq(b, idx + 2, Len(b))
\* insertElementAt and setall for each item of the source, from idx on
With(b, idx, code) == SubSeq(b, 1, idx) \o code \o SubSeq(b, idx + 1, Len(b))

\* n statements of the code woven for the placeholder at position i
Code(i, n) == [k \in 1..n |-> <<"code", i, phIdx + k>>]

\* The comparison "<=" outside of $...$ compares strings: "10" <= "9".
StringLE(a, b) ==
  CASE a < 10 /\ b >= 10 -> a <= b \div 10
    [] a >= 10 /\ b < 10 -> a \div 10 < b
    [] OTHER -> a <= b

\* orig[i] is the next placeholder to resolve.
NextPlaceholder(i, kinds) ==
  /\ pc = "next"
  /\ i \in pos + 1..Len(orig)
  /\ orig[i][1] \in kinds
  /\ \A j \in pos + 1..i - 1 : orig[j][1] = "stmt"
  /\ pos' = i
  /\ UNCHANGED orig

\* What lies between the placeholder resolved before and orig[i].
Between(i) == SubSeq(orig, pos + 1, i - 1)

\* Mutant: the modifier is not applied to the recorded index.
InsertModifier_Recorded(i) ==
  /\ startIdx' = i - 1
  /\ block' = Without(block, i - 1)
  /\ modifier' = modifier - 1
  /\ phIdx' = 0
\* insertModifier(theBlock, thePointcut) for the placeholder orig[i], and
\* startIdx = thePointcut.block_idx, phIdx = 0 around it.
InsertModifier(i) ==
  /\ startIdx' = (i - 1) + modifier
  /\ block' = Without(block, (i - 1) + modifier)
  /\ modifier' = modifier - 1
  /\ phIdx' = 0

\* rtxResolve_InsertCode(theBlock, startIdx, phName, phIdx, c_tree.body)
InsertCode(code) ==
  /\ block' = With(block, startIdx, code)
  /\ modifier' = modifier + Len(code)
  /\ startIdx' = startIdx + Len(code)
  /\ phIdx' = phIdx + Len(code)

----------------------------------------------------------------------------
(* inject_pointcut<T>                                                      *)

\* No chunk, or none compatible with the configuration, and no default: the
\* placeholder is removed.
InjectNothing(i) ==
  /\ NextPlaceholder(i, {"pointcut"})
  /\ InsertModifier(i)
  /\ woven' = woven \o Between(i)
  /\ UNCHANGED <<pc, chunks, front, errcount, moved>>

\* No chunk but a default body: it is set at the recorded index.
InjectDefault(i) ==
  /\ NextPlaceholder(i, {"defaulted"})
  /\ IF StringLE(Len(block), i - 1) \/ i > Len(block)
       THEN pc' = "aborted" /\ UNCHANGED block
       ELSE /\ block' = [block EXCEPT ![i] = <<"default", i, 0>>]
            /\ UNCHANGED pc
  /\ moved' = (moved \/ modifier # 0)
  /\ woven' = woven \o Between(i) \o << <<"default", i, 0>> >>
  /\ UNCHANGED <<modifier, startIdx, phIdx, chunks, front, errcount>>

\* There are chunks: the placeholder makes way for them.
InjectChunks(i) ==
  /\ NextPlaceholder(i, {"pointcut", "defaulted"})
  /\ InsertModifier(i)
  /\ pc' = "chunks" /\ chunks' = 0
  /\ woven' = woven \o Between(i)
  /\ UNCHANGED <<front, errcount, moved>>

\* One turn of the loop over the chunks; the chunk is loaded and resolved.
InsertChunk(n) ==
  /\ pc = "chunks" /\ chunks < MaxChunks
  /\ InsertCode(Code(pos, n))
  /\ woven' = woven \o Code(pos, n)
  /\ chunks' = chunks + 1
  /\ UNCHANGED <<orig, pos, pc, front, errcount, moved>>

\* instanceChunk returns false: the chunk is skipped.
ChunkFails ==
  /\ pc = "chunks" /\ chunks < MaxChunks
  /\ chunks' = chunks + 1
  /\ errcount' = errcount + 1
  /\ UNCHANGED <<orig, weaving, pos, pc, startIdx, phIdx, front, woven, moved>>

\* Wrong parameters: return false at once.
ParametersFail ==
  /\ pc = "chunks" /\ chunks < MaxChunks
  /\ pc' = "next"
  /\ errcount' = errcount + 1
  /\ UNCHANGED <<orig, weaving, pos, startIdx, phIdx, chunks, front, woven, moved>>

ChunksEnd ==
  /\ pc = "chunks" /\ chunks > 0
  /\ pc' = "next"
  /\ UNCHANGED <<orig, weaving, pos, startIdx, phIdx, chunks, front, errcount,
                 woven, moved>>

----------------------------------------------------------------------------
(* inject<"__rtx_tpl_sequence_call__"> and type_call<T>: one chunk, loaded  *)
(* and resolved before the placeholder is removed.                         *)

InjectCall(i, n) ==
  LET idx == (i - 1) + modifier
  IN /\ NextPlaceholder(i, {"call"})
     /\ block' = With(Without(block, idx), idx, [k \in 1..n |-> <<"code", i, k>>])
     /\ modifier' = modifier - 1 + n
     /\ woven' = woven \o Between(i) \o [k \in 1..n |-> <<"code", i, k>>]
     /\ UNCHANGED <<pc, startIdx, phIdx, chunks, front, errcount, moved>>

\* The chunk is not found or not resolved: the placeholder stays.
CallFails(i) ==
  /\ NextPlaceholder(i, {"call"})
  /\ woven' = woven \o Between(i) \o << orig[i] >>
  /\ errcount' = errcount + 1
  /\ UNCHANGED <<weaving, pc, startIdx, phIdx, chunks, front, moved>>

----------------------------------------------------------------------------
(* inject_pointcut<"::IMPLEMENTATION">                                     *)

\* The front-end has a sequence of that name: replaceCalls starts on it.
FindImplementation(i) ==
  /\ NextPlaceholder(i, {"implementation"})
  /\ pc' = "calls" /\ callIdx' = 0
  /\ woven' = woven \o Between(i)
  /\ UNCHANGED <<weaving, startIdx, phIdx, chunks, body, bodyModifier, errcount,
                 moved>>

\* It has none: return false.
NoImplementation(i) ==
  /\ NextPlaceholder(i, {"implementation"})
  /\ woven' = woven \o Between(i) \o << orig[i] >>
  /\ errcount' = errcount + 1
  /\ UNCHANGED <<weaving, pc, startIdx, phIdx, chunks, front, moved>>

\* Mutant: the index is moved past the call only.
ReplaceCall_StepByOne(n, text) ==
  /\ pc = "calls" /\ callIdx < Len(body)
  /\ body[callIdx + 1][1] = "front"
  /\ LET at  == body[callIdx + 1][2]
         blockIdx == callIdx - bodyModifier
         idx == blockIdx + bodyModifier
     IN body' = With(Without(body, idx), idx, [k \in 1..n |-> <<text, at, k>>])
  /\ bodyModifier' = bodyModifier - 1 + n
  /\ callIdx' = callIdx + 1
  /\ UNCHANGED <<orig, weaving, pos, pc, startIdx, phIdx, chunks, errcount, woven,
                 moved>>
\* rtxResolve_replaceCalls: one turn of its loop.  Parameters that cannot be
\* built are traced only, and when the chunk's instanceChunk fails the text it
\* leaves is inserted all the same: the errcount is a local that nobody reads.
ReplaceCall(n, text) ==
  /\ pc = "calls" /\ callIdx < Len(body)
  /\ body[callIdx + 1][1] = "front"
  /\ LET at  == body[callIdx + 1][2]
         blockIdx == callIdx - bodyModifier
         idx == blockIdx + bodyModifier
     IN /\ body' = With(Without(body, idx), idx, [k \in 1..n |-> <<text, at, k>>])
        /\ callIdx' = idx + n
  /\ bodyModifier' = bodyModifier - 1 + n
  /\ UNCHANGED <<orig, weaving, pos, pc, startIdx, phIdx, chunks, errcount, woven,
                 moved>>

\* The call's chunk is not found, or what is there is no call any more (the
\* sequence has been resolved before): return false, the placeholder stays.
ReplaceCallFails ==
  /\ pc = "calls" /\ callIdx < Len(body)
  /\ pc' = "next"
  /\ errcount' = errcount + 1
  /\ woven' = Append(woven, orig[pos])
  /\ UNCHANGED <<orig, weaving, pos, startIdx, phIdx, chunks, front, moved>>

\* The loop is over: the sequence takes the placeholder's place.
InsertImplementation ==
  LET idx == (pos - 1) + modifier
  IN /\ pc = "calls" /\ callIdx >= Len(body)
     /\ block' = With(Without(block, idx), idx, body)
     /\ modifier' = modifier - 1 + Len(body)
     /\ woven' = woven \o body
     /\ pc' = "next"
     /\ UNCHANGED <<orig, pos, startIdx, phIdx, chunks, front, errcount, moved>>

----------------------------------------------------------------------------
\* The end of instanceChunk: it returns errcount = 0.
Return ==
  /\ pc = "next"
  /\ \A j \in pos + 1..Len(orig) : orig[j][1] = "stmt"
  /\ pc' = "done"
  /\ UNCHANGED <<orig, weaving, pos, startIdx, phIdx, chunks, front, errcount, woven,
                 moved>>

Ended == pc \in {"done", "aborted"} /\ UNCHANGED vars

Next ==
  \/ \E i \in 1..Len(orig) :
       \/ InjectNothing(i) \/ InjectDefault(i) \/ InjectChunks(i)
       \/ CallFails(i) \/ FindImplementation(i) \/ NoImplementation(i)
       \/ \E n \in 0..MaxCode : InjectCall(i, n)
  \/ \E n \in 0..MaxCode :
       InsertChunk(n) \/ \E text \in Texts : ReplaceCall(n, text)
  \/ ChunkFails \/ ParametersFail \/ ChunksEnd
  \/ ReplaceCallFails \/ InsertImplementation
  \/ Return \/ Ended

Spec == Init /\ [][Next]_vars

----------------------------------------------------------------------------
\* The state of the handlers has its type.
TypeOK ==
  /\ orig \in Seq(Item) /\ block \in Seq(Item) /\ body \in Seq(Item)
  /\ woven \in Seq(Item)
  /\ modifier \in Int /\ bodyModifier \in Int
  /\ pos \in 0..Len(orig)
  /\ pc \in {"next", "chunks", "calls", "done", "aborted"}
  /\ startIdx \in Int /\ phIdx \in Nat /\ chunks \in Nat /\ callIdx \in Nat
  /\ errcount \in Nat
  /\ moved \in BOOLEAN

\* The statements of orig that are resolved; ::IMPLEMENTATION keeps its
\* placeholder until replaceCalls is over.
Gone == IF pc = "calls" THEN pos - 1 ELSE pos
\* What the block should be when orig[1..Gone] has been resolved into woven.
Expected == woven \o SubSeq(orig, Gone + 1, Len(orig))

\* inject_pointcut, type_call and the call of a sequence: whatever the sizes of
\* the chunks and whichever placeholders of the block fail, every resolved
\* placeholder has been replaced, in place, by its own code in order, and every
\* other statement is still there, in order, as long as no default body was set
\* in a block whose size had changed (and no error stopped the compiler).
WovenInPlace == ~moved /\ pc # "aborted" => block = Expected

\* A chunk that instanceChunk resolves without counting an error keeps none of
\* its own placeholders and no call of the front-end's sequence.  What may still
\* be unresolved in it is inside of the text of a chunk that replaceCalls has
\* inserted although its instanceChunk failed: that error reaches nobody.
NothingUnresolved ==
  pc = "done" /\ errcount = 0 /\ ~moved =>
    \A k \in 1..Len(block) : block[k][1] \in Texts \cup {"stmt", "default"}
=============================================================================
