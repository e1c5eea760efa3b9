------------------------------ MODULE MCPasses ------------------------------
(* Three passes of the compiler: the selection of templates, the weaving of *)
(* a chunk and the reordering of a block.  A behaviour is one of a single   *)
(* pass, over all of its inputs; the others wait with nothing to do.        *)
EXTENDS MCConfigMatcher, MCTypeReordering, Weave

VARIABLE pass

passVars == <<pass, matchVars, vars, reorderVars>>

\* No templates to choose from, one statement to weave, an empty block.
NoTemplates == MatchInit /\ written = <<>> /\ wanted = "template"
OneStatement == Init /\ orig = << <<"stmt", 1, 0>> >> /\ body = <<>>
EmptyBlock ==
  /\ source = <<>> /\ phase = "done" /\ cur = 1 /\ field = 0
  /\ entries = [k \in TypeKinds |-> <<>>]
  /\ location = [t \in Types |-> 0]
  /\ list = [t \in Types |-> <<>>]
  /\ managed = [t \in Types |-> "unset"]
  /\ inserted = {} /\ result = <<>> /\ stack = <<>>

PassInit ==
  \/ pass = "select" /\ MatchInit /\ OneStatement /\ EmptyBlock
  \/ pass = "weave" /\ NoTemplates /\ Init /\ EmptyBlock
  \/ pass = "reorder" /\ NoTemplates /\ OneStatement /\ ReorderInit

Selecting == pass = "select" /\ UNCHANGED <<pass, vars, reorderVars>>
Weaving == pass = "weave" /\ UNCHANGED <<pass, matchVars, reorderVars>>
Reordering == pass = "reorder" /\ UNCHANGED <<pass, matchVars, vars>>

PassNext ==
  \/ Selecting /\ MatchNext
  \/ Weaving /\ Next
  \/ Reordering /\ ReorderNext

PassSpec == PassInit /\ [][PassNext]_passVars /\ WF_passVars(Reordering /\ ReorderNext)
=============================================================================
