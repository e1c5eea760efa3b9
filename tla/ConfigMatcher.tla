---------------------------- MODULE ConfigMatcher ----------------------------
(***************************************************************************)
(* The selection of templates and chunks by the configuration of a driver: *)
(* rtxLink_ConfigMatcher.inc.cws, the "with" nodes of node/rtxNode.inc.cws *)
(* and rtxLink_selectUniqueTemplate and rtxLink_selectCompatibleChunks of  *)
(* rtxLink_Query.inc.cws.                                                  *)
(*                                                                         *)
(* A text is a sequence of character codes, compared as CodeWorker compares*)
(* strings.  A value is [rtype, val, list]: val is the text of a number or *)
(* a symbol and empty for a serial (a version), list the units and the     *)
(* separators of a serial and empty otherwise, which is what reading the   *)
(* attribute that a node does not have gives.  A written constraint is     *)
(* [itf, var, op, val]; the constraints of a "with" node are the sequence  *)
(* in which foreach visits them, interface by interface.                   *)
(***************************************************************************)
EXTENDS Integers, FiniteSets, SequencesExt

CONSTANTS
  Interfaces, Variables, Values,
  Selections,   \* the lists of templates, each the list of its constraints
  MaxVars       \* bound: the variables a configuration declares

Ops == {"<", "<=", "=", ">=", ">"}
Text == Seq(Nat)
Unit == [type : {"unit", "sep"}, val : Text]

\* What the parser makes: numbers and symbols are not empty, a serial is a unit
\* and then, in turn, separators and units.
WellFormed(v) ==
  IF v.rtype = "serial"
  THEN /\ v.val = <<>> /\ v.list # <<>>
       /\ \A i \in 1..Len(v.list) : v.list[i].type = IF i % 2 = 1 THEN "unit" ELSE "sep"
  ELSE v.val # <<>> /\ v.list = <<>>
Value ==
  {v \in [rtype : {"serial", "number", "symbol"}, val : Text, list : Seq(Unit)] : WellFormed(v)}
Constraint == [itf : Interfaces, var : Variables, op : Ops, val : Value]

ASSUME InputsAssumption ==
  /\ Values \subseteq Value /\ MaxVars \in Nat
  /\ Selections \subseteq Seq(Seq(Constraint))

VARIABLES
  written,           \* the constraints of each template, as in the sources
  read, withs,       \* how many are read, and the "with" node so far
  config, declared, cfgErrors,
  wanted, tpl, kept, \* the selection: what for, the next template, the kept
  step

sources == <<written, read, withs>>
selecting == <<wanted, tpl, kept>>
matchVars == <<written, read, withs, config, declared, cfgErrors, wanted, tpl, kept, step>>

----------------------------------------------------------------------------
(* The comparisons.                                                        *)

\* The order of strings: "24" comes before "9".
StrLess(s, t) ==
  \E k \in 1..Len(t) :
    /\ \A i \in 1..(k - 1) : i <= Len(s) /\ s[i] = t[i]
    /\ k > Len(s) \/ s[k] < t[k]

\* Where and how the loop over ref's units ends, val being compared with ref.
SerialExit(ref, val) ==
  LET stops == {i \in 1..Len(ref.list) :
                  i > Len(val.list) \/ val.list[i] # ref.list[i]}
      i == Min(stops)
  IN CASE stops = {} /\ Len(val.list) > Len(ref.list) -> "longer"
       [] stops = {} /\ Len(val.list) = Len(ref.list) -> "same"
       [] stops # {} /\ i > Len(val.list) -> "shorter"
       [] stops # {} /\ i <= Len(val.list) ->
            IF val.list[i].type # ref.list[i].type \/ ref.list[i].type = "sep"
            THEN "mismatch"
            ELSE IF StrLess(val.list[i].val, ref.list[i].val) THEN "less" ELSE "greater"

\* The comparisons of numbers, which the parser reads without decimals: of the
\* parts that cutString makes there is one.
NumberLesser(ref, val) == StrLess(val.val, ref.val)
NumberGreater(ref, val) == StrLess(ref.val, val.val)

\* Mutant: a longer version is not taken for a lesser one, but a shorter one is
\* not either.
CompareLesser_SameLength(ref, val) ==
  IF ref.rtype = "serial" THEN SerialExit(ref, val) = "less"
  ELSE NumberLesser(ref, val)

CompareLesser(ref, val) ==
  IF ref.rtype = "serial" THEN SerialExit(ref, val) \in {"shorter", "less"}
  ELSE NumberLesser(ref, val)

CompareEqual(ref, val) ==
  IF ref.rtype = "serial" THEN val = ref ELSE val.val = ref.val

CompareGreater(ref, val) ==
  IF ref.rtype = "serial" THEN SerialExit(ref, val) \in {"greater", "longer"}
  ELSE NumberGreater(ref, val)

CompareLesserEqual(ref, val) ==
  IF ref.rtype = "serial" THEN SerialExit(ref, val) \in {"shorter", "less", "same"}
  ELSE CompareLesser(ref, val) \/ CompareEqual(ref, val)

\* Mutant: a version is at least every version it begins.
CompareGreaterEqual_Prefix(ref, val) ==
  IF ref.rtype = "serial"
  THEN SerialExit(ref, val) \in {"greater", "longer", "same", "shorter"}
  ELSE CompareGreater(ref, val) \/ CompareEqual(ref, val)

CompareGreaterEqual(ref, val) ==
  IF ref.rtype = "serial" THEN SerialExit(ref, val) \in {"greater", "longer", "same"}
  ELSE CompareGreater(ref, val) \/ CompareEqual(ref, val)

\* The default of a comparison throws an error: a symbol has only "=".
Comparable(op, ref) == op = "=" \/ ref.rtype # "symbol"

CompareValues(op, ref, val) ==
  \/ op = "<" /\ CompareLesser(ref, val)
  \/ op = "<=" /\ CompareLesserEqual(ref, val)
  \/ op = "=" /\ CompareEqual(ref, val)
  \/ op = ">=" /\ CompareGreaterEqual(ref, val)
  \/ op = ">" /\ CompareGreater(ref, val)

\* What a constraint makes of the loop: an interface that the configuration
\* does not define is skipped, a variable it does not define stops the loop.
Verdict(c, cfg) ==
  CASE c.itf \notin DOMAIN cfg -> "yes"
    [] c.itf \in DOMAIN cfg /\ c.var \notin DOMAIN cfg[c.itf] -> "no"
    [] c.itf \in DOMAIN cfg /\ c.var \in DOMAIN cfg[c.itf] ->
         IF ~Comparable(c.op, c.val) THEN "error"
         ELSE IF CompareValues(c.op, c.val, cfg[c.itf][c.var]) THEN "yes" ELSE "no"

\* The first constraint that does not hold decides.
IsWithNodeCompatible(with, cfg) ==
  LET stop == SelectInSeq(with, LAMBDA c : Verdict(c, cfg) # "yes")
  IN IF stop = 0 THEN "yes" ELSE Verdict(with[stop], cfg)

----------------------------------------------------------------------------
(* The "with" nodes and the configuration.                                 *)

NoVars == [v \in {} |-> v]

MatchInit ==
  /\ written \in Selections
  /\ read = [t \in DOMAIN written |-> 0]
  /\ withs = [t \in DOMAIN written |-> <<>>]
  /\ config = NoVars /\ declared = 0 /\ cfgErrors = 0
  /\ wanted \in {"template", "chunks"} /\ tpl = 1 /\ kept = {}
  /\ step = "constraints"

\* The constraint takes the place of one on the same variable; a new one goes
\* to the end of its interface.
WithConstraint(with, c) ==
  LET same == SelectInSeq(with, LAMBDA d : d.itf = c.itf /\ d.var = c.var)
      last == SelectLastInSeq(with, LAMBDA d : d.itf = c.itf)
  IN IF same # 0 THEN ReplaceAt(with, same, c)
     ELSE IF last # 0 THEN InsertAt(with, last + 1, c)
     ELSE Append(with, c)

\* rtxNodeWith_AssocInterfaceConstraint, for the next written constraint.
AssocInterfaceConstraint(t) ==
  /\ step = "constraints" /\ read[t] < Len(written[t])
  /\ \A s \in 1..(t - 1) : read[s] = Len(written[s])
  /\ withs' = [withs EXCEPT ![t] = WithConstraint(@, written[t][read[t] + 1])]
  /\ read' = [read EXCEPT ![t] = @ + 1]
  /\ UNCHANGED <<written, config, declared, cfgErrors, selecting, step>>

ConstraintsDone ==
  /\ step = "constraints" /\ \A t \in DOMAIN written : read[t] = Len(written[t])
  /\ step' = "config"
  /\ UNCHANGED <<sources, config, declared, cfgErrors, selecting>>

Vars(cfg, i) == IF i \in DOMAIN cfg THEN cfg[i] ELSE NoVars
Put(f, x, y) == [z \in DOMAIN f \union {x} |-> IF z = x THEN y ELSE f[z]]

\* rtxNodeWith_BuildFromConfigVar: a variable of the configuration block, or
\* of an extension in it.
BuildFromConfigVar(i, v, val) ==
  /\ step = "config" /\ declared < MaxVars
  /\ declared' = declared + 1
  /\ IF v \in DOMAIN Vars(config, i)
     THEN /\ cfgErrors' = cfgErrors + 1
          /\ UNCHANGED config
     ELSE /\ config' = Put(config, i, Put(Vars(config, i), v, val))
          /\ UNCHANGED cfgErrors
  /\ UNCHANGED <<sources, selecting, step>>

\* The end of rtxNodeWith_BuildFromConfig; rathaxes.cws exits on an error.
BuildFromConfig ==
  /\ step = "config"
  /\ step' = IF cfgErrors # 0 THEN "exit" ELSE "select"
  /\ UNCHANGED <<sources, config, declared, cfgErrors, selecting>>

----------------------------------------------------------------------------
(* The selection.                                                          *)

\* The loops of selectUniqueTemplate and selectCompatibleChunks.
Select ==
  /\ step = "select" /\ tpl <= Len(withs)
  /\ LET answer == IsWithNodeCompatible(withs[tpl], config)
     IN /\ kept' = IF answer = "yes" THEN kept \union {tpl} ELSE kept
        /\ step' = IF answer = "error" THEN "error" ELSE step
  /\ tpl' = tpl + 1
  /\ UNCHANGED <<sources, config, declared, cfgErrors, wanted>>

\* One template must be left, or at least one chunk.
SelectEnd ==
  /\ step = "select" /\ tpl > Len(withs)
  /\ step' = IF kept = {} \/ (wanted = "template" /\ Cardinality(kept) # 1)
           THEN "notfound" ELSE "found"
  /\ UNCHANGED <<sources, config, declared, cfgErrors, selecting>>

MatchEnded == step \in {"found", "notfound", "error", "exit"} /\ UNCHANGED matchVars

MatchNext ==
  \/ \E t \in DOMAIN written : AssocInterfaceConstraint(t)
  \/ ConstraintsDone
  \/ \E i \in Interfaces, v \in Variables, val \in Values : BuildFromConfigVar(i, v, val)
  \/ BuildFromConfig
  \/ Select \/ SelectEnd
  \/ MatchEnded

MatchSpec == MatchInit /\ [][MatchNext]_matchVars

----------------------------------------------------------------------------
(* Properties.                                                             *)

\* The order of numbers: 9 comes before 24.  A numeral has no leading zeros.
NumLess(s, t) == Len(s) < Len(t) \/ (Len(s) = Len(t) /\ StrLess(s, t))

\* The order of versions, suites of numbers: one comes before another when it is
\* a proper beginning of it, or when the first numbers in which they differ do.
SerialBefore(a, b) ==
  \E k \in 0..Len(a) :
    /\ k <= Len(b) /\ SubSeq(a, 1, k) = SubSeq(b, 1, k)
    /\ IF k = Len(a) THEN k < Len(b)
       ELSE /\ k < Len(b) /\ a[k + 1].type = "unit" /\ b[k + 1].type = "unit"
            /\ NumLess(a[k + 1].val, b[k + 1].val)

Before(a, b, rtype) ==
  IF rtype = "serial" THEN SerialBefore(a.list, b.list) ELSE NumLess(a.val, b.val)

Satisfied(c, val) ==
  LET type == c.val.rtype IN
  \/ c.op \in {"<", "<="} /\ type # "symbol" /\ Before(val, c.val, type)
  \/ c.op \in {">", ">="} /\ type # "symbol" /\ Before(c.val, val, type)
  \/ c.op = "=" /\ val.val = c.val.val /\ val.list = c.val.list
  \/ c.op \in {"<=", ">="} /\ type # "symbol" /\ val.val = c.val.val /\ val.list = c.val.list

Defined(c) == c.itf \in DOMAIN config /\ c.var \in DOMAIN config[c.itf]

\* The template is in the domain of the configuration: the conditions that are
\* written hold, for the interfaces that the configuration is about ("Is the
\* interface defined in the config ? If not, we won't filter over it...").
InDomain(t) ==
  \A c \in ToSet(written[t]) :
    c.itf \in DOMAIN config => Defined(c) /\ Satisfied(c, config[c.itf][c.var])

\* The template has one condition at most on a variable.
OneEach(t) ==
  \A i, j \in 1..Len(written[t]) :
    written[t][i].itf = written[t][j].itf /\ written[t][i].var = written[t][j].var => i = j

\* Two values of a type whose numbers have as many digits, one by one.
SameDigits(ref, val) ==
  /\ val.rtype = ref.rtype /\ Len(val.val) = Len(ref.val)
  /\ \A i \in 1..Len(ref.list) :
       i <= Len(val.list) => Len(val.list[i].val) = Len(ref.list[i].val)
Aligned(t) ==
  \A c \in ToSet(written[t]) :
    Defined(c) => c.op = "=" \/ SameDigits(c.val, config[c.itf][c.var])

\* rtxLink_IsWithNodeCompatible, with its early returns and its five loops over
\* two versions, keeps exactly the templates whose written conditions hold, with
\* numbers in the order of numbers, and selectUniqueTemplate finds a template
\* only when it is the only one of them.  Two things are needed: compared
\* numbers of as many digits, for the code compares them as strings, and one
\* condition at most on a variable, for rtxNodeWith_AssocInterfaceConstraint
\* puts a second one in the place of the first.
KeptInDomain ==
  /\ step # "error" =>
       \A t \in 1..(tpl - 1) :
         OneEach(t) /\ Aligned(t) => (t \in kept <=> InDomain(t))
  /\ step = "found" /\ wanted = "template" =>
       \A s, t \in DOMAIN written :
         /\ OneEach(s) /\ Aligned(s) /\ InDomain(s)
         /\ OneEach(t) /\ Aligned(t) /\ InDomain(t)
         => s = t

\* What the guide to the back-end language says of a "with" block: its code is
\* selected when its conditions are matched, and a version is "a suite of
\* numbers separated by points (e.g. 2.6.24)".
VersionsAreNumbers ==
  step # "error" =>
    \A t \in 1..(tpl - 1) : OneEach(t) => (t \in kept <=> InDomain(t))

\* Two templates written below a value and from it on (or up to it and above it)
\* share out the configurations between them: one of them is kept and never both,
\* so that a selection between them is never ambiguous and fails only when the
\* two versions have different separators where they first differ
\* (rtxLink_CompareLesser and rtxLink_CompareGreaterEqual, two separate loops).
OppositeTemplates ==
  \A s, t \in 1..(tpl - 1) :
    LET c == withs[s][1]
        d == withs[t][1]
    IN
    /\ Len(withs[s]) = 1 /\ Len(withs[t]) = 1
    /\ c.itf = d.itf /\ c.var = d.var /\ c.val = d.val
    /\ <<c.op, d.op>> \in {<<"<", ">=">>, <<">", "<=">>} /\ Defined(c)
    => \/ s \in kept /\ t \notin kept
       \/ s \notin kept /\ t \in kept
       \/ /\ s \notin kept /\ t \notin kept
          /\ LET ref == c.val.list
                 val == config[c.itf][c.var].list
             IN \E i \in 1..Len(ref) :
                  i <= Len(val) /\ ref[i].type = "sep" /\ ref[i] # val[i]

=============================================================================
