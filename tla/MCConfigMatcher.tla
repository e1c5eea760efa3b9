-------------------------- MODULE MCConfigMatcher --------------------------
(* Versions of two and three units, among them one with a unit of two      *)
(* digits and one with another separator, a number and two systems; pairs  *)
(* of templates with constraints on one variable, two variables or two     *)
(* interfaces.                                                              *)
EXTENDS ConfigMatcher

N(text) == [type |-> "unit", val |-> text]
Dot == [type |-> "sep", val |-> <<>>]
Dash == [type |-> "sep", val |-> <<1>>]

Serial(list) == [rtype |-> "serial", val |-> <<>>, list |-> list]
Plain(rtype, text) == [rtype |-> rtype, val |-> text, list |-> <<>>]

V_2_6 == Serial(<<N(<<2>>), Dot, N(<<6>>)>>)
V_2_6d3 == Serial(<<N(<<2>>), Dot, N(<<6>>), Dash, N(<<3>>)>>)
V_2_6_9 == Serial(<<N(<<2>>), Dot, N(<<6>>), Dot, N(<<9>>)>>)
V_2_6_24 == Serial(<<N(<<2>>), Dot, N(<<6>>), Dot, N(<<2, 4>>)>>)
V_3_0 == Serial(<<N(<<3>>), Dot, N(<<0>>)>>)
Versions == {V_2_6, V_2_6d3, V_2_6_9, V_2_6_24, V_3_0}

Linux == Plain("symbol", <<20>>)
Windows == Plain("symbol", <<30>>)
Seven == Plain("number", <<7>>)
Ten == Plain("number", <<1, 0>>)

MCInterfaces == {"LKM", "PCI"}
MCVariables == {"OS", "version"}
MCValues == Versions \union {Linux, Seven, Ten}

C(itf, var, op, val) == [itf |-> itf, var |-> var, op |-> op, val |-> val]
Version(op, val) == C("LKM", "version", op, val)

\* Two templates told apart by the version, in the pairs that registering the
\* second after the first accepts.
ByVersion ==
  {<< <<Version(o, v)>>, <<Version(p, v)>> >> :
     o \in {"<", ">"}, p \in {"<", "<=", "=", ">=", ">"}, v \in {V_2_6, V_2_6_9, Ten}}

\* Two systems, a version constraint on one of them and one on another interface.
BySystem ==
  {<< <<C("LKM", "OS", "=", Linux), C("PCI", "version", ">=", Ten), Version(p, V_2_6_24)>>,
      <<C("LKM", "OS", "=", Windows), Version("=", Seven)>> >> : p \in {">=", ">"}}

\* A comparison that symbols do not have.
NoOrder == {<< <<C("LKM", "OS", "<", Linux)>> >>}

\* A range of versions: two constraints on one variable.
ByRange ==
  {<< <<Version(">=", V_2_6), Version("<", V_2_6_24)>>, <<Version(">", V_2_6_24)>> >>}

\* No template at all, or one of these.
MCSelections == {<<>>} \union ByVersion \union BySystem \union NoOrder \union ByRange

\* The question of the documentation: is 2.6.24 at least 2.6.9?
V_2_6_x == {V_2_6_9, V_2_6_24}
Since_2_6_9 == {<< <<Version(">=", V_2_6_9)>> >>}

\* NumLess is the order of the numbers that the texts of digits write.
Number(s) == FoldLeft(LAMBDA n, digit : 10 * n + digit, 0, s)
Numerals == {<<d>> : d \in 0..9} \union ((1..9) \X (0..9))
ASSUME NumLessIsLess ==
  \A s, t \in Numerals : NumLess(s, t) <=> Number(s) < Number(t)
=============================================================================
